---------------------------- MODULE LoggerProofs ----------------------------
(***************************************************************************)
(* Proofs about the log, for any sizes of the buffer, any lines and any    *)
(* signals: there is always room for one cell more, every byte is in the   *)
(* file or waits for it, and is waited for, as long as no signal falls     *)
(* into a line or a flush, or just before the interest is stored. When one *)
(* does, what it damages are the lines it fell into, and no other.         *)
(***************************************************************************)
EXTENDS Logger, SequenceTheorems, TLAPS

Capacities == MIN .. MAX

Buffers == [mem : [Cells -> Nat], start : Nat, length : Int, capacity : Capacities, copy : Nat]
Locals  == [id : Nat, size : Nat \cup {-1}, at : Int, room : Int, copy : Nat, short : BOOLEAN]

(* A buffer with nothing out of the array, and one with a cell left.       *)
Sound(b) == b \in Buffers /\ b.length \in Nat /\ End(b) <= b.capacity
Roomy(b) == Sound(b) /\ End(b) < b.capacity

Text(b) == Bytes(b, b.start, b.length)

----------------------------------------------------------------------------
(* The operations on the buffer.                                           *)
LEMMA BytesType ==
    ASSUME NEW b \in Buffers, NEW from \in Nat, NEW n \in Nat, from + n <= b.capacity
    PROVE  /\ Bytes(b, from, n) \in Seq(Nat)
           /\ Len(Bytes(b, from, n)) = n
           /\ \A j \in 1 .. n : Bytes(b, from, n)[j] = b.mem[from + j - 1]
  <1>1. \A j \in 1 .. n : from + j - 1 \in Cells
    BY CapacityAssumption DEF Buffers, Capacities, Cells
  <1>2. \A j \in 1 .. n : b.mem[from + j - 1] \in Nat
    BY <1>1 DEF Buffers
  <1>3. Bytes(b, from, n) \in [1 .. n -> Nat]
    BY <1>2 DEF Bytes
  <1> QED
    BY <1>3 DEF Bytes

LEMMA SameBytes ==
    ASSUME NEW b, NEW c, NEW from \in Nat, NEW n \in Nat,
           \A i \in Nat : from <= i /\ i < from + n => b.mem[i] = c.mem[i]
    PROVE  Bytes(b, from, n) = Bytes(c, from, n)
  <1>1. \A j \in 1 .. n : b.mem[from + j - 1] = c.mem[from + j - 1]
    <2> TAKE j \in 1 .. n
    <2>1. from + j - 1 \in Nat /\ from <= from + j - 1 /\ from + j - 1 < from + n
      OBVIOUS
    <2> QED
      BY <2>1
  <1> QED
    BY <1>1 DEF Bytes

LEMMA BytesFromFront ==
    ASSUME NEW b \in Buffers, NEW c \in Buffers, NEW from \in Nat, NEW n \in Nat,
           from + n <= b.capacity, n <= c.capacity,
           \A j \in 0 .. n - 1 : c.mem[j] = b.mem[from + j]
    PROVE  Bytes(c, 0, n) = Bytes(b, from, n)
  <1>1. \A j \in 1 .. n : c.mem[0 + j - 1] = b.mem[from + j - 1]
    <2> TAKE j \in 1 .. n
    <2>1. j - 1 \in 0 .. n - 1 /\ 0 + j - 1 = j - 1 /\ from + (j - 1) = from + j - 1
      OBVIOUS
    <2>2. c.mem[j - 1] = b.mem[from + (j - 1)]
      BY <2>1
    <2> QED
      BY <2>1, <2>2
  <1> QED
    BY <1>1 DEF Bytes

LEMMA RoundedUpIsMore ==
    ASSUME NEW n \in Nat
    PROVE  RoundedUp(n) \in Nat /\ n <= RoundedUp(n)
  BY CapacityAssumption, Z3 DEF RoundedUp

LEMMA MovedKeeps ==
    ASSUME NEW b \in Buffers, Sound(b)
    PROVE  /\ Sound(Moved(b)) /\ Moved(b).start = 0 /\ Moved(b).length = b.length
           /\ Moved(b).capacity = b.capacity
           /\ Text(Moved(b)) = Text(b)
  <1> DEFINE m == [j \in Cells |-> IF j < b.length THEN b.mem[b.start + j] ELSE b.mem[j]]
  <1>1. b.start \in Nat /\ b.length \in Nat /\ b.capacity \in Capacities /\ b.mem \in [Cells -> Nat]
        /\ b.start + b.length <= b.capacity /\ b.copy \in Nat
    BY DEF Sound, Buffers, End
  <1>2. \A j \in Cells : j < b.length => b.start + j \in Cells
    BY <1>1, CapacityAssumption DEF Cells, Capacities
  <1>3. m \in [Cells -> Nat]
    BY <1>1, <1>2
  <1>4. /\ Moved(b) \in Buffers
        /\ Moved(b).mem = m /\ Moved(b).start = 0 /\ Moved(b).length = b.length
        /\ Moved(b).capacity = b.capacity
    <2>1. Moved(b) = [mem |-> m, start |-> 0, length |-> b.length, capacity |-> b.capacity,
                      copy |-> b.copy]
      BY DEF Moved
    <2> HIDE DEF m
    <2> QED
      BY <1>1, <1>3, <2>1 DEF Buffers
  <1>5. \A j \in 0 .. b.length - 1 : j \in Cells /\ j < b.length
    BY <1>1, CapacityAssumption DEF Cells, Capacities
  <1>6. \A j \in 0 .. b.length - 1 : m[j] = b.mem[b.start + j]
    BY <1>5
  <1>7. Text(Moved(b)) = Text(b)
    <2> HIDE DEF m
    <2>1. \A j \in 0 .. b.length - 1 : Moved(b).mem[j] = b.mem[b.start + j]
      BY <1>4, <1>6
    <2>2. b.length <= Moved(b).capacity
      BY <1>1, <1>4, CapacityAssumption DEF Capacities
    <2>3. Bytes(Moved(b), 0, b.length) = Bytes(b, b.start, b.length)
      BY <1>1, <1>4, <2>1, <2>2, BytesFromFront
    <2> QED
      BY <1>4, <2>3 DEF Text
  <1> QED
    BY <1>1, <1>4, <1>7, CapacityAssumption DEF Sound, End, Capacities

LEMMA GrownKeeps ==
    ASSUME NEW b \in Buffers, Sound(b), MayGrow(b)
    PROVE  /\ Sound(Grown(b)) /\ Grown(b).start = 0 /\ Grown(b).length = b.length
           /\ Grown(b).length < Grown(b).capacity
           /\ \/ Grown(b).length + LENGTH <= Grown(b).capacity
              \/ Grown(b).capacity = MAX /\ Grown(b).length + LENGTH >= MAX
           /\ Text(Grown(b)) = Text(b)
  <1> DEFINE m == [j \in Cells |-> IF j < b.length THEN b.mem[b.start + j] ELSE Nothing]
             up == RoundedUp(b.length + LENGTH)
             c == IF up > MAX THEN MAX ELSE up
  <1>1. b.start \in Nat /\ b.length \in Nat /\ b.capacity \in Capacities /\ b.mem \in [Cells -> Nat]
        /\ b.start + b.length <= b.capacity /\ b.copy \in Nat
    BY DEF Sound, Buffers, End
  <1>2. \A j \in Cells : j < b.length => b.start + j \in Cells
    BY <1>1, CapacityAssumption DEF Cells, Capacities
  <1>3. m \in [Cells -> Nat]
    BY <1>1, <1>2 DEF Nothing
  <1>4. Grown(b) = [mem |-> m, start |-> 0, length |-> b.length, capacity |-> c, copy |-> b.copy + 1]
    BY DEF Grown
  <1>5. up \in Nat /\ b.length + LENGTH <= up
    BY <1>1, RoundedUpIsMore, CapacityAssumption
  <1>6. b.capacity <= b.length + LENGTH /\ b.capacity < MAX
    BY <1>1, CapacityAssumption DEF MayGrow, MayMove, Capacities
  <1>7. /\ c \in Capacities /\ b.length < c
        /\ b.length + LENGTH <= c \/ (c = MAX /\ b.length + LENGTH >= MAX)
    <2> HIDE DEF up
    <2> QED
      BY <1>1, <1>5, <1>6, CapacityAssumption DEF Capacities
  <1> HIDE DEF c
  <1>8. Grown(b) \in Buffers
    BY <1>1, <1>3, <1>4, <1>7 DEF Buffers
  <1>9. \A j \in 0 .. b.length - 1 : m[j] = b.mem[b.start + j]
    <2>1. \A j \in 0 .. b.length - 1 : j \in Cells /\ j < b.length
      BY <1>1, CapacityAssumption DEF Cells, Capacities
    <2> QED
      BY <2>1
  <1>10. Text(Grown(b)) = Text(b)
    <2> HIDE DEF m
    <2>1. \A j \in 0 .. b.length - 1 : Grown(b).mem[j] = b.mem[b.start + j]
      BY <1>4, <1>9
    <2>2. Grown(b).capacity = c /\ b.length <= c
      BY <1>1, <1>4, <1>7, CapacityAssumption DEF Capacities
    <2>3. Bytes(Grown(b), 0, b.length) = Bytes(b, b.start, b.length)
      BY <1>1, <1>8, <2>1, <2>2, BytesFromFront
    <2> QED
      BY <1>4, <2>3 DEF Text
  <1> QED
    BY <1>1, <1>4, <1>7, <1>8, <1>10, CapacityAssumption DEF Sound, End, Capacities

LEMMA MakeSpaceKeeps ==
    ASSUME NEW b \in Buffers, Sound(b), NEW given \in BOOLEAN
    PROVE  /\ Sound(MakeSpace(b, given)) /\ MakeSpace(b, given).length = b.length
           /\ Text(MakeSpace(b, given)) = Text(b)
           /\ Roomy(b) => Roomy(MakeSpace(b, given))
           /\ \/ Room(MakeSpace(b, given)) >= LENGTH
              \/ ~given /\ MustMove(b) /\ MayGrow(b)
              \/ /\ MakeSpace(b, given).capacity = MAX
                 /\ MakeSpace(b, given).length + LENGTH >= MAX
  <1>1. b.start \in Nat /\ b.length \in Nat /\ b.capacity \in Capacities
        /\ b.start + b.length <= b.capacity
    BY DEF Sound, Buffers, End
  <1>2. CASE ~MustMove(b) \/ (~MayMove(b) /\ ~MayGrow(b))
    <2>1. MakeSpace(b, given) = b
      BY <1>2 DEF MakeSpace
    <2>2. Room(b) >= LENGTH \/ (b.capacity = MAX /\ b.length + LENGTH >= MAX)
      BY <1>1, <1>2, CapacityAssumption
         DEF MustMove, MayMove, MayGrow, Room, End, Capacities
    <2> QED
      BY <2>1, <2>2
  <1>3. CASE MustMove(b) /\ MayGrow(b) /\ given
    <2>1. MakeSpace(b, given) = Grown(b)
      BY <1>3 DEF MakeSpace, MayGrow
    <2>2. Roomy(Grown(b))
      BY <1>1, <1>3, GrownKeeps DEF Roomy, Sound, Buffers, End
    <2>3. \/ Room(Grown(b)) >= LENGTH
          \/ Grown(b).capacity = MAX /\ Grown(b).length + LENGTH >= MAX
      BY <1>1, <1>3, GrownKeeps, CapacityAssumption DEF Room, End, Sound, Buffers, Capacities
    <2> QED
      BY <1>3, <2>1, <2>2, <2>3, GrownKeeps
  <1>4. CASE MustMove(b) /\ MayGrow(b) /\ ~given
    <2>1. MakeSpace(b, given) = Moved(b)
      BY <1>4 DEF MakeSpace, MayGrow
    <2>2. Roomy(b) => Roomy(Moved(b))
      <3>1. /\ Sound(Moved(b)) /\ Moved(b).start = 0 /\ Moved(b).length = b.length
            /\ Moved(b).capacity = b.capacity
        BY MovedKeeps
      <3>2. b.capacity \in Nat
        BY <1>1, CapacityAssumption DEF Capacities
      <3> QED
        BY <1>1, <3>1, <3>2 DEF Roomy, End
    <2> QED
      BY <1>4, <2>1, <2>2, MovedKeeps
  <1>5. CASE MustMove(b) /\ MayMove(b)
    <2>1. MakeSpace(b, given) = Moved(b)
      BY <1>5 DEF MakeSpace, MayGrow
    <2>2. Roomy(Moved(b)) /\ Room(Moved(b)) >= LENGTH
      BY <1>1, <1>5, MovedKeeps, CapacityAssumption
         DEF Roomy, Sound, Buffers, End, Room, MayMove, Capacities
    <2> QED
      BY <2>1, <2>2, MovedKeeps
  <1> QED
    BY <1>2, <1>3, <1>4, <1>5

LEMMA CountedFits ==
    ASSUME NEW n \in Nat, NEW room \in Int
    PROVE  /\ Counted(n, room) \in Int
           /\ room > 0 => Counted(n, room) \in 0 .. room - 1
  BY DEF Counted

LEMMA PrintedMemory ==
    ASSUME NEW b \in Buffers, NEW at, NEW room, NEW n, NEW id
    PROVE  \A j \in Cells : Printed(b, at, room, n, id).mem[j] =
             IF at <= j /\ j < at + Counted(n, room) THEN id
             ELSE IF room > 0 /\ j = at + Counted(n, room) THEN Nothing
             ELSE b.mem[j]
  BY DEF Printed, Buffers

LEMMA PrintedKeeps ==
    ASSUME NEW b \in Buffers, NEW at \in Int, NEW room \in Int, NEW n \in Nat, NEW id \in Nat
    PROVE  /\ Printed(b, at, room, n, id) \in Buffers
           /\ Printed(b, at, room, n, id).start = b.start
           /\ Printed(b, at, room, n, id).length = b.length
           /\ Printed(b, at, room, n, id).capacity = b.capacity
           /\ Printed(b, at, room, n, id).copy = b.copy
  <1> DEFINE m == [j \in Cells |->
                     IF at <= j /\ j < at + Counted(n, room) THEN id
                     ELSE IF room > 0 /\ j = at + Counted(n, room) THEN Nothing
                     ELSE b.mem[j]]
  <1>1. m \in [Cells -> Nat]
    BY DEF Buffers, Nothing
  <1>2. Printed(b, at, room, n, id) = [b EXCEPT !.mem = m]
    BY DEF Printed
  <1> HIDE DEF m
  <1> QED
    BY <1>1, <1>2 DEF Buffers

LEMMA PrintedAtEnd ==
    ASSUME NEW b \in Buffers, Roomy(b), NEW n \in Nat, NEW id \in Nat
    PROVE  LET c == Printed(b, End(b), Room(b), n, id) IN
           /\ Roomy(c) /\ Text(c) = Text(b)
           /\ \A j \in 0 .. Counted(n, Room(b)) - 1 : c.mem[End(b) + j] = id
  <1> DEFINE c == Printed(b, End(b), Room(b), n, id)
  <1>1. b.start \in Nat /\ b.length \in Nat /\ b.capacity \in Capacities
        /\ b.start + b.length < b.capacity /\ End(b) = b.start + b.length
        /\ Room(b) = b.capacity - End(b)
    BY DEF Roomy, Sound, Buffers, End, Room
  <1>2. Room(b) > 0 /\ End(b) \in Nat /\ Room(b) \in Int /\ b.capacity \in Nat /\ b.capacity <= MAX
    BY <1>1, CapacityAssumption DEF Capacities
  <1>3. Counted(n, Room(b)) \in 0 .. Room(b) - 1
    BY <1>2, CountedFits
  <1>4. /\ c \in Buffers /\ c.start = b.start /\ c.length = b.length /\ c.capacity = b.capacity
        /\ \A j \in Cells : c.mem[j] =
             IF End(b) <= j /\ j < End(b) + Counted(n, Room(b)) THEN id
             ELSE IF Room(b) > 0 /\ j = End(b) + Counted(n, Room(b)) THEN Nothing
             ELSE b.mem[j]
    <2>1. \A at, room \in Int :
             LET p == Printed(b, at, room, n, id) IN
             p \in Buffers /\ p.start = b.start /\ p.length = b.length /\ p.capacity = b.capacity
      BY PrintedKeeps
    <2>2. c \in Buffers /\ c.start = b.start /\ c.length = b.length /\ c.capacity = b.capacity
      BY <1>2, <2>1
    <2> QED
      BY <2>2, PrintedMemory
  <1> HIDE DEF c
  <1>5. Roomy(c)
    BY <1>1, <1>4 DEF Roomy, Sound, End
  <1>6. \A i \in Nat : b.start <= i /\ i < b.start + b.length => c.mem[i] = b.mem[i]
    <2> SUFFICES ASSUME NEW i \in Nat, b.start <= i, i < b.start + b.length
                 PROVE  c.mem[i] = b.mem[i]
      OBVIOUS
    <2>1. i \in Cells /\ i < End(b)
      BY <1>1, <1>2, CapacityAssumption DEF Cells
    <2>2. i # End(b) + Counted(n, Room(b)) /\ ~(End(b) <= i)
      BY <1>2, <1>3, <2>1
    <2> QED
      BY <1>4, <2>1, <2>2
  <1>7. Bytes(c, b.start, b.length) = Bytes(b, b.start, b.length)
    BY <1>1, <1>6, SameBytes
  <1>8. \A j \in 0 .. Counted(n, Room(b)) - 1 : c.mem[End(b) + j] = id
    <2> TAKE j \in 0 .. Counted(n, Room(b)) - 1
    <2>1. /\ End(b) + j \in Cells
          /\ End(b) <= End(b) + j /\ End(b) + j < End(b) + Counted(n, Room(b))
      BY <1>1, <1>2, <1>3, CapacityAssumption DEF Cells
    <2> QED
      BY <1>4, <2>1
  <1>9. Text(c) = Text(b)
    BY <1>4, <1>7 DEF Text
  <1> QED
    BY <1>5, <1>8, <1>9 DEF c

(* Bytes put side by side.                                                 *)
LEMMA BytesSplit ==
    ASSUME NEW b \in Buffers, NEW from \in Nat, NEW k \in Nat, NEW n \in Nat,
           from + k + n <= b.capacity
    PROVE  Bytes(b, from, k) \o Bytes(b, from + k, n) = Bytes(b, from, k + n)
  <1> DEFINE s == Bytes(b, from, k)
             t == Bytes(b, from + k, n)
             u == Bytes(b, from, k + n)
  <1>1. b.capacity \in Nat /\ from + k \in Nat /\ k + n \in Nat
        /\ from + k <= b.capacity /\ from + (k + n) <= b.capacity
    BY CapacityAssumption DEF Buffers, Capacities
  <1>2. s \in Seq(Nat) /\ Len(s) = k /\ \A j \in 1 .. k : s[j] = b.mem[from + j - 1]
    BY <1>1, BytesType
  <1>3. t \in Seq(Nat) /\ Len(t) = n /\ \A j \in 1 .. n : t[j] = b.mem[from + k + j - 1]
    BY <1>1, BytesType
  <1>4. u \in Seq(Nat) /\ Len(u) = k + n /\ \A j \in 1 .. k + n : u[j] = b.mem[from + j - 1]
    BY <1>1, BytesType
  <1> HIDE DEF s, t, u
  <1>5. s \o t \in Seq(Nat)
    BY <1>2, <1>3, ConcatProperties
  <1>6. Len(s \o t) = k + n
    BY <1>2, <1>3, ConcatProperties
  <1>7. \A j \in 1 .. k + n : (s \o t)[j] = IF j <= k THEN s[j] ELSE t[j - k]
    <2>1. \A j \in 1 .. Len(s) + Len(t) :
             (s \o t)[j] = IF j <= Len(s) THEN s[j] ELSE t[j - Len(s)]
      BY <1>2, <1>3, ConcatProperties
    <2> QED
      BY <1>2, <1>3, <2>1
  <1>8. \A j \in 1 .. k + n : (s \o t)[j] = u[j]
    <2> TAKE j \in 1 .. k + n
    <2>1. CASE j <= k
      <3>1. j \in 1 .. k
        BY <2>1
      <3> QED
        BY <1>2, <1>4, <1>7, <2>1, <3>1
    <2>2. CASE ~(j <= k)
      <3>1. j - k \in 1 .. n /\ from + k + (j - k) - 1 = from + j - 1
        BY <1>1, <2>2
      <3>2. t[j - k] = b.mem[from + j - 1]
        BY <1>3, <3>1
      <3> QED
        BY <1>4, <1>7, <2>2, <3>2
    <2> QED
      BY <2>1, <2>2
  <1>9. s \o t = u
    BY <1>1, <1>4, <1>5, <1>6, <1>8, SeqEqual
  <1> QED
    BY <1>9 DEF s, t, u

LEMMA LongerKeeps ==
    ASSUME NEW b \in Buffers, NEW n \in Int
    PROVE  /\ Longer(b, n) \in Buffers
           /\ Longer(b, n).start = b.start /\ Longer(b, n).length = b.length + n
           /\ Longer(b, n).capacity = b.capacity /\ Longer(b, n).mem = b.mem
           /\ Longer(b, n).copy = b.copy
  BY DEF Longer, Buffers

LEMMA LongerText ==
    ASSUME NEW b \in Buffers, Roomy(b), NEW n \in 0 .. Room(b) - 1, NEW id \in Nat,
           \A j \in 0 .. n - 1 : b.mem[End(b) + j] = id
    PROVE  Roomy(Longer(b, n)) /\ Text(Longer(b, n)) = Text(b) \o Times(n, id)
  <1> DEFINE c == Longer(b, n)
  <1>1. b.start \in Nat /\ b.length \in Nat /\ b.capacity \in Nat
        /\ b.start + b.length < b.capacity /\ End(b) = b.start + b.length
        /\ Room(b) = b.capacity - End(b)
    BY CapacityAssumption DEF Roomy, Sound, Buffers, End, Room, Capacities
  <1>2. n \in Nat /\ b.length + n \in Nat /\ b.start + (b.length + n) < b.capacity
    BY <1>1
  <1>3. c \in Buffers /\ c.start = b.start /\ c.length = b.length + n /\ c.capacity = b.capacity
        /\ c.mem = b.mem
    BY <1>2, LongerKeeps
  <1> HIDE DEF c
  <1>4. Roomy(c)
    BY <1>1, <1>2, <1>3 DEF Roomy, Sound, End
  <1>5. Bytes(c, b.start, b.length) \o Bytes(c, b.start + b.length, n) = Bytes(c, b.start, b.length + n)
    <2>1. b.start + b.length + n <= c.capacity
      BY <1>1, <1>2, <1>3
    <2>2. c \in Buffers /\ b.start \in Nat /\ b.length \in Nat /\ n \in Nat
      BY <1>1, <1>2, <1>3
    <2> QED
      BY <2>1, <2>2, BytesSplit
  <1>6. Bytes(c, b.start, b.length) = Bytes(b, b.start, b.length)
    BY <1>3 DEF Bytes
  <1>7. Bytes(c, b.start + b.length, n) = Times(n, id)
    <2>1. \A j \in 1 .. n : c.mem[b.start + b.length + j - 1] = id
      <3> TAKE j \in 1 .. n
      <3>1. j - 1 \in 0 .. n - 1 /\ b.start + b.length + j - 1 = End(b) + (j - 1)
        BY <1>1, <1>2
      <3> QED
        BY <1>3, <3>1
    <2> QED
      BY <2>1 DEF Bytes, Times
  <1>8. Text(c) = Text(b) \o Times(n, id)
    BY <1>3, <1>5, <1>6, <1>7 DEF Text
  <1> QED
    BY <1>4, <1>8 DEF c

LEMMA ShorterKeeps ==
    ASSUME NEW b \in Buffers, NEW k \in Int
    PROVE  /\ Shorter(b, k) \in Buffers
           /\ Shorter(b, k).start = b.start /\ Shorter(b, k).length = b.length - k
           /\ Shorter(b, k).capacity = b.capacity /\ Shorter(b, k).mem = b.mem
  BY DEF Shorter, Buffers

LEMMA RestartedKeeps ==
    ASSUME NEW b \in Buffers, NEW k \in Nat
    PROVE  /\ Restarted(b, k) \in Buffers
           /\ Restarted(b, k).start = (IF b.length = 0 THEN 0 ELSE b.start + k)
           /\ Restarted(b, k).length = b.length
           /\ Restarted(b, k).capacity = b.capacity /\ Restarted(b, k).mem = b.mem
           /\ Text(Restarted(b, k)) = Bytes(b, b.start + k, b.length)
  <1> DEFINE start == IF b.length = 0 THEN 0 ELSE b.start + k
  <1>1. start \in Nat
    BY DEF Buffers
  <1>2. Restarted(b, k) = [b EXCEPT !.start = start]
    BY DEF Restarted
  <1> HIDE DEF start
  <1>3. /\ Restarted(b, k) \in Buffers /\ Restarted(b, k).start = start
        /\ Restarted(b, k).length = b.length /\ Restarted(b, k).capacity = b.capacity
        /\ Restarted(b, k).mem = b.mem
    BY <1>1, <1>2 DEF Buffers
  <1>4. Text(Restarted(b, k)) = Bytes(b, b.start + k, b.length)
    <2>1. CASE b.length = 0
      <3>1. 1 .. b.length = {}
        BY <2>1
      <3> QED
        BY <1>3, <3>1 DEF Text, Bytes
    <2>2. CASE b.length # 0
      <3>1. start = b.start + k
        BY <2>2 DEF start
      <3> QED
        BY <1>3, <3>1 DEF Text, Bytes
    <2> QED
      BY <2>1, <2>2
  <1> QED
    BY <1>3, <1>4 DEF start

LEMMA FlushedKeeps ==
    ASSUME NEW b \in Buffers, NEW k \in Int
    PROVE  /\ Flushed(b, k) \in Buffers
           /\ Flushed(b, k).capacity = b.capacity
           /\ k <= 0 => Flushed(b, k) = b
           /\ k > 0 => /\ Flushed(b, k).length = b.length - k
                       /\ Flushed(b, k).start = IF b.length = k THEN 0 ELSE b.start + k
                       /\ Flushed(b, k).mem = b.mem
  <1>1. CASE k <= 0
    BY <1>1 DEF Flushed
  <1>2. CASE k > 0
    <2> DEFINE shorter == Shorter(b, k)
    <2>1. /\ shorter \in Buffers /\ shorter.start = b.start /\ shorter.length = b.length - k
          /\ shorter.capacity = b.capacity /\ shorter.mem = b.mem
      BY ShorterKeeps
    <2>2. Flushed(b, k) = Restarted(shorter, k) /\ k \in Nat
      BY <1>2 DEF Flushed
    <2> HIDE DEF shorter
    <2>3. /\ Flushed(b, k) \in Buffers /\ Flushed(b, k).length = shorter.length
          /\ Flushed(b, k).capacity = shorter.capacity /\ Flushed(b, k).mem = shorter.mem
          /\ Flushed(b, k).start = IF shorter.length = 0 THEN 0 ELSE shorter.start + k
      BY <2>1, <2>2, RestartedKeeps
    <2>4. shorter.length = 0 <=> b.length = k
      BY <2>1 DEF Buffers
    <2> QED
      BY <1>2, <2>1, <2>3, <2>4
  <1> QED
    BY <1>1, <1>2

LEMMA WritesAre ==
    ASSUME NEW b \in Buffers, Sound(b), NEW k \in Writes(b)
    PROVE  k \in Int /\ k <= b.length /\ (k <= 0 \/ k \in 1 .. b.length)
  BY DEF Writes, Sound

LEMMA FlushedSound ==
    ASSUME NEW b \in Buffers, Sound(b), NEW k \in Writes(b)
    PROVE  Sound(Flushed(b, k)) /\ (Roomy(b) => Roomy(Flushed(b, k)))
  <1>1. b.start \in Nat /\ b.length \in Nat /\ b.capacity \in Nat /\ End(b) = b.start + b.length
        /\ b.start + b.length <= b.capacity /\ 0 < b.capacity
    BY CapacityAssumption DEF Sound, Buffers, End, Capacities
  <1>2. k \in Int /\ k <= b.length
    BY WritesAre
  <1>3. Flushed(b, k) \in Buffers /\ Flushed(b, k).capacity = b.capacity
    BY <1>2, FlushedKeeps
  <1>4. CASE k <= 0
    BY <1>2, <1>4, FlushedKeeps
  <1>5. CASE k > 0
    <2>1. /\ Flushed(b, k).length = b.length - k
          /\ Flushed(b, k).start = IF b.length = k THEN 0 ELSE b.start + k
      BY <1>2, <1>5, FlushedKeeps
    <2>2. Flushed(b, k).length \in Nat /\ End(Flushed(b, k)) <= b.capacity
          /\ (End(b) < b.capacity => End(Flushed(b, k)) < b.capacity)
      BY <1>1, <1>2, <1>5, <2>1 DEF End
    <2> QED
      BY <1>3, <2>2 DEF Sound, Roomy
  <1> QED
    BY <1>2, <1>4, <1>5

LEMMA FlushedText ==
    ASSUME NEW b \in Buffers, Sound(b), NEW k \in Writes(b)
    PROVE  /\ Text(b) \in Seq(Nat) /\ Bytes(b, b.start, k) \in Seq(Nat)
           /\ Text(Flushed(b, k)) \in Seq(Nat)
           /\ Bytes(b, b.start, k) \o Text(Flushed(b, k)) = Text(b)
           /\ k <= 0 => Bytes(b, b.start, k) = <<>> /\ Flushed(b, k) = b
           /\ k > 0 => Text(Flushed(b, k)) = Bytes(b, b.start + k, b.length - k)
  <1>1. b.start \in Nat /\ b.length \in Nat /\ b.capacity \in Nat
        /\ b.start + b.length <= b.capacity
    BY CapacityAssumption DEF Sound, Buffers, End, Capacities
  <1>2. k \in Int /\ k <= b.length
    BY WritesAre
  <1>3. Text(b) \in Seq(Nat)
    BY <1>1, BytesType DEF Text
  <1>4. CASE k <= 0
    <2>1. Flushed(b, k) = b
      BY <1>2, <1>4, FlushedKeeps
    <2>2. 1 .. k = {}
      BY <1>2, <1>4
    <2>3. Bytes(b, b.start, k) = <<>>
      BY <2>2 DEF Bytes
    <2>4. <<>> \o Text(b) = Text(b)
      BY <1>3, ConcatEmptySeq
    <2>5. <<>> \in Seq(Nat)
      BY EmptySeq
    <2> QED
      BY <1>2, <1>3, <1>4, <2>1, <2>3, <2>4, <2>5
  <1>5. CASE k > 0
    <2>1. k \in Nat /\ b.length - k \in Nat /\ b.start + k \in Nat
          /\ b.start + k <= b.capacity /\ (b.start + k) + (b.length - k) <= b.capacity
          /\ k + (b.length - k) = b.length
      BY <1>1, <1>2, <1>5
    <2>2. Bytes(b, b.start, k) \in Seq(Nat) /\ Bytes(b, b.start + k, b.length - k) \in Seq(Nat)
      BY <1>1, <2>1, BytesType
    <2>3. Bytes(b, b.start, k) \o Bytes(b, b.start + k, b.length - k)
            = Bytes(b, b.start, k + (b.length - k))
      <3> DEFINE rest == b.length - k
                 from == b.start
      <3>1. rest \in Nat /\ from \in Nat /\ k \in Nat /\ from + k + rest <= b.capacity
        BY <1>1, <2>1
      <3> HIDE DEF rest, from
      <3>2. Bytes(b, from, k) \o Bytes(b, from + k, rest) = Bytes(b, from, k + rest)
        BY <3>1, BytesSplit
      <3> QED
        BY <3>2 DEF rest, from
    <2>4. Bytes(b, b.start, k) \o Bytes(b, b.start + k, b.length - k) = Text(b)
      BY <2>1, <2>3 DEF Text
    <2>5. /\ Flushed(b, k).length = b.length - k /\ Flushed(b, k).mem = b.mem
          /\ Flushed(b, k).start = IF b.length = k THEN 0 ELSE b.start + k
      BY <1>2, <1>5, FlushedKeeps
    <2>6. Text(Flushed(b, k)) = Bytes(b, b.start + k, b.length - k)
      <3>1. CASE b.length = k
        <4>1. 1 .. b.length - k = {}
          BY <1>1, <3>1
        <4> QED
          BY <2>5, <4>1 DEF Text, Bytes
      <3>2. CASE b.length # k
        BY <2>5, <3>2 DEF Text, Bytes
      <3> QED
        BY <3>1, <3>2
    <2> QED
      BY <1>2, <1>3, <1>5, <2>2, <2>4, <2>6
  <1> QED
    BY <1>2, <1>4, <1>5

LEMMA TimesType ==
    ASSUME NEW n \in Int, NEW id \in Nat
    PROVE  Times(n, id) \in Seq(Nat)
  <1>1. CASE n \in Nat
    BY <1>1 DEF Times
  <1>2. CASE n < 0
    <2>1. 1 .. n = {}
      BY <1>2
    <2>2. Times(n, id) = <<>>
      BY <2>1 DEF Times
    <2> QED
      BY <2>2, EmptySeq
  <1> QED
    BY <1>1, <1>2

----------------------------------------------------------------------------
(* The invariant, one part for what may disturb it.                        *)
Positions == {"idle", "space", "want", "close", "closed", "undefined"} \cup Divisible

TypesInv ==
    /\ buf \in Buffers /\ pc \in Positions /\ line \in Locals /\ took \in Int
    /\ {wanted, interest} \subseteq {"W", "none"} /\ late \in BOOLEAN
    /\ lines \in Nat /\ signals \in Nat
    /\ Calm => file \in Seq(Nat) /\ accepted \in Seq(Nat)

InsideInv == pc \notin {"closed", "undefined"} => Sound(buf)
RoomInv   == Calm => Roomy(buf)

(* What logf has read of the buffer, as long as nothing disturbed it.      *)
LineInv ==
    /\ Calm /\ pc \in {"print", "post"}
         => line.at = End(buf) /\ line.room = Room(buf) /\ line.copy = buf.copy
    /\ Calm /\ pc = "post" /\ line.size >= 0
         => \A j \in 0 .. Counted(line.size, line.room) - 1 : buf.mem[line.at + j] = line.id

(* What a flush has yet to take off the buffer is in it, or was before its *)
(* end, as long as nothing disturbed it.                                   *)
TookInv ==
    /\ pc \in Flushing => took \in Nat \ {0}
    /\ Calm /\ pc \in {"settle", "closing"} => took <= buf.length
    /\ Calm /\ pc \in {"start", "restarting"} => End(buf) + took < buf.capacity

AwaitedInv ==
    /\ pc \in {"idle", "space", "get", "print", "post"} /\ ~late => interest = Wanted(buf)
    /\ pc = "await" /\ ~late => wanted = Wanted(buf)

QuietInv == signals = 0 => harmed = {}

SpaceInv ==
    signals = 0 /\ pc \in {"get", "print", "post"}
      => Room(buf) >= LENGTH \/ line.short \/ (buf.capacity = MAX /\ buf.length + LENGTH >= MAX)

LoggerInv ==
    /\ TypesInv /\ InsideInv /\ RoomInv /\ LineInv /\ TookInv
    /\ AwaitedInv /\ QuietInv /\ SpaceInv /\ NothingIsLost

LEMMA Regroup == \A s, t, u \in Seq(Nat) : s \o (t \o u) = (s \o t) \o u
  <1> TAKE s, t, u \in Seq(Nat)
  <1>1. (s \o t) \o u = s \o (t \o u)
    BY ConcatAssociative
  <1> QED
    BY <1>1, Zenon

LEMMA NoOffset ==
    ASSUME NEW b \in Buffers
    PROVE  Bytes(b, b.start + 0, b.length - 0) = Text(b)
  <1>1. b.start + 0 = b.start /\ b.length - 0 = b.length
    BY DEF Buffers
  <1> QED
    BY <1>1 DEF Text

LEMMA OutIsText ==
    /\ buf \in Buffers /\ pc \notin {"settle", "start"} => Out = file \o Text(buf)
    /\ buf' \in Buffers /\ pc' \notin {"settle", "start"} => Out' = file' \o Text(buf')
  BY NoOffset DEF Out, Begun, Unsettled

LEMMA SoundIsNotAstray ==
    ASSUME NEW b \in Buffers
    PROVE  Sound(b) <=> ~Astray(b)
  <1>1. b.length \in Int /\ End(b) \in Int /\ b.capacity \in Int
    BY CapacityAssumption DEF Buffers, End, Capacities
  <1> QED
    BY <1>1 DEF Sound, Astray

LEMMA InitKeeps == Init => LoggerInv
  <1> SUFFICES ASSUME Init PROVE LoggerInv
    OBVIOUS
  <1> DEFINE m == [j \in Cells |-> Nothing]
  <1>1. buf = [mem |-> m, start |-> 0, length |-> 0, capacity |-> MIN, copy |-> 0]
    BY DEF Init
  <1>2. m \in [Cells -> Nat]
    BY DEF Nothing
  <1>3. MIN \in Capacities /\ MIN \in Nat /\ 0 < MIN
    BY CapacityAssumption DEF Capacities
  <1> HIDE DEF m
  <1>4. buf \in Buffers /\ Roomy(buf) /\ Sound(buf)
    BY <1>1, <1>2, <1>3 DEF Buffers, Roomy, Sound, End
  <1>5. file = <<>> /\ accepted = <<>> /\ pc = "idle" /\ signals = 0 /\ harmed = {}
        /\ interest = "none" /\ wanted = "none" /\ late = FALSE /\ took = 0 /\ lines = 0
    BY DEF Init
  <1>6. TypesInv
    <2>1. <<>> \in Seq(Nat)
      BY EmptySeq
    <2>2. line \in Locals
      BY DEF Init, Locals
    <2>3. {wanted, interest} \subseteq {"W", "none"} /\ late \in BOOLEAN
      BY <1>5
    <2> QED
      BY <1>4, <1>5, <2>1, <2>2, <2>3 DEF TypesInv, Positions
  <1>7. NothingIsLost
    <2>1. Text(buf) = <<>>
      <3>1. 1 .. 0 = {} /\ buf.length = 0
        BY <1>1
      <3> QED
        BY <3>1 DEF Text, Bytes
    <2>2. <<>> \o <<>> = <<>>
      BY EmptySeq, ConcatEmptySeq
    <2>3. Out = file \o Text(buf)
      BY <1>4, <1>5, OutIsText
    <2> QED
      BY <1>5, <2>1, <2>2, <2>3 DEF NothingIsLost
  <1>8. AwaitedInv
    BY <1>1, <1>5 DEF AwaitedInv, Wanted
  <1> QED
    BY <1>4, <1>5, <1>6, <1>7, <1>8
       DEF LoggerInv, InsideInv, RoomInv, LineInv, TookInv, QuietInv, SpaceInv, Flushing

(* The steps that only look at the buffer.                                 *)
LEMMA LookingKeeps ==
    LoggerInv /\ UNCHANGED <<buf, took, wanted, interest, file, accepted, sigVars>>
    /\ pc \in {"idle", "get"} /\ pc' \in {"space", "print", "write", "last"}
      => InsideInv' /\ RoomInv' /\ TookInv' /\ AwaitedInv' /\ QuietInv' /\ NothingIsLost'
  <1> SUFFICES ASSUME LoggerInv, UNCHANGED <<buf, took, wanted, interest, file, accepted, sigVars>>,
                      pc \in {"idle", "get"}, pc' \in {"space", "print", "write", "last"}
               PROVE  InsideInv' /\ RoomInv' /\ TookInv' /\ AwaitedInv' /\ QuietInv' /\ NothingIsLost'
    OBVIOUS
  <1>0. UNCHANGED <<signals, harmed, late>>
    BY DEF sigVars
  <1>1. Calm' => Calm
    BY <1>0 DEF Calm, Undefined
  <1>2. InsideInv' /\ RoomInv'
    BY <1>1 DEF LoggerInv, InsideInv, RoomInv
  <1>3. TookInv' /\ AwaitedInv' /\ QuietInv'
    BY <1>0 DEF LoggerInv, TookInv, AwaitedInv, QuietInv, Flushing
  <1>4. Out' = Out
    BY DEF Out, Begun, Unsettled
  <1>5. NothingIsLost'
    BY <1>1, <1>4 DEF LoggerInv, NothingIsLost, Closing
  <1> QED
    BY <1>2, <1>3, <1>5

LEMMA LogfKeeps == LoggerInv /\ (\E n \in Sizes : Logf(n)) => LoggerInv'
  <1> SUFFICES ASSUME LoggerInv, NEW n \in Sizes, Logf(n) PROVE LoggerInv'
    OBVIOUS
  <1>1. InsideInv' /\ RoomInv' /\ TookInv' /\ AwaitedInv' /\ QuietInv' /\ NothingIsLost'
    BY LookingKeeps DEF Logf
  <1>2. TypesInv'
    <2>1. n \in Nat \cup {-1}
      BY SizesAssumption
    <2>2. line' \in Locals /\ lines' \in Nat
      <3>1. line \in Locals /\ lines + signals + 1 \in Nat /\ lines + 1 \in Nat
        BY DEF LoggerInv, TypesInv
      <3>2. line' = [line EXCEPT !.id = lines + signals + 1, !.size = n, !.short = FALSE]
            /\ lines' = lines + 1
        BY DEF Logf
      <3> QED
        BY <2>1, <3>1, <3>2 DEF Locals
    <2>3. Calm' => Calm
      BY DEF Logf, sigVars, Calm, Undefined
    <2> QED
      BY <2>2, <2>3 DEF LoggerInv, TypesInv, Logf, sigVars, Positions
  <1>3. LineInv' /\ SpaceInv'
    BY DEF Logf, LineInv, SpaceInv
  <1> QED
    BY <1>1, <1>2, <1>3 DEF LoggerInv

LEMMA PrePrintKeeps == LoggerInv /\ (\E given \in BOOLEAN : PrePrint(given)) => LoggerInv'
  <1> SUFFICES ASSUME LoggerInv, NEW given \in BOOLEAN, PrePrint(given) PROVE LoggerInv'
    OBVIOUS
  <1>1. /\ pc = "space" /\ pc' = "get" /\ buf' = MakeSpace(buf, given)
        /\ line' = [line EXCEPT !.short = ~given /\ MustMove(buf) /\ MayGrow(buf)]
        /\ UNCHANGED <<took, wanted, interest, file, accepted, lines, signals, harmed, late>>
    BY DEF PrePrint, logVars, sigVars
  <1>2. buf \in Buffers /\ Sound(buf) /\ line \in Locals
    BY <1>1 DEF LoggerInv, TypesInv, InsideInv
  <1>3. /\ Sound(buf') /\ buf'.length = buf.length /\ Text(buf') = Text(buf)
        /\ Roomy(buf) => Roomy(buf')
        /\ \/ Room(buf') >= LENGTH
           \/ ~given /\ MustMove(buf) /\ MayGrow(buf)
           \/ buf'.capacity = MAX /\ buf'.length + LENGTH >= MAX
    BY <1>1, <1>2, MakeSpaceKeeps
  <1>4. buf' \in Buffers
    BY <1>3 DEF Sound
  <1>5. Calm' => Calm
    BY <1>1 DEF Calm, Undefined
  <1>6. line' \in Locals /\ (line'.short <=> ~given /\ MustMove(buf) /\ MayGrow(buf))
    BY <1>1, <1>2 DEF Locals, MustMove, MayGrow, MayMove
  <1>7. TypesInv'
    BY <1>1, <1>4, <1>5, <1>6 DEF LoggerInv, TypesInv, Positions, Divisible
  <1>8. InsideInv' /\ RoomInv'
    BY <1>3, <1>5 DEF LoggerInv, InsideInv, RoomInv
  <1>9. LineInv' /\ TookInv' /\ QuietInv'
    BY <1>1 DEF LoggerInv, LineInv, TookInv, QuietInv, Flushing
  <1>10. AwaitedInv'
    BY <1>1, <1>3 DEF LoggerInv, AwaitedInv, Wanted
  <1>11. SpaceInv'
    BY <1>1, <1>3, <1>6 DEF SpaceInv
  <1>12. NothingIsLost'
    <2>1. Out = file \o Text(buf) /\ Out' = file \o Text(buf')
      BY <1>1, <1>2, <1>4, OutIsText
    <2> QED
      BY <1>1, <1>3, <1>5, <2>1 DEF LoggerInv, NothingIsLost, Closing
  <1> QED
    BY <1>7, <1>8, <1>9, <1>10, <1>11, <1>12 DEF LoggerInv

LEMMA GetBufstartKeeps == LoggerInv /\ GetBufstart => LoggerInv'
  <1> SUFFICES ASSUME LoggerInv, GetBufstart PROVE LoggerInv'
    OBVIOUS
  <1>1. /\ pc = "get" /\ pc' = "print"
        /\ line' = [line EXCEPT !.at = End(buf), !.room = Room(buf), !.copy = buf.copy]
        /\ UNCHANGED <<buf, took, wanted, interest, logVars, sigVars>>
    BY DEF GetBufstart
  <1>2. InsideInv' /\ RoomInv' /\ TookInv' /\ AwaitedInv' /\ QuietInv' /\ NothingIsLost'
    BY <1>1, LookingKeeps DEF logVars
  <1>3. End(buf) \in Int /\ Room(buf) \in Int /\ buf.copy \in Nat /\ line \in Locals
    BY CapacityAssumption DEF LoggerInv, TypesInv, Buffers, End, Room, Capacities
  <1>4. line' \in Locals /\ line'.at = End(buf) /\ line'.room = Room(buf) /\ line'.copy = buf.copy
        /\ line'.short = line.short
    BY <1>1, <1>3 DEF Locals
  <1>5. TypesInv'
    BY <1>1, <1>4 DEF LoggerInv, TypesInv, logVars, sigVars, Positions, Divisible, Printing, Calm,
                        Undefined
  <1>6. LineInv' /\ SpaceInv'
    BY <1>1, <1>4 DEF LoggerInv, LineInv, SpaceInv, End, Room, sigVars
  <1> QED
    BY <1>2, <1>5, <1>6 DEF LoggerInv

LEMMA HandleKeeps == LoggerInv /\ (HandleWrite \/ HandleClose) => LoggerInv'
  <1> SUFFICES ASSUME LoggerInv, HandleWrite \/ HandleClose PROVE LoggerInv'
    OBVIOUS
  <1>1. /\ pc = "idle" /\ pc' \in {"write", "last"}
        /\ UNCHANGED <<buf, line, took, wanted, interest, logVars, sigVars>>
    BY DEF HandleWrite, HandleClose
  <1>2. InsideInv' /\ RoomInv' /\ TookInv' /\ AwaitedInv' /\ QuietInv' /\ NothingIsLost'
    BY <1>1, LookingKeeps DEF logVars
  <1>3. TypesInv'
    BY <1>1 DEF LoggerInv, TypesInv, logVars, sigVars, Positions, Divisible, Calm, Undefined
  <1>4. LineInv' /\ SpaceInv'
    BY <1>1 DEF LineInv, SpaceInv
  <1> QED
    BY <1>2, <1>3, <1>4 DEF LoggerInv

LEMMA SnprintfKeeps == LoggerInv /\ Snprintf => LoggerInv'
  <1> SUFFICES ASSUME LoggerInv, Snprintf PROVE LoggerInv'
    OBVIOUS
  <1>1. /\ pc = "print"
        /\ UNCHANGED <<line, took, wanted, interest, file, accepted, lines, signals, harmed, late>>
    BY DEF Snprintf, logVars, sigVars
  <1>2. buf \in Buffers /\ Sound(buf) /\ line \in Locals
    BY <1>1 DEF LoggerInv, TypesInv, InsideInv
  <1>3. line.at \in Int /\ line.room \in Int /\ line.id \in Nat /\ line.size \in Nat \cup {-1}
    BY <1>2 DEF Locals
  <1>4. CASE line.copy # buf.copy
    <2>1. pc' = "undefined" /\ buf' = buf
      BY <1>4 DEF Snprintf
    <2>2. ~Calm'
      BY <2>1 DEF Calm, Undefined
    <2>3. TypesInv'
      BY <1>1, <2>1, <2>2 DEF LoggerInv, TypesInv, Positions, Divisible, Printing
    <2> QED
      BY <1>1, <2>1, <2>2, <2>3
         DEF LoggerInv, InsideInv, RoomInv, LineInv, TookInv, AwaitedInv, QuietInv, SpaceInv,
             NothingIsLost, Flushing
  <1>5. CASE line.copy = buf.copy
    <2>1. pc' = "post"
          /\ buf' = IF line.size < 0 THEN buf
                    ELSE Printed(buf, line.at, line.room, line.size, line.id)
      BY <1>5 DEF Snprintf
    <2>2. /\ buf' \in Buffers /\ buf'.start = buf.start /\ buf'.length = buf.length
          /\ buf'.capacity = buf.capacity /\ buf'.copy = buf.copy
      <3>1. CASE line.size < 0
        BY <1>2, <2>1, <3>1
      <3>2. CASE ~(line.size < 0)
        <4>1. line.size \in Nat
          BY <1>3, <3>2
        <4>2. \A at, room \in Int : \A n, id \in Nat :
                 LET p == Printed(buf, at, room, n, id) IN
                 /\ p \in Buffers /\ p.start = buf.start /\ p.length = buf.length
                 /\ p.capacity = buf.capacity /\ p.copy = buf.copy
          BY <1>2, PrintedKeeps
        <4>3. buf' = Printed(buf, line.at, line.room, line.size, line.id)
          BY <2>1, <3>2
        <4> QED
          BY <1>3, <4>1, <4>2, <4>3
      <3> QED
        BY <3>1, <3>2
    <2>3. End(buf') = End(buf) /\ Room(buf') = Room(buf)
      BY <2>2 DEF End, Room
    <2>4. Sound(buf') /\ (Roomy(buf) => Roomy(buf'))
      BY <1>2, <2>2, <2>3 DEF Sound, Roomy
    <2>5. Calm' => Calm
      BY <1>1, <2>1 DEF Calm, Undefined
    <2>6. Calm => line.at = End(buf) /\ line.room = Room(buf) /\ Roomy(buf)
      BY <1>1 DEF LoggerInv, LineInv, RoomInv
    <2>7. Calm => /\ Text(buf') = Text(buf)
                  /\ line.size >= 0
                       => \A j \in 0 .. Counted(line.size, line.room) - 1 : buf'.mem[line.at + j] = line.id
      <3>1. CASE line.size < 0
        BY <1>3, <2>1, <3>1
      <3>2. CASE ~(line.size < 0)
        <4>1. line.size \in Nat
          BY <1>3, <3>2
        <4> SUFFICES ASSUME Calm
                     PROVE  /\ Text(buf') = Text(buf)
                            /\ \A j \in 0 .. Counted(line.size, line.room) - 1 : buf'.mem[line.at + j] = line.id
          OBVIOUS
        <4>2. buf' = Printed(buf, End(buf), Room(buf), line.size, line.id)
          BY <2>1, <2>6, <3>2
        <4>3. /\ Text(buf') = Text(buf)
              /\ \A j \in 0 .. Counted(line.size, Room(buf)) - 1 : buf'.mem[End(buf) + j] = line.id
          BY <1>2, <1>3, <2>6, <4>1, <4>2, PrintedAtEnd
        <4> QED
          BY <2>6, <4>3
      <3> QED
        BY <3>1, <3>2
    <2>8. TypesInv'
      BY <1>1, <2>1, <2>2, <2>5 DEF LoggerInv, TypesInv, Positions, Divisible, Printing
    <2>9. InsideInv' /\ RoomInv'
      BY <1>1, <2>4, <2>5 DEF LoggerInv, InsideInv, RoomInv
    <2>10. LineInv'
      BY <1>1, <1>5, <2>1, <2>2, <2>3, <2>5, <2>6, <2>7 DEF LineInv
    <2>11. TookInv' /\ QuietInv'
      BY <1>1, <2>1 DEF LoggerInv, TookInv, QuietInv, Flushing
    <2>12. AwaitedInv'
      BY <1>1, <2>1, <2>2 DEF LoggerInv, AwaitedInv, Wanted
    <2>13. SpaceInv'
      BY <1>1, <2>1, <2>2, <2>3 DEF LoggerInv, SpaceInv
    <2>14. NothingIsLost'
      <3>1. Out = file \o Text(buf) /\ Out' = file \o Text(buf')
        BY <1>1, <1>2, <2>1, <2>2, OutIsText
      <3> QED
        BY <1>1, <2>5, <2>7, <3>1 DEF LoggerInv, NothingIsLost, Closing
    <2> QED
      BY <2>8, <2>9, <2>10, <2>11, <2>12, <2>13, <2>14 DEF LoggerInv
  <1> QED
    BY <1>4, <1>5

LEMMA PostPrintKeeps == LoggerInv /\ PostPrint => LoggerInv'
  <1> SUFFICES ASSUME LoggerInv, PostPrint PROVE LoggerInv'
    OBVIOUS
  <1>1. /\ pc = "post"
        /\ UNCHANGED <<line, took, wanted, interest, file, lines, signals, harmed, late>>
    BY DEF PostPrint, sigVars
  <1>2. buf \in Buffers /\ Sound(buf) /\ line \in Locals
    BY <1>1 DEF LoggerInv, TypesInv, InsideInv
  <1>3. line.room \in Int /\ line.id \in Nat /\ line.size \in Nat \cup {-1}
    BY <1>2 DEF Locals
  <1>4. CASE line.size < 0
    <2>1. pc' = "idle" /\ buf' = buf /\ accepted' = accepted
      BY <1>4 DEF PostPrint
    <2>2. Calm' => Calm
      BY <1>1 DEF Calm, Undefined
    <2>3. TypesInv'
      BY <1>1, <2>1, <2>2 DEF LoggerInv, TypesInv, Positions, Divisible
    <2>4. InsideInv' /\ RoomInv' /\ LineInv' /\ TookInv' /\ AwaitedInv' /\ QuietInv' /\ SpaceInv'
      BY <1>1, <2>1, <2>2
         DEF LoggerInv, InsideInv, RoomInv, LineInv, TookInv, AwaitedInv, QuietInv, SpaceInv,
             Flushing
    <2>5. Out' = Out
      BY <1>1, <2>1 DEF Out, Begun, Unsettled
    <2>6. NothingIsLost'
      BY <1>1, <2>1, <2>2, <2>5 DEF LoggerInv, NothingIsLost, Closing
    <2> QED
      BY <2>3, <2>4, <2>6 DEF LoggerInv
  <1>5. CASE ~(line.size < 0)
    <2> DEFINE n == Counted(line.size, line.room)
    <2>1. /\ buf' = Longer(buf, n) /\ accepted' = accepted \o Times(n, line.id)
          /\ pc' = IF Astray(buf') THEN "undefined" ELSE "write"
      BY <1>5 DEF PostPrint
    <2>2. line.size \in Nat /\ n \in Int
      BY <1>3, <1>5, CountedFits
    <2>3. Calm => line.at = End(buf) /\ line.room = Room(buf) /\ Roomy(buf)
                  /\ \A j \in 0 .. n - 1 : buf.mem[line.at + j] = line.id
      BY <1>1, <2>2 DEF LoggerInv, LineInv, RoomInv
    <2>4. Calm => n \in 0 .. Room(buf) - 1
      <3>1. Roomy(buf) => Room(buf) > 0 /\ Room(buf) \in Int
        BY <1>2, CapacityAssumption DEF Roomy, Sound, Buffers, End, Room, Capacities
      <3> QED
        BY <2>2, <2>3, <3>1, CountedFits
    <2> HIDE DEF n
    <2>5. buf' \in Buffers
      BY <1>2, <2>1, <2>2, LongerKeeps
    <2>6. Calm => Roomy(buf') /\ Text(buf') = Text(buf) \o Times(n, line.id)
      <3> SUFFICES ASSUME Calm PROVE Roomy(buf') /\ Text(buf') = Text(buf) \o Times(n, line.id)
        OBVIOUS
      <3>1. \A j \in 0 .. n - 1 : buf.mem[End(buf) + j] = line.id
        BY <2>3
      <3> QED
        BY <1>2, <1>3, <2>1, <2>3, <2>4, <3>1, LongerText
    <2>7. Calm' => Calm
      BY <1>1 DEF Calm, Undefined
    <2>8. pc' \in {"write", "undefined"} /\ (pc' = "write" => Sound(buf'))
      BY <2>1, <2>5, SoundIsNotAstray
    <2>9. Calm => /\ file \in Seq(Nat) /\ accepted \in Seq(Nat) /\ accepted' \in Seq(Nat)
                  /\ Text(buf) \in Seq(Nat) /\ Times(n, line.id) \in Seq(Nat)
      <3>1. Times(n, line.id) \in Seq(Nat)
        BY <1>3, <2>2, TimesType
      <3>2. Text(buf) \in Seq(Nat)
        BY <1>2, BytesType, CapacityAssumption DEF Text, Sound, Buffers, End
      <3> QED
        BY <2>1, <3>1, <3>2, ConcatProperties DEF LoggerInv, TypesInv
    <2>10. TypesInv'
      BY <1>1, <2>5, <2>7, <2>8, <2>9 DEF LoggerInv, TypesInv, Positions, Divisible
    <2>11. InsideInv' /\ RoomInv'
      BY <2>6, <2>7, <2>8 DEF InsideInv, RoomInv
    <2>12. LineInv' /\ TookInv' /\ AwaitedInv' /\ QuietInv' /\ SpaceInv'
      BY <1>1, <2>8 DEF LoggerInv, LineInv, TookInv, AwaitedInv, QuietInv, SpaceInv, Flushing
    <2>13. NothingIsLost'
      <3>1. Out = file \o Text(buf) /\ Out' = file \o Text(buf')
        BY <1>1, <1>2, <2>5, <2>8, OutIsText
      <3>2. Calm => Out = accepted
        BY <1>1 DEF LoggerInv, NothingIsLost, Closing
      <3>3. Calm => file \o (Text(buf) \o Times(n, line.id)) = (file \o Text(buf)) \o Times(n, line.id)
        BY <2>9, Regroup, Zenon
      <3>4. Calm => Out' = accepted'
        BY <2>1, <2>6, <3>1, <3>2, <3>3
      <3> QED
        BY <2>7, <3>4 DEF NothingIsLost
    <2> QED
      BY <2>10, <2>11, <2>12, <2>13 DEF LoggerInv
  <1> QED
    BY <1>4, <1>5

LEMMA WriteKeeps == LoggerInv /\ (\E k \in -1 .. MAX : Write(k)) => LoggerInv'
  <1> SUFFICES ASSUME LoggerInv, NEW k \in -1 .. MAX, Write(k) PROVE LoggerInv'
    OBVIOUS
  <1>1. /\ pc = "write" /\ pc' = (IF k > 0 THEN "settle" ELSE "want") /\ took' = k /\ k \in Writes(buf)
        /\ file' = file \o Bytes(buf, buf.start, k)
        /\ UNCHANGED <<buf, line, wanted, interest, accepted, lines, signals, harmed, late>>
    BY DEF Write, sigVars
  <1>2. buf \in Buffers /\ Sound(buf) /\ k \in Int /\ k <= buf.length
    BY <1>1, WritesAre DEF LoggerInv, TypesInv, InsideInv
  <1>3. Calm' => Calm
    BY <1>1 DEF Calm, Undefined
  <1>4. /\ Text(buf) \in Seq(Nat) /\ Bytes(buf, buf.start, k) \in Seq(Nat)
        /\ Text(Flushed(buf, k)) \in Seq(Nat)
        /\ Bytes(buf, buf.start, k) \o Text(Flushed(buf, k)) = Text(buf)
        /\ k <= 0 => Flushed(buf, k) = buf
        /\ k > 0 => Text(Flushed(buf, k)) = Bytes(buf, buf.start + k, buf.length - k)
    BY <1>1, <1>2, FlushedText
  <1>5. Calm => file \in Seq(Nat) /\ accepted \in Seq(Nat) /\ file' \in Seq(Nat)
    BY <1>1, <1>4, ConcatProperties DEF LoggerInv, TypesInv
  <1>6. TypesInv'
    BY <1>1, <1>2, <1>3, <1>5 DEF LoggerInv, TypesInv, Positions, Divisible, Flushing
  <1>7. InsideInv' /\ RoomInv'
    BY <1>1, <1>3 DEF LoggerInv, InsideInv, RoomInv
  <1>8. TookInv'
    BY <1>1, <1>2 DEF TookInv, Flushing
  <1>9. LineInv' /\ AwaitedInv' /\ QuietInv' /\ SpaceInv'
    BY <1>1 DEF LoggerInv, LineInv, AwaitedInv, QuietInv, SpaceInv
  <1>10. NothingIsLost'
    <2>1. Out = file \o Text(buf)
      BY <1>1, <1>2, OutIsText
    <2>2. Out' = file' \o Text(Flushed(buf, k))
      <3>1. CASE k > 0
        BY <1>1, <1>4, <3>1 DEF Out, Begun, Unsettled
      <3>2. CASE ~(k > 0)
        <4>1. Out' = file' \o Text(buf)
          BY <1>1, <1>2, <3>2, OutIsText
        <4>2. k <= 0
          BY <1>2, <3>2
        <4>3. Flushed(buf, k) = buf
          BY <1>4, <4>2
        <4> QED
          BY <4>1, <4>3, Zenon
      <3> QED
        BY <3>1, <3>2
    <2>3. Calm => Out' = file \o (Bytes(buf, buf.start, k) \o Text(Flushed(buf, k)))
      <3>1. Calm => file \in Seq(Nat)
        BY <1>5
      <3>2. Bytes(buf, buf.start, k) \in Seq(Nat) /\ Text(Flushed(buf, k)) \in Seq(Nat)
        BY <1>4
      <3>3. Calm => (file \o Bytes(buf, buf.start, k)) \o Text(Flushed(buf, k))
                      = file \o (Bytes(buf, buf.start, k) \o Text(Flushed(buf, k)))
        BY <3>1, <3>2, Regroup, Zenon
      <3>4. Out' = (file \o Bytes(buf, buf.start, k)) \o Text(Flushed(buf, k))
        BY <1>1, <2>2
      <3> QED
        BY <3>3, <3>4, Zenon
    <2>4. Calm => Out = accepted
      BY <1>1 DEF LoggerInv, NothingIsLost, Closing
    <2>5. Calm => Out' = accepted'
      BY <1>1, <1>4, <2>1, <2>3, <2>4
    <2> QED
      BY <1>3, <2>5 DEF NothingIsLost
  <1> QED
    BY <1>6, <1>7, <1>8, <1>9, <1>10 DEF LoggerInv

(* The two assignments that take a write off the buffer, as                *)
(* try_flush_buffer_to_file and fd_close_handler make them.                *)
LEMMA ShorteningKeeps ==
    ASSUME LoggerInv, Shorten \/ CloseShorten
    PROVE  /\ TypesInv' /\ InsideInv' /\ RoomInv' /\ LineInv' /\ TookInv'
           /\ AwaitedInv' /\ QuietInv' /\ SpaceInv'
  <1>1. /\ \/ pc = "settle" /\ pc' = IF Astray(buf') THEN "undefined" ELSE "start"
           \/ pc = "closing" /\ pc' = IF Astray(buf') THEN "undefined" ELSE "restarting"
        /\ buf' = Shorter(buf, took)
        /\ UNCHANGED <<line, took, wanted, interest, file, accepted, lines, signals, harmed, late>>
    BY DEF Shorten, CloseShorten, logVars, sigVars
  <1>2. buf \in Buffers /\ Sound(buf) /\ took \in Nat \ {0}
    BY <1>1 DEF LoggerInv, TypesInv, InsideInv, TookInv, Flushing
  <1>3. Calm' => Calm
    BY <1>1 DEF Calm, Undefined
  <1>4. Calm => took <= buf.length /\ Roomy(buf)
    BY <1>1 DEF LoggerInv, TookInv, RoomInv
  <1>5. /\ buf' \in Buffers /\ buf'.start = buf.start /\ buf'.length = buf.length - took
        /\ buf'.capacity = buf.capacity
    BY <1>1, <1>2, ShorterKeeps
  <1>6. Calm => Roomy(buf') /\ End(buf') + took < buf'.capacity
    BY <1>2, <1>4, <1>5, CapacityAssumption DEF Roomy, Sound, Buffers, End, Capacities
  <1>7. pc' \in {"start", "restarting", "undefined"} /\ (pc' # "undefined" => Sound(buf'))
    BY <1>1, <1>5, SoundIsNotAstray
  <1>8. TypesInv'
    BY <1>1, <1>3, <1>5, <1>7 DEF LoggerInv, TypesInv, Positions, Divisible, Flushing
  <1>9. InsideInv' /\ RoomInv'
    BY <1>3, <1>6, <1>7 DEF InsideInv, RoomInv
  <1>10. TookInv'
    BY <1>1, <1>2, <1>3, <1>6, <1>7 DEF TookInv
  <1>11. LineInv' /\ AwaitedInv' /\ QuietInv' /\ SpaceInv'
    BY <1>1, <1>7 DEF LoggerInv, LineInv, AwaitedInv, QuietInv, SpaceInv
  <1> QED
    BY <1>8, <1>9, <1>10, <1>11

LEMMA RestartingKeeps ==
    ASSUME LoggerInv, Restart \/ CloseRestart
    PROVE  /\ TypesInv' /\ InsideInv' /\ RoomInv' /\ LineInv' /\ TookInv'
           /\ AwaitedInv' /\ QuietInv' /\ SpaceInv'
  <1>1. /\ \/ pc = "start" /\ pc' = IF Astray(buf') THEN "undefined" ELSE "want"
           \/ pc = "restarting" /\ pc' = IF Astray(buf') THEN "undefined" ELSE "close"
        /\ buf' = Restarted(buf, took)
        /\ UNCHANGED <<line, took, wanted, interest, file, accepted, lines, signals, harmed, late>>
    BY DEF Restart, CloseRestart, logVars, sigVars
  <1>2. buf \in Buffers /\ Sound(buf) /\ took \in Nat \ {0}
    BY <1>1 DEF LoggerInv, TypesInv, InsideInv, TookInv, Flushing
  <1>3. Calm' => Calm
    BY <1>1 DEF Calm, Undefined
  <1>4. Calm => End(buf) + took < buf.capacity
    BY <1>1 DEF LoggerInv, TookInv
  <1>5. /\ buf' \in Buffers /\ buf'.start = (IF buf.length = 0 THEN 0 ELSE buf.start + took)
        /\ buf'.length = buf.length /\ buf'.capacity = buf.capacity
    BY <1>1, <1>2, RestartedKeeps
  <1>6. Calm => Roomy(buf')
    BY <1>2, <1>4, <1>5, CapacityAssumption DEF Roomy, Sound, Buffers, End, Capacities
  <1>7. pc' \in {"want", "close", "undefined"} /\ (pc' # "undefined" => Sound(buf'))
    BY <1>1, <1>5, SoundIsNotAstray
  <1>8. TypesInv'
    BY <1>1, <1>3, <1>5, <1>7 DEF LoggerInv, TypesInv, Positions
  <1>9. InsideInv' /\ RoomInv'
    BY <1>3, <1>6, <1>7 DEF InsideInv, RoomInv
  <1>10. TookInv' /\ LineInv' /\ AwaitedInv' /\ QuietInv' /\ SpaceInv'
    BY <1>1, <1>7 DEF LoggerInv, TookInv, LineInv, AwaitedInv, QuietInv, SpaceInv, Flushing
  <1> QED
    BY <1>8, <1>9, <1>10

LEMMA ShortenKeeps == LoggerInv /\ Shorten => LoggerInv'
  <1> SUFFICES ASSUME LoggerInv, Shorten PROVE LoggerInv'
    OBVIOUS
  <1>1. /\ pc = "settle" /\ pc' = (IF Astray(buf') THEN "undefined" ELSE "start")
        /\ buf' = Shorter(buf, took) /\ UNCHANGED <<took, file, accepted, harmed>>
    BY DEF Shorten, logVars, sigVars
  <1>2. buf \in Buffers /\ took \in Int
    BY DEF LoggerInv, TypesInv
  <1>3. NothingIsLost'
    <2> SUFFICES ASSUME Calm' PROVE Out' = accepted'
      BY DEF NothingIsLost
    <2>1. Calm /\ pc' = "start"
      BY <1>1 DEF Calm, Undefined
    <2>2. buf'.mem = buf.mem /\ buf'.start = buf.start /\ buf'.length = buf.length - took
      BY <1>1, <1>2, ShorterKeeps
    <2>3. buf'.length - 0 = buf.length - took
      BY <1>2, <2>2 DEF Buffers
    <2>4. Out' = Out
      BY <1>1, <2>1, <2>2, <2>3 DEF Out, Begun, Unsettled, Bytes
    <2> QED
      BY <1>1, <2>1, <2>4 DEF LoggerInv, NothingIsLost, Closing
  <1> QED
    BY <1>3, ShorteningKeeps DEF LoggerInv

LEMMA RestartKeeps == LoggerInv /\ Restart => LoggerInv'
  <1> SUFFICES ASSUME LoggerInv, Restart PROVE LoggerInv'
    OBVIOUS
  <1>1. /\ pc = "start" /\ pc' = (IF Astray(buf') THEN "undefined" ELSE "want")
        /\ buf' = Restarted(buf, took) /\ UNCHANGED <<took, file, accepted, harmed>>
    BY DEF Restart, logVars, sigVars
  <1>2. buf \in Buffers /\ took \in Nat
    BY <1>1 DEF LoggerInv, TypesInv, TookInv, Flushing
  <1>3. NothingIsLost'
    <2> SUFFICES ASSUME Calm' PROVE Out' = accepted'
      BY DEF NothingIsLost
    <2>1. Calm /\ pc' = "want"
      BY <1>1 DEF Calm, Undefined
    <2>2. buf' \in Buffers /\ Text(buf') = Bytes(buf, buf.start + took, buf.length)
      BY <1>1, <1>2, RestartedKeeps
    <2>3. buf.length - 0 = buf.length
      BY <1>2 DEF Buffers
    <2>4. Out' = file \o Text(buf')
      BY <1>1, <2>1, <2>2, OutIsText
    <2>5. Out = file \o Text(buf')
      BY <1>1, <2>2, <2>3 DEF Out, Begun, Unsettled
    <2> QED
      BY <1>1, <2>1, <2>4, <2>5 DEF LoggerInv, NothingIsLost, Closing
  <1> QED
    BY <1>3, RestartingKeeps DEF LoggerInv

LEMMA WantKeeps == LoggerInv /\ (Want \/ Await) => LoggerInv'
  <1> SUFFICES ASSUME LoggerInv, Want \/ Await PROVE LoggerInv'
    OBVIOUS
  <1>1. /\ \/ /\ pc = "want" /\ pc' = "await" /\ wanted' = Wanted(buf) /\ late' = FALSE
              /\ interest' = interest
           \/ /\ pc = "await" /\ pc' = "idle" /\ interest' = wanted
              /\ wanted' = wanted /\ late' = late
        /\ UNCHANGED <<buf, line, took, file, accepted, lines, signals, harmed>>
    BY DEF Want, Await, logVars, sigVars
  <1>2. Calm' => Calm
    BY <1>1 DEF Calm, Undefined
  <1>3. Wanted(buf) \in {"W", "none"}
    BY DEF Wanted
  <1>4. TypesInv'
    BY <1>1, <1>2, <1>3 DEF LoggerInv, TypesInv, Positions, Divisible
  <1>5. InsideInv' /\ RoomInv' /\ LineInv' /\ TookInv' /\ QuietInv' /\ SpaceInv'
    BY <1>1, <1>2 DEF LoggerInv, InsideInv, RoomInv, LineInv, TookInv, QuietInv, SpaceInv, Flushing
  <1>6. AwaitedInv'
    BY <1>1 DEF LoggerInv, AwaitedInv
  <1>7. Out' = Out
    BY <1>1 DEF Out, Begun, Unsettled
  <1>8. NothingIsLost'
    BY <1>1, <1>2, <1>7 DEF LoggerInv, NothingIsLost, Closing
  <1> QED
    BY <1>4, <1>5, <1>6, <1>8 DEF LoggerInv

LEMMA CloseWriteKeeps == LoggerInv /\ (\E k \in -1 .. MAX : CloseWrite(k)) => LoggerInv'
  <1> SUFFICES ASSUME LoggerInv, NEW k \in -1 .. MAX, CloseWrite(k) PROVE LoggerInv'
    OBVIOUS
  <1>1. /\ pc = "last" /\ pc' = (IF k > 0 THEN "closing" ELSE "close")
        /\ took' = k /\ k \in Writes(buf) /\ file' = file \o Bytes(buf, 0, k)
        /\ UNCHANGED <<buf, line, wanted, interest, accepted, lines, signals, harmed, late>>
    BY DEF CloseWrite, sigVars
  <1>2. buf \in Buffers /\ Sound(buf) /\ k \in Int /\ k <= buf.length
    BY <1>1, WritesAre DEF LoggerInv, TypesInv, InsideInv
  <1>3. Calm' => Calm
    BY <1>1 DEF Calm, Undefined
  <1>4. Bytes(buf, 0, k) \in Seq(Nat)
    <2>1. CASE k \in Nat
      <3>1. 0 + k <= buf.capacity
        BY <1>2, <2>1, CapacityAssumption DEF Sound, Buffers, End, Capacities
      <3> QED
        BY <1>2, <2>1, <3>1, BytesType
    <2>2. CASE k \notin Nat
      <3>1. 1 .. k = {}
        BY <1>2, <2>2
      <3>2. Bytes(buf, 0, k) = <<>>
        BY <3>1 DEF Bytes
      <3> QED
        BY <3>2, EmptySeq
    <2> QED
      BY <2>1, <2>2
  <1>5. TypesInv'
    <2>1. Calm => file' \in Seq(Nat) /\ accepted' \in Seq(Nat)
      BY <1>1, <1>4, ConcatProperties DEF LoggerInv, TypesInv
    <2> QED
      BY <1>1, <1>2, <1>3, <2>1 DEF LoggerInv, TypesInv, Positions, Divisible, Flushing
  <1>6. InsideInv' /\ RoomInv'
    BY <1>1, <1>3 DEF LoggerInv, InsideInv, RoomInv
  <1>7. TookInv'
    BY <1>1, <1>2 DEF TookInv, Flushing
  <1>8. LineInv' /\ AwaitedInv' /\ QuietInv' /\ SpaceInv' /\ NothingIsLost'
    BY <1>1 DEF LoggerInv, LineInv, AwaitedInv, QuietInv, SpaceInv, NothingIsLost, Closing
  <1> QED
    BY <1>5, <1>6, <1>7, <1>8 DEF LoggerInv

LEMMA CloseKeeps == LoggerInv /\ (CloseShorten \/ CloseRestart \/ Close) => LoggerInv'
  <1>1. LoggerInv /\ CloseShorten => LoggerInv'
    <2> SUFFICES ASSUME LoggerInv, CloseShorten PROVE LoggerInv'
      OBVIOUS
    <2>1. NothingIsLost'
      BY DEF CloseShorten, NothingIsLost, Calm, Undefined, Closing
    <2> QED
      BY <2>1, ShorteningKeeps DEF LoggerInv
  <1>2. LoggerInv /\ CloseRestart => LoggerInv'
    <2> SUFFICES ASSUME LoggerInv, CloseRestart PROVE LoggerInv'
      OBVIOUS
    <2>1. NothingIsLost'
      BY DEF CloseRestart, NothingIsLost, Calm, Undefined, Closing
    <2> QED
      BY <2>1, RestartingKeeps DEF LoggerInv
  <1>3. LoggerInv /\ Close => LoggerInv'
    <2> SUFFICES ASSUME LoggerInv, Close PROVE LoggerInv'
      OBVIOUS
    <2>1. /\ pc = "close" /\ pc' = "closed"
          /\ UNCHANGED <<buf, line, took, wanted, interest, file, accepted, lines, signals, harmed, late>>
      BY DEF Close, logVars, sigVars
    <2>2. Calm' => Calm
      BY <2>1 DEF Calm, Undefined
    <2>3. TypesInv'
      BY <2>1, <2>2 DEF LoggerInv, TypesInv, Positions
    <2> QED
      BY <2>1, <2>2, <2>3
         DEF LoggerInv, InsideInv, RoomInv, LineInv, TookInv, AwaitedInv, QuietInv, SpaceInv,
             NothingIsLost, Flushing, Closing
  <1> QED
    BY <1>1, <1>2, <1>3

(* A whole logf of the handler: what it counts, and the buffer then.       *)
CountedThere(b, given) == Counted(SignalSize, Room(MakeSpace(b, given)))

WithLine(b, given, id) ==
    LET space == MakeSpace(b, given) IN
    Longer(Printed(space, End(space), Room(space), SignalSize, id), CountedThere(b, given))

LEMMA WholeLineKeeps ==
    ASSUME NEW b \in Buffers, Sound(b), NEW given \in BOOLEAN, NEW id \in Nat, NEW k \in Int
    PROVE  /\ WithLine(b, given, id) \in Buffers /\ Flushed(WithLine(b, given, id), k) \in Buffers
           /\ CountedThere(b, given) \in Int
           /\ ~Astray(WithLine(b, given, id)) /\ k \in Writes(WithLine(b, given, id))
                => Sound(Flushed(WithLine(b, given, id), k))
           /\ Roomy(b) /\ k \in Writes(WithLine(b, given, id)) =>
                /\ Roomy(Flushed(WithLine(b, given, id), k))
                /\ Bytes(WithLine(b, given, id), WithLine(b, given, id).start, k) \in Seq(Nat)
                /\ Text(Flushed(WithLine(b, given, id), k)) \in Seq(Nat)
                /\ Text(b) \in Seq(Nat)
                /\ Bytes(WithLine(b, given, id), WithLine(b, given, id).start, k)
                     \o Text(Flushed(WithLine(b, given, id), k))
                       = Text(b) \o Times(CountedThere(b, given), id)
  <1> DEFINE space   == MakeSpace(b, given)
             n       == Counted(SignalSize, Room(space))
             printed == Printed(space, End(space), Room(space), SignalSize, id)
             longer  == Longer(printed, n)
  <1>0. WithLine(b, given, id) = longer /\ CountedThere(b, given) = n
    BY DEF WithLine, CountedThere
  <1>1. Sound(space) /\ Text(space) = Text(b) /\ (Roomy(b) => Roomy(space))
    BY MakeSpaceKeeps
  <1>2. space \in Buffers
    BY <1>1 DEF Sound
  <1> HIDE DEF space
  <1>3. End(space) \in Int /\ Room(space) \in Int /\ SignalSize \in Nat
    BY <1>2, CapacityAssumption, SizesAssumption DEF Buffers, End, Room, Capacities
  <1>4. n \in Int
    BY <1>3, CountedFits
  <1>5. printed \in Buffers
    <2>1. \A at, room \in Int : Printed(space, at, room, SignalSize, id) \in Buffers
      BY <1>2, <1>3, PrintedKeeps
    <2> QED
      BY <1>3, <2>1
  <1>6. Roomy(space) => /\ Roomy(printed) /\ Text(printed) = Text(space)
                        /\ n \in 0 .. Room(printed) - 1
                        /\ \A j \in 0 .. n - 1 : printed.mem[End(printed) + j] = id
    <2> SUFFICES ASSUME Roomy(space)
                 PROVE  /\ Roomy(printed) /\ Text(printed) = Text(space)
                        /\ n \in 0 .. Room(printed) - 1
                        /\ \A j \in 0 .. n - 1 : printed.mem[End(printed) + j] = id
      OBVIOUS
    <2>1. /\ Roomy(printed) /\ Text(printed) = Text(space)
          /\ \A j \in 0 .. n - 1 : printed.mem[End(space) + j] = id
      BY <1>2, <1>3, PrintedAtEnd
    <2>2. \A at, room \in Int :
             LET p == Printed(space, at, room, SignalSize, id) IN
             p.start = space.start /\ p.length = space.length /\ p.capacity = space.capacity
      BY <1>2, <1>3, PrintedKeeps
    <2>3. printed.start = space.start /\ printed.length = space.length
          /\ printed.capacity = space.capacity
      BY <1>3, <2>2
    <2>4. End(printed) = End(space) /\ Room(printed) = Room(space)
      BY <2>3 DEF End, Room
    <2>5. Room(space) > 0
      BY <1>2, CapacityAssumption DEF Roomy, Sound, Buffers, End, Room, Capacities
    <2>6. n \in 0 .. Room(space) - 1
      BY <1>3, <2>5, CountedFits
    <2> QED
      BY <2>1, <2>4, <2>6
  <1> HIDE DEF printed, n
  <1>7. longer \in Buffers
    BY <1>4, <1>5, LongerKeeps
  <1>8. Roomy(b) => Roomy(longer) /\ Text(longer) = Text(b) \o Times(n, id)
    BY <1>1, <1>5, <1>6, LongerText
  <1> HIDE DEF longer
  <1>9. Flushed(longer, k) \in Buffers
    BY <1>7, FlushedKeeps
  <1>10. ~Astray(longer) /\ k \in Writes(longer) => Sound(Flushed(longer, k))
    BY <1>7, SoundIsNotAstray, FlushedSound
  <1>11. ASSUME Roomy(b), k \in Writes(longer)
         PROVE  /\ Roomy(Flushed(longer, k))
                /\ Bytes(longer, longer.start, k) \in Seq(Nat)
                /\ Text(Flushed(longer, k)) \in Seq(Nat)
                /\ Text(b) \in Seq(Nat)
                /\ Bytes(longer, longer.start, k) \o Text(Flushed(longer, k))
                     = Text(b) \o Times(n, id)
    <2>1. Roomy(longer) /\ Sound(longer) /\ Text(longer) = Text(b) \o Times(n, id)
      BY <1>8, <1>11 DEF Roomy
    <2>2. /\ Bytes(longer, longer.start, k) \in Seq(Nat) /\ Text(Flushed(longer, k)) \in Seq(Nat)
          /\ Bytes(longer, longer.start, k) \o Text(Flushed(longer, k)) = Text(longer)
      BY <1>7, <1>11, <2>1, FlushedText
    <2>3. Roomy(Flushed(longer, k))
      BY <1>7, <1>11, <2>1, FlushedSound
    <2>4. Text(b) \in Seq(Nat)
      BY BytesType, CapacityAssumption DEF Text, Sound, Buffers, End
    <2> QED
      BY <2>1, <2>2, <2>3, <2>4
  <1>12. /\ longer \in Buffers /\ Flushed(longer, k) \in Buffers /\ n \in Int
         /\ ~Astray(longer) /\ k \in Writes(longer) => Sound(Flushed(longer, k))
         /\ Roomy(b) /\ k \in Writes(longer) =>
              /\ Roomy(Flushed(longer, k))
              /\ Bytes(longer, longer.start, k) \in Seq(Nat)
              /\ Text(Flushed(longer, k)) \in Seq(Nat)
              /\ Text(b) \in Seq(Nat)
              /\ Bytes(longer, longer.start, k) \o Text(Flushed(longer, k))
                   = Text(b) \o Times(n, id)
    BY <1>4, <1>7, <1>9, <1>10, <1>11
  <1> QED
    BY <1>0, <1>12, Zenon

LEMMA SignalKeeps ==
    LoggerInv /\ (\E given \in BOOLEAN, k \in -1 .. MAX : Signal(given, k)) => LoggerInv'
  <1> SUFFICES ASSUME LoggerInv, NEW given \in BOOLEAN, NEW k \in -1 .. MAX, Signal(given, k)
               PROVE  LoggerInv'
    OBVIOUS
  <1> DEFINE id     == lines + signals + 1
             n      == CountedThere(buf, given)
             longer == WithLine(buf, given, id)
  <1>1. pc \notin {"closed", "undefined"} /\ signals' = signals + 1 /\ late' = (pc = "await")
        /\ UNCHANGED <<line, took, wanted, lines>>
    BY DEF Signal
  <1>2. /\ k \in Writes(longer)
        /\ file' = file \o Bytes(longer, longer.start, k)
        /\ accepted' = accepted \o Times(n, id)
        /\ buf' = Flushed(longer, k)
        /\ interest' = Wanted(buf')
        /\ pc' = IF Astray(longer) THEN "undefined" ELSE pc
    BY DEF Signal, WithLine, CountedThere
  <1>3. harmed' = IF pc \in Printing THEN harmed \cup {line.id, id}
                  ELSE IF pc \in Flushing THEN harmed \cup Waiting \cup {id}
                  ELSE harmed
    BY DEF Signal
  <1>4. buf \in Buffers /\ Sound(buf) /\ id \in Nat /\ k \in Int /\ signals' \in Nat /\ signals' # 0
    <2>1. lines \in Nat /\ signals \in Nat
      BY DEF LoggerInv, TypesInv
    <2>2. id \in Nat
      BY <2>1
    <2> QED
      BY <1>1, <2>1, <2>2, CapacityAssumption DEF LoggerInv, TypesInv, InsideInv
  <1> HIDE DEF id
  <1>5. /\ longer \in Buffers /\ Flushed(longer, k) \in Buffers /\ n \in Int
        /\ ~Astray(longer) /\ k \in Writes(longer) => Sound(Flushed(longer, k))
        /\ Roomy(buf) /\ k \in Writes(longer) =>
             /\ Roomy(Flushed(longer, k))
             /\ Bytes(longer, longer.start, k) \in Seq(Nat)
             /\ Text(Flushed(longer, k)) \in Seq(Nat)
             /\ Text(buf) \in Seq(Nat)
             /\ Bytes(longer, longer.start, k) \o Text(Flushed(longer, k))
                  = Text(buf) \o Times(n, id)
    BY <1>4, WholeLineKeeps
  <1> HIDE DEF longer, n
  <1>6. Calm' => Calm /\ pc \notin Flushing /\ pc' = pc
    BY <1>1, <1>2, <1>3 DEF Calm, Undefined
  <1>7. Calm => file \in Seq(Nat) /\ accepted \in Seq(Nat) /\ Roomy(buf)
    BY DEF LoggerInv, TypesInv, RoomInv
  <1>8. pc' \in {pc, "undefined"} /\ (pc' # "undefined" => ~Astray(longer))
    BY <1>1, <1>2
  <1>9. TypesInv'
    <2>1. Times(n, id) \in Seq(Nat)
      BY <1>4, <1>5, TimesType
    <2>2. Calm => file' \in Seq(Nat) /\ accepted' \in Seq(Nat)
      BY <1>2, <1>5, <1>7, <2>1, ConcatProperties
    <2>3. pc' \in Positions
      BY <1>8 DEF LoggerInv, TypesInv, Positions
    <2>4. interest' \in {"W", "none"} /\ late' \in BOOLEAN
      BY <1>1, <1>2 DEF Wanted
    <2> QED
      BY <1>1, <1>2, <1>4, <1>5, <1>6, <2>2, <2>3, <2>4 DEF LoggerInv, TypesInv
  <1>10. InsideInv' /\ RoomInv'
    BY <1>2, <1>5, <1>6, <1>7, <1>8 DEF InsideInv, RoomInv
  <1>11. LineInv' /\ TookInv'
    <2>1. LineInv'
      BY <1>3, <1>6 DEF LineInv, Calm, Printing
    <2>2. pc' \in Flushing => pc \in Flushing
      BY <1>8 DEF Flushing
    <2>3. TookInv'
      BY <1>1, <1>6, <2>2 DEF LoggerInv, TookInv, Flushing
    <2> QED
      BY <2>1, <2>3
  <1>12. AwaitedInv' /\ QuietInv' /\ SpaceInv'
    BY <1>1, <1>2, <1>4, <1>8 DEF AwaitedInv, QuietInv, SpaceInv
  <1>13. NothingIsLost'
    <2> SUFFICES ASSUME Calm', ~Closing' PROVE Out' = accepted'
      BY DEF NothingIsLost
    <2>1. Calm /\ pc \notin Flushing /\ pc' = pc
      BY <1>6
    <2>2. Out = file \o Text(buf) /\ Out' = file' \o Text(buf')
      BY <1>2, <1>4, <1>5, <2>1, OutIsText DEF Flushing
    <2>3. Out = accepted
      BY <2>1 DEF LoggerInv, NothingIsLost, Closing
    <2>4. /\ file \in Seq(Nat) /\ Text(buf) \in Seq(Nat) /\ Times(n, id) \in Seq(Nat)
          /\ Bytes(longer, longer.start, k) \in Seq(Nat) /\ Text(Flushed(longer, k)) \in Seq(Nat)
          /\ Bytes(longer, longer.start, k) \o Text(Flushed(longer, k)) = Text(buf) \o Times(n, id)
      BY <1>2, <1>4, <1>5, <1>7, <2>1, TimesType
    <2>5. file \o (Bytes(longer, longer.start, k) \o Text(Flushed(longer, k)))
            = (file \o Bytes(longer, longer.start, k)) \o Text(Flushed(longer, k))
      BY <2>4, Regroup, Zenon
    <2>6. file \o (Text(buf) \o Times(n, id)) = (file \o Text(buf)) \o Times(n, id)
      BY <2>4, Regroup, Zenon
    <2> QED
      BY <1>2, <2>2, <2>3, <2>4, <2>5, <2>6, Zenon
  <1> QED
    BY <1>9, <1>10, <1>11, <1>12, <1>13 DEF LoggerInv

LEMMA SignalWithinKeeps == LoggerInv /\ SignalWithin => LoggerInv'
  <1> SUFFICES ASSUME LoggerInv, SignalWithin PROVE LoggerInv'
    OBVIOUS
  <1>1. /\ pc' = "undefined" /\ signals' = signals + 1
        /\ UNCHANGED <<buf, line, took, wanted, interest, file, accepted, lines, harmed, late>>
    BY DEF SignalWithin, logVars
  <1>2. ~Calm' /\ signals' \in Nat /\ signals' # 0
    BY <1>1 DEF Calm, Undefined, LoggerInv, TypesInv
  <1>3. TypesInv'
    BY <1>1, <1>2 DEF LoggerInv, TypesInv, Positions
  <1> QED
    BY <1>1, <1>2, <1>3
       DEF LoggerInv, InsideInv, RoomInv, LineInv, TookInv, AwaitedInv, QuietInv, SpaceInv,
           NothingIsLost, Flushing

LEMMA StutterKeeps == LoggerInv /\ UNCHANGED vars => LoggerInv'
  BY DEF vars, logVars, sigVars, LoggerInv, TypesInv, InsideInv, RoomInv, LineInv, TookInv, AwaitedInv, QuietInv,
         SpaceInv, NothingIsLost, Out, Begun, Unsettled, Closing, Calm, Undefined

LEMMA NextKeeps == LoggerInv /\ [Next]_vars => LoggerInv'
  BY LogfKeeps, PrePrintKeeps, GetBufstartKeeps, SnprintfKeeps, PostPrintKeeps, HandleKeeps,
     WriteKeeps, ShortenKeeps, RestartKeeps, WantKeeps, CloseWriteKeeps, CloseKeeps, SignalKeeps,
     SignalWithinKeeps, StutterKeeps
     DEF Next, Step

(* The invariant holds whatever the sizes, the lines and the signals are:  *)
(* what the other theorems on lib/logger/logger.c rest on.                 *)
THEOREM LoggerInvariant == Spec => []LoggerInv
  BY InitKeeps, NextKeeps, PTL DEF Spec

(* make_buffer_space and logger_post_print leave a cell after what is      *)
(* pending, and nothing counted is out of the array, unless a signal fell  *)
(* into a line or a flush.                                                 *)
THEOREM BufferHasRoom == Spec => []LoggerTypeOK
  <1>1. LoggerInv => LoggerTypeOK
    <2> SUFFICES ASSUME LoggerInv PROVE LoggerTypeOK
      OBVIOUS
    <2>1. buf \in Buffers /\ pc \in Positions
      BY DEF LoggerInv, TypesInv
    <2>2. pc \notin {"closed", "undefined"} => ~Astray(buf)
      BY <2>1, SoundIsNotAstray DEF LoggerInv, InsideInv
    <2>3. Calm => End(buf) < buf.capacity
      BY DEF LoggerInv, RoomInv, Roomy
    <2>4. Calm /\ pc \in Printing => line.room > 0
      <3>1. Calm => Room(buf) > 0
        BY <2>1, <2>3, CapacityAssumption DEF Buffers, End, Room, Capacities
      <3> QED
        BY <3>1 DEF LoggerInv, LineInv, Printing
    <2>5. {wanted, interest} \subseteq {"W", "none"} /\ late \in BOOLEAN
      BY DEF LoggerInv, TypesInv
    <2> QED
      BY <2>1, <2>2, <2>3, <2>4, <2>5 DEF LoggerTypeOK, Buffers, Capacities, Positions
  <1> QED
    BY LoggerInvariant, <1>1, PTL

(* Until the log is closed, what logger_post_print counted is in the file  *)
(* or in the buffer, once and in its order, between any two assignments of *)
(* a flush too, whatever write takes and however the buffer moves.         *)
THEOREM LogIsInOrder == Spec => []NothingIsLost
  <1>1. LoggerInv => NothingIsLost
    BY DEF LoggerInv
  <1> QED
    BY LoggerInvariant, <1>1, PTL

(* try_flush_buffer_to_file leaves the selector waiting for the file       *)
(* exactly when something is pending, unless a signal's own flush falls    *)
(* between the evaluation of the interest (logger.c:104) and its store.    *)
THEOREM PendingHasAWriter == Spec => []PendingIsAwaited
  <1>1. LoggerInv => PendingIsAwaited
    BY DEF LoggerInv, AwaitedInv, PendingIsAwaited
  <1> QED
    BY LoggerInvariant, <1>1, PTL

(* A line of the expected length is cut only without memory, or in the     *)
(* largest buffer: otherwise make_buffer_space found its room.             *)
THEOREM LinesFit == Spec => []CutNeedsFullBuffer
  <1>1. LoggerInv => CutNeedsFullBuffer
    <2> SUFFICES ASSUME LoggerInv, signals = 0, pc = "post", line.size \in 0 .. LENGTH - 1,
                        line.size >= line.room
                 PROVE  line.short \/ (buf.capacity = MAX /\ buf.length + LENGTH >= MAX)
      BY DEF CutNeedsFullBuffer
    <2>1. Calm /\ line.room = Room(buf)
      BY DEF LoggerInv, QuietInv, LineInv, Calm, Undefined
    <2>2. Room(buf) \in Int /\ LENGTH \in Nat
      BY CapacityAssumption DEF LoggerInv, TypesInv, Buffers, Room, End, Capacities
    <2>3. ~(Room(buf) >= LENGTH)
      BY <2>1, <2>2
    <2> QED
      BY <2>3 DEF LoggerInv, SpaceInv
  <1> QED
    BY LoggerInvariant, <1>1, PTL

(* When the selector closes a log whose buffer was not begun, what the     *)
(* file then holds are the first of the bytes that were counted.           *)
THEOREM ClosingKeepsTheOrder == Spec => ClosingGoesOn
  <1> DEFINE A == Calm /\ pc = "last" /\ Closing' /\ buf.start = 0
                    => \E n \in 0 .. Len(accepted) : file' = SubSeq(accepted, 1, n)
  <1>1. LoggerInv /\ [Next]_vars => [A]_vars
    <2> SUFFICES ASSUME LoggerInv, Next, Calm, pc = "last", Closing', buf.start = 0
                 PROVE  \E n \in 0 .. Len(accepted) : file' = SubSeq(accepted, 1, n)
      OBVIOUS
    <2>1. PICK k \in -1 .. MAX : CloseWrite(k)
      BY DEF Next, Step, Logf, PrePrint, GetBufstart, Snprintf, PostPrint, HandleWrite, Shorten, Restart,
             Want, Await, HandleClose, CloseShorten, CloseRestart, Close, Write, Signal, SignalWithin, Closing
    <2>2. k \in Writes(buf) /\ file' = file \o Bytes(buf, buf.start, k)
      BY <2>1 DEF CloseWrite
    <2>3. buf \in Buffers /\ Sound(buf) /\ file \in Seq(Nat) /\ accepted \in Seq(Nat)
      BY DEF LoggerInv, TypesInv, InsideInv
    <2>4. accepted = file \o Text(buf)
      BY <2>3, OutIsText DEF LoggerInv, NothingIsLost, Closing
    <2> DEFINE written == Bytes(buf, buf.start, k)
               rest    == Text(Flushed(buf, k))
    <2>5. written \in Seq(Nat) /\ rest \in Seq(Nat) /\ written \o rest = Text(buf)
      BY <2>2, <2>3, FlushedText
    <2> HIDE DEF written, rest
    <2>6. file' \in Seq(Nat) /\ accepted = file' \o rest
      <3>1. file \o (written \o rest) = (file \o written) \o rest
        BY <2>3, <2>5, Regroup, Zenon
      <3>2. file' = file \o written
        BY <2>2 DEF written
      <3>3. file \o written \in Seq(Nat)
        BY <2>3, <2>5, ConcatProperties
      <3> QED
        BY <2>4, <2>5, <3>1, <3>2, <3>3
    <2> DEFINE n == Len(file')
    <2>7. n \in 0 .. Len(accepted)
      BY <2>5, <2>6, ConcatProperties, LenProperties
    <2>8. file' = SubSeq(accepted, 1, n)
      BY <2>5, <2>6, <2>7, ConcatProperties, SubSeqProperties, SeqEqual
    <2> QED
      BY <2>7, <2>8
  <1> QED
    BY LoggerInvariant, <1>1, PTL DEF Spec, ClosingGoesOn

----------------------------------------------------------------------------
(* What a signal may damage. F is the file, A what was accepted, B what    *)
(* is pending, T how much of B the file has already, H the lines harmed.   *)
(* If no byte fell out, each byte is right or belongs to a harmed line.    *)
Right(x, A, j, H) == x = A[j] \/ A[j] \in H
Contained(F, A, B, T, H) ==
    /\ F \in Seq(Nat) /\ A \in Seq(Nat) /\ B \in Seq(Nat)
    /\ T \in Nat /\ T <= Len(F) /\ Len(F) - T + Len(B) <= Len(A)
    /\ Len(F) - T + Len(B) = Len(A) =>
         /\ \A j \in 1 .. Len(F) : j <= Len(A) => Right(F[j], A, j, H)
         /\ \A i \in 1 .. Len(B) : i > T => Right(B[i], A, Len(F) - T + i, H)

(* c is a and then b.                                                      *)
Parts(c, a, b) ==
    /\ a \in Seq(Nat) /\ b \in Seq(Nat) /\ c \in Seq(Nat) /\ Len(c) = Len(a) + Len(b)
    /\ \A i \in 1 .. Len(a) : c[i] = a[i]
    /\ \A i \in 1 .. Len(b) : c[Len(a) + i] = b[i]
Each(s, x) == \A i \in 1 .. Len(s) : s[i] = x

LEMMA PartsOfJoin ==
    ASSUME NEW a \in Seq(Nat), NEW b \in Seq(Nat)
    PROVE  Parts(a \o b, a, b)
  <1> DEFINE c == a \o b
  <1>1. /\ c \in Seq(Nat) /\ Len(c) = Len(a) + Len(b) /\ Len(a) \in Nat /\ Len(b) \in Nat
        /\ \A i \in 1 .. Len(a) + Len(b) : c[i] = IF i <= Len(a) THEN a[i] ELSE b[i - Len(a)]
    BY ConcatProperties, LenProperties
  <1> HIDE DEF c
  <1>2. ASSUME NEW i \in 1 .. Len(b) PROVE c[Len(a) + i] = b[i]
    <2>1. Len(a) + i \in 1 .. Len(a) + Len(b) /\ ~(Len(a) + i <= Len(a)) /\ (Len(a) + i) - Len(a) = i
      BY <1>1
    <2>2. c[Len(a) + i] = b[(Len(a) + i) - Len(a)]
      BY <1>1, <2>1
    <2> QED
      BY <2>1, <2>2
  <1>3. \A i \in 1 .. Len(a) : c[i] = a[i]
    BY <1>1
  <1> QED
    BY <1>1, <1>2, <1>3 DEF Parts, c

LEMMA Difference == \A m, n \in Nat : n <= m => \E i \in Nat : m = n + i
  <1> TAKE m, n \in Nat
  <1> HAVE n <= m
  <1>1. m - n \in Nat /\ m = n + (m - n)
    OBVIOUS
  <1> QED
    BY <1>1

LEMMA ContainedMore ==
    ASSUME NEW F, NEW A, NEW B, NEW T, NEW H, Contained(F, A, B, T, H), NEW G, H \subseteq G
    PROVE  Contained(F, A, B, T, G)
  BY DEF Contained, Right

(* n bytes are accepted, of a line x, and as many more are pending.        *)
LEMMA ContainedCounted ==
    ASSUME NEW F, NEW A, NEW B, NEW T, NEW H, Contained(F, A, B, T, H),
           NEW A2, NEW X, Parts(A2, A, X), NEW B2, NEW Y, Parts(B2, B, Y),
           Len(X) = Len(Y), NEW x, Each(X, x),
           x \in H \/ (T = 0 /\ Each(Y, x))
    PROVE  Contained(F, A2, B2, T, H)
  <1>1. PICK f \in Nat, a \in Nat, b \in Nat, n \in Nat :
          f = Len(F) /\ a = Len(A) /\ b = Len(B) /\ n = Len(X)
    BY LenProperties DEF Contained, Parts
  <1>2. F \in Seq(Nat) /\ T \in Nat /\ T <= f /\ f - T + b <= a
    BY <1>1 DEF Contained
  <1>3. /\ A2 \in Seq(Nat) /\ Len(A2) = a + n
        /\ B2 \in Seq(Nat) /\ Len(B2) = b + n /\ Len(Y) = n
    BY <1>1 DEF Parts
  <1>4. f - T + (b + n) <= a + n
    BY <1>2
  <1>5. ASSUME f - T + (b + n) = a + n
        PROVE  /\ \A j \in 1 .. f : j <= a + n => Right(F[j], A2, j, H)
               /\ \A i \in 1 .. b + n : i > T => Right(B2[i], A2, f - T + i, H)
    <2>1. f - T + b = a
      BY <1>2, <1>5
    <2>2. \A j \in 1 .. a : A2[j] = A[j]
      BY <1>1 DEF Parts
    <2>3. ASSUME NEW j \in Nat, j > a, j <= a + n PROVE A2[j] = x
      <3>1. PICK i \in Nat : j = a + i
        BY <2>3, Difference
      <3>2. i \in 1 .. n
        BY <2>3, <3>1
      <3>3. A2[a + i] = X[i] /\ X[i] = x
        BY <1>1, <3>2 DEF Parts, Each
      <3> QED
        BY <3>1, <3>3
    <2>4. ASSUME NEW j \in 1 .. f, j <= a + n PROVE Right(F[j], A2, j, H)
      <3>1. CASE j <= a
        <4>1. Right(F[j], A, j, H) /\ A2[j] = A[j]
          BY <1>1, <2>1, <2>2, <3>1 DEF Contained
        <4> QED
          BY <4>1 DEF Right
      <3>2. CASE ~(j <= a)
        <4>1. A2[j] = x
          BY <2>3, <2>4, <3>2
        <4>2. T # 0
          BY <1>2, <2>1, <3>2
        <4> QED
          BY <4>1, <4>2 DEF Right
      <3> QED
        BY <3>1, <3>2
    <2>5. ASSUME NEW i \in 1 .. b + n, i > T PROVE Right(B2[i], A2, f - T + i, H)
      <3>1. PICK d \in Nat : f = T + d
        BY <1>2, Difference
      <3>2. f - T + i = d + i /\ d + b = a /\ d + i \in Nat
        BY <1>2, <2>1, <3>1
      <3>3. CASE i <= b
        <4>1. i \in 1 .. b /\ d + i \in 1 .. a
          BY <3>2, <3>3
        <4>2. Right(B[i], A, f - T + i, H) /\ B2[i] = B[i]
          BY <1>1, <2>1, <2>5, <4>1 DEF Contained, Parts
        <4>3. A2[d + i] = A[d + i]
          BY <2>2, <4>1
        <4> QED
          BY <3>2, <4>2, <4>3 DEF Right
      <3>4. CASE ~(i <= b)
        <4>1. d + i > a /\ d + i <= a + n
          BY <3>2, <3>4
        <4>2. A2[d + i] = x
          BY <2>3, <3>2, <4>1
        <4>3. Each(Y, x) => B2[i] = x
          <5>1. PICK m \in Nat : i = b + m
            BY <3>4, Difference
          <5>2. m \in 1 .. n
            BY <3>4, <5>1
          <5>3. B2[b + m] = Y[m]
            BY <1>1, <1>3, <5>2 DEF Parts
          <5> QED
            BY <1>3, <5>1, <5>2, <5>3 DEF Each
        <4> QED
          BY <3>2, <4>2, <4>3 DEF Right
      <3> QED
        BY <3>3, <3>4
    <2> QED
      BY <2>4, <2>5
  <1> QED
    BY <1>1, <1>2, <1>3, <1>4, <1>5 DEF Contained

(* A byte fell out: there is nothing more to say.                          *)
LEMMA ContainedLess ==
    ASSUME NEW F, NEW A, NEW B, NEW T, NEW H, Contained(F, A, B, T, H),
           NEW F2, NEW W, Parts(F2, F, W), NEW R \in Seq(Nat), Len(W) + Len(R) < Len(B), NEW G
    PROVE  Contained(F2, A, R, T, G)
  <1>1. /\ A \in Seq(Nat) /\ T \in Nat /\ T <= Len(F) /\ Len(F) \in Nat
        /\ Len(A) \in Nat /\ Len(B) \in Nat /\ Len(W) \in Nat /\ Len(R) \in Nat
        /\ Len(F) - T + Len(B) <= Len(A)
        /\ F2 \in Seq(Nat) /\ Len(F2) = Len(F) + Len(W)
    BY LenProperties DEF Contained, Parts
  <1>2. Len(F2) - T + Len(R) < Len(A)
    BY <1>1
  <1> QED
    BY <1>1, <1>2 DEF Contained

(* The file takes W, the first of what is pending, and it is not settled.  *)
LEMMA ContainedWritten ==
    ASSUME NEW F, NEW A, NEW B, NEW H, Contained(F, A, B, 0, H),
           NEW W, NEW R, Parts(B, W, R), NEW F2, Parts(F2, F, W)
    PROVE  Contained(F2, A, B, Len(W), H)
  <1>1. PICK f \in Nat, a \in Nat, b \in Nat, w \in Nat, r \in Nat :
          f = Len(F) /\ a = Len(A) /\ b = Len(B) /\ w = Len(W) /\ r = Len(R)
    BY LenProperties DEF Contained, Parts
  <1>2. A \in Seq(Nat) /\ B \in Seq(Nat) /\ f - 0 + b <= a
    BY <1>1 DEF Contained
  <1>3. b = w + r /\ F2 \in Seq(Nat) /\ Len(F2) = f + w
    BY <1>1 DEF Parts
  <1>4. w <= f + w /\ (f + w) - w = f /\ f - 0 = f
    OBVIOUS
  <1>5. ASSUME f + b = a
        PROVE  /\ \A j \in 1 .. f + w : j <= a => Right(F2[j], A, j, H)
               /\ \A i \in 1 .. b : i > w => Right(B[i], A, f + i, H)
    <2>1. \A i \in 1 .. b : Right(B[i], A, f + i, H)
      <3>1. \A i \in 1 .. b : i > 0
        OBVIOUS
      <3>2. f - 0 + b = a
        BY <1>5
      <3> QED
        BY <1>1, <1>4, <3>1, <3>2 DEF Contained
    <2>2. ASSUME NEW j \in 1 .. f + w, j <= a PROVE Right(F2[j], A, j, H)
      <3>1. CASE j <= f
        <4>1. j \in 1 .. f
          BY <3>1
        <4>2. F2[j] = F[j]
          BY <1>1, <4>1 DEF Parts
        <4>3. f - 0 + b = a
          BY <1>5
        <4>4. Right(F[j], A, j, H)
          BY <1>1, <2>2, <4>1, <4>3 DEF Contained
        <4> QED
          BY <4>2, <4>4
      <3>2. CASE ~(j <= f)
        <4>1. PICK i \in Nat : j = f + i
          BY <3>2, Difference
        <4>2. i \in 1 .. w /\ i \in 1 .. b
          BY <1>3, <3>2, <4>1
        <4>3. F2[f + i] = W[i] /\ B[i] = W[i]
          BY <1>1, <4>2 DEF Parts
        <4>4. Right(B[i], A, f + i, H)
          BY <2>1, <4>2
        <4> QED
          BY <4>1, <4>3, <4>4
      <3> QED
        BY <3>1, <3>2
    <2> QED
      BY <2>1, <2>2
  <1>6. f + b <= a
    BY <1>2
  <1> QED
    BY <1>1, <1>2, <1>3, <1>4, <1>5, <1>6 DEF Contained

(* It is settled.                                                          *)
LEMMA ContainedSettled ==
    ASSUME NEW F, NEW A, NEW B, NEW H, NEW W, NEW R, Parts(B, W, R), Contained(F, A, B, Len(W), H)
    PROVE  Contained(F, A, R, 0, H)
  <1>1. PICK f \in Nat, a \in Nat, b \in Nat, w \in Nat, r \in Nat :
          f = Len(F) /\ a = Len(A) /\ b = Len(B) /\ w = Len(W) /\ r = Len(R)
    BY LenProperties DEF Contained, Parts
  <1>2. F \in Seq(Nat) /\ A \in Seq(Nat) /\ w <= f /\ f - w + b <= a
    BY <1>1 DEF Contained
  <1>3. R \in Seq(Nat) /\ b = w + r
    BY <1>1 DEF Parts
  <1>4. f - 0 + r = f - w + b /\ f - 0 = f
    BY <1>3
  <1>5. ASSUME f - w + b = a
        PROVE  /\ \A j \in 1 .. f : j <= a => Right(F[j], A, j, H)
               /\ \A i \in 1 .. r : i > 0 => Right(R[i], A, f + i, H)
    <2>1. ASSUME NEW i \in 1 .. r PROVE Right(R[i], A, f + i, H)
      <3>1. w + i \in 1 .. b /\ w + i > w /\ f - w + (w + i) = f + i
        BY <1>3
      <3>2. Right(B[w + i], A, f - w + (w + i), H)
        BY <1>1, <1>5, <3>1 DEF Contained
      <3>3. B[w + i] = R[i]
        BY <1>1 DEF Parts
      <3> QED
        BY ONLY <3>1, <3>2, <3>3, Zenon
    <2>2. \A j \in 1 .. f : j <= a => Right(F[j], A, j, H)
      BY <1>1, <1>5 DEF Contained
    <2> QED
      BY <2>1, <2>2
  <1>6. /\ 0 \in Nat /\ 0 <= f /\ f - 0 + r <= a
        /\ f - 0 + r = a => f - w + b = a
    BY <1>2, <1>4
  <1> QED
    BY <1>1, <1>2, <1>3, <1>4, <1>5, <1>6 DEF Contained

(* A signal's flush in the middle of another: what the file takes and what *)
(* is left pending may be any bytes, but those they stand for are harmed.  *)
AllHarmed(A, B, H) == \A j \in 1 .. Len(A) : j > Len(A) - Len(B) => A[j] \in H

LEMMA ContainedWhatever ==
    ASSUME NEW F, NEW A, NEW B, NEW T, NEW H, Contained(F, A, B, T, H), AllHarmed(A, B, H),
           NEW F2, NEW W, Parts(F2, F, W), NEW R \in Seq(Nat), Len(W) + Len(R) = Len(B)
    PROVE  Contained(F2, A, R, T, H)
  <1>1. PICK f \in Nat, a \in Nat, b \in Nat, w \in Nat, r \in Nat :
          f = Len(F) /\ a = Len(A) /\ b = Len(B) /\ w = Len(W) /\ r = Len(R)
    BY LenProperties DEF Contained, Parts
  <1>2. A \in Seq(Nat) /\ T \in Nat /\ T <= f /\ f - T + b <= a
    BY <1>1 DEF Contained
  <1>3. b = w + r /\ F2 \in Seq(Nat) /\ Len(F2) = f + w
    BY <1>1 DEF Parts
  <1>4. PICK d \in Nat : f = T + d
    BY <1>2, Difference
  <1>5. T <= f + w /\ (f + w) - T = d + w /\ f - T = d /\ d + b <= a /\ (d + w) + r = d + b
    BY <1>2, <1>3, <1>4
  <1>6. ASSUME d + b = a
        PROVE  /\ \A j \in 1 .. f + w : j <= a => Right(F2[j], A, j, H)
               /\ \A i \in 1 .. r : i > T => Right(R[i], A, d + w + i, H)
    <2>1. \A j \in 1 .. a : j > d => A[j] \in H
      <3>1. a - b = d
        BY <1>6
      <3> QED
        BY <1>1, <3>1 DEF AllHarmed
    <2>2. ASSUME NEW j \in 1 .. f + w, j <= a PROVE Right(F2[j], A, j, H)
      <3>1. CASE j <= f
        <4>1. j \in 1 .. f
          BY <3>1
        <4>2. F2[j] = F[j]
          BY <1>1, <4>1 DEF Parts
        <4>3. Right(F[j], A, j, H)
          BY <1>1, <1>5, <1>6, <2>2, <4>1 DEF Contained
        <4> QED
          BY <4>2, <4>3
      <3>2. CASE ~(j <= f)
        <4>1. j \in 1 .. a /\ j > d
          BY <1>2, <1>4, <2>2, <3>2
        <4> QED
          BY <2>1, <4>1 DEF Right
      <3> QED
        BY <3>1, <3>2
    <2>3. ASSUME NEW i \in 1 .. r PROVE Right(R[i], A, d + w + i, H)
      <3>1. d + w + i \in 1 .. a /\ d + w + i > d
        BY <1>3, <1>6
      <3> QED
        BY <2>1, <3>1 DEF Right
    <2> QED
      BY <2>2, <2>3
  <1> QED
    BY <1>1, <1>2, <1>3, <1>5, <1>6 DEF Contained

(* What was pending when snprintf was given its place lies before it, or   *)
(* is harmed.                                                              *)
Before(F, A, B, H, start, at) ==
    Len(F) + Len(B) = Len(A) =>
        \A i \in 1 .. Len(B) : start + i - 1 < at \/ A[Len(F) + i] \in H

LEMMA BeforeSignal ==
    ASSUME NEW F \in Seq(Nat), NEW A, NEW B, NEW H, NEW start \in Nat, NEW at \in Int,
           Before(F, A, B, H, start, at), NEW A2, NEW X, Parts(A2, A, X), NEW B2, NEW Y, Parts(B2, B, Y),
           Len(X) = Len(Y), NEW x, Each(X, x), NEW G, x \in G, H \subseteq G,
           NEW W, NEW R, Parts(B2, W, R), NEW F2, Parts(F2, F, W),
           NEW s2 \in Nat, s2 <= start + Len(W)
    PROVE  Before(F2, A2, R, G, s2, at)
  <1>1. PICK f \in Nat, a \in Nat, b \in Nat, n \in Nat, w \in Nat, r \in Nat :
          /\ f = Len(F) /\ a = Len(A) /\ b = Len(B) /\ n = Len(X) /\ w = Len(W) /\ r = Len(R)
    BY LenProperties DEF Parts
  <1>2. Len(A2) = a + n /\ Len(B2) = b + n /\ b + n = w + r /\ Len(F2) = f + w
    BY <1>1 DEF Parts
  <1> SUFFICES ASSUME (f + w) + r = a + n, NEW i \in 1 .. r
               PROVE  s2 + i - 1 < at \/ A2[f + w + i] \in G
    BY <1>1, <1>2 DEF Before
  <1>3. f + b = a /\ f + w + i = f + (w + i) /\ w + i \in 1 .. b + n
    BY <1>2
  <1>4. CASE w + i <= b
    <2>1. w + i \in 1 .. b /\ f + (w + i) \in 1 .. a
      BY <1>3, <1>4
    <2>2. start + (w + i) - 1 < at \/ A[f + (w + i)] \in H
      BY <1>1, <1>3, <2>1 DEF Before
    <2>3. A2[f + (w + i)] = A[f + (w + i)]
      BY <1>1, <2>1 DEF Parts
    <2>4. s2 <= start + w
      BY <1>1
    <2>5. start + (w + i) - 1 < at => s2 + i - 1 < at
      BY <2>4
    <2> QED
      BY <1>3, <2>2, <2>3, <2>5
  <1>5. CASE ~(w + i <= b)
    <2>1. PICK p \in Nat : w + i = b + p
      BY <1>5, Difference
    <2>2. p \in 1 .. n /\ f + w + i = a + p
      BY <1>3, <1>5, <2>1
    <2>3. A2[a + p] = X[p] /\ X[p] = x
      BY <1>1, <2>2 DEF Parts, Each
    <2> QED
      BY <2>2, <2>3
  <1> QED
    BY <1>4, <1>5

----------------------------------------------------------------------------
(* The invariant behind DamageIsContained: a line that no signal fell into *)
(* is what logf says of it, what is pending is before its place, and the   *)
(* file and the buffer hold what they should, harmed lines apart. Between  *)
(* the two assignments of a flush what is pending begins further on, or,   *)
(* since a signal, anywhere, and all that it stands for is harmed.         *)
Alive == ~Closing /\ ~Undefined

Anything == \A B \in Seq(Nat) : Len(B) = buf.length => Contained(file, accepted, B, 0, harmed)

Midway ==
    \/ /\ End(buf) + took <= buf.capacity
       /\ Contained(file, accepted, Bytes(buf, buf.start + took, buf.length), 0, harmed)
    \/ Anything

DamageInv ==
    Alive =>
      /\ pc = "start" => Midway
      /\ pc # "start" => Contained(file, accepted, Text(buf), Unsettled, harmed)
      /\ pc = "print" => Before(file, accepted, Text(buf), harmed, buf.start, line.at)
      /\ pc \in {"print", "post"} /\ line.id \notin harmed => line.at = End(buf) /\ line.room = Room(buf)
      /\ pc = "post" /\ line.size >= 0 /\ line.id \notin harmed
           => \A j \in 0 .. Counted(line.size, line.room) - 1 : buf.mem[line.at + j] = line.id

LEMMA TextType ==
    ASSUME NEW b \in Buffers, Sound(b)
    PROVE  /\ Text(b) \in Seq(Nat) /\ Len(Text(b)) = b.length
           /\ \A i \in 1 .. b.length : Text(b)[i] = b.mem[b.start + i - 1]
  <1>1. b.start \in Nat /\ b.length \in Nat /\ b.start + b.length <= b.capacity
    BY DEF Sound, Buffers, End
  <1> QED
    BY <1>1, BytesType DEF Text

LEMMA AliveIsSound ==
    ASSUME LoggerInv, Alive
    PROVE  /\ buf \in Buffers /\ Sound(buf) /\ line \in Locals /\ took \in Int
           /\ lines \in Nat /\ signals \in Nat
  BY DEF LoggerInv, TypesInv, InsideInv, Alive, Undefined, Closing

LEMMA PrintedThere ==
    ASSUME NEW b \in Buffers, NEW n \in Nat, NEW id \in Nat
    PROVE  LET p == Printed(b, End(b), Room(b), n, id) IN
           p \in Buffers /\ p.start = b.start /\ p.length = b.length /\ p.capacity = b.capacity
  <1>1. PICK at \in Int, room \in Int : at = End(b) /\ room = Room(b)
    BY CapacityAssumption DEF Buffers, End, Room, Capacities
  <1> DEFINE p == Printed(b, at, room, n, id)
  <1>2. p \in Buffers /\ p.start = b.start /\ p.length = b.length /\ p.capacity = b.capacity
    BY PrintedKeeps
  <1> QED
    BY <1>1, <1>2

(* What a signal's whole line leaves pending, in a buffer that may be full.*)
LEMMA WholeLineText ==
    ASSUME NEW b \in Buffers, Sound(b), NEW given \in BOOLEAN, NEW id \in Nat
    PROVE  /\ WithLine(b, given, id) \in Buffers /\ CountedThere(b, given) \in Int
           /\ WithLine(b, given, id).start <= b.start
           /\ WithLine(b, given, id).length = b.length + CountedThere(b, given)
           /\ CountedThere(b, given) >= 0 =>
                Text(WithLine(b, given, id)) = Text(b) \o Times(CountedThere(b, given), id)
  <1> DEFINE space   == MakeSpace(b, given)
             n       == Counted(SignalSize, Room(space))
             printed == Printed(space, End(space), Room(space), SignalSize, id)
             longer  == Longer(printed, n)
  <1>0. WithLine(b, given, id) = longer /\ CountedThere(b, given) = n
    BY DEF WithLine, CountedThere
  <1>1. Sound(space) /\ Text(space) = Text(b) /\ space.length = b.length
    BY MakeSpaceKeeps
  <1>2. space \in Buffers /\ b.start \in Nat
    BY <1>1 DEF Sound, Buffers
  <1>3. space.start <= b.start
    <2>1. Moved(b).start = 0 /\ (MayGrow(b) => Grown(b).start = 0)
      BY MovedKeeps, GrownKeeps
    <2>2. space = b \/ space = Moved(b) \/ (MayGrow(b) /\ space = Grown(b))
      BY DEF MakeSpace
    <2> HIDE DEF space
    <2> QED
      BY <1>2, <2>1, <2>2
  <1> HIDE DEF space
  <1>4. End(space) \in Int /\ Room(space) \in Int /\ SignalSize \in Nat
        /\ (Room(space) > 0 => Roomy(space))
    BY <1>1, <1>2, CapacityAssumption, SizesAssumption DEF Buffers, End, Room, Capacities, Roomy
  <1>5. n \in Int
    BY <1>4, CountedFits
  <1>6. /\ printed \in Buffers /\ printed.start = space.start /\ printed.length = space.length
        /\ printed.capacity = space.capacity
    BY <1>2, SizesAssumption, PrintedThere
  <1>7. ASSUME n >= 0 PROVE Text(longer) = Text(b) \o Times(n, id)
    <2>1. Roomy(space)
      BY <1>4, <1>7 DEF Counted
    <2>2. /\ Roomy(printed) /\ Text(printed) = Text(space)
          /\ \A j \in 0 .. n - 1 : printed.mem[End(space) + j] = id
      BY <1>2, <1>4, <2>1, PrintedAtEnd
    <2>3. End(printed) = End(space) /\ Room(printed) = Room(space)
      BY <1>6 DEF End, Room
    <2>4. n \in 0 .. Room(printed) - 1
      <3>1. Room(space) > 0
        BY <1>2, <2>1, CapacityAssumption DEF Roomy, Sound, Buffers, End, Room, Capacities
      <3> QED
        BY <1>4, <2>3, <3>1, CountedFits
    <2> HIDE DEF printed, n
    <2>5. Text(Longer(printed, n)) = Text(printed) \o Times(n, id)
      BY <1>6, <2>2, <2>3, <2>4, LongerText
    <2> QED
      BY <1>1, <2>2, <2>5
  <1> HIDE DEF printed, n
  <1>8. longer \in Buffers /\ longer.start = space.start /\ longer.length = space.length + n
    BY <1>5, <1>6, LongerKeeps
  <1> HIDE DEF longer
  <1> QED
    BY <1>0, <1>1, <1>3, <1>5, <1>7, <1>8, Zenon

LEMMA NothingTaken ==
    ASSUME NEW n \in Int, NEW id, n <= 0 PROVE Times(n, id) = <<>>
  <1>1. 1 .. n = {}
    OBVIOUS
  <1> QED
    BY <1>1 DEF Times

LEMMA TimesEach ==
    ASSUME NEW n \in Nat, NEW id \in Nat
    PROVE  Times(n, id) \in Seq(Nat) /\ Len(Times(n, id)) = n /\ Each(Times(n, id), id)
  BY DEF Times, Each

(* What a write takes of a sound buffer, and what it leaves.               *)
LEMMA WrittenParts ==
    ASSUME NEW b \in Buffers, Sound(b), NEW k \in Writes(b)
    PROVE  /\ Parts(Text(b), Bytes(b, b.start, k), Text(Flushed(b, k)))
           /\ Len(Bytes(b, b.start, k)) = IF k > 0 THEN k ELSE 0
  <1>1. /\ Bytes(b, b.start, k) \in Seq(Nat) /\ Text(Flushed(b, k)) \in Seq(Nat)
        /\ Bytes(b, b.start, k) \o Text(Flushed(b, k)) = Text(b)
        /\ k <= 0 => Bytes(b, b.start, k) = <<>>
    BY FlushedText
  <1>2. Parts(Bytes(b, b.start, k) \o Text(Flushed(b, k)), Bytes(b, b.start, k), Text(Flushed(b, k)))
    BY <1>1, PartsOfJoin
  <1>3. Parts(Text(b), Bytes(b, b.start, k), Text(Flushed(b, k)))
    BY ONLY <1>1, <1>2, Zenon
  <1>4. CASE k > 0
    <2>1. b.start \in Nat /\ k \in Nat /\ b.start + k <= b.capacity
      BY <1>4, WritesAre, CapacityAssumption DEF Sound, Buffers, End, Capacities
    <2>2. Len(Bytes(b, b.start, k)) = k
      BY <2>1, BytesType
    <2> QED
      BY <1>3, <1>4, <2>2
  <1>5. CASE ~(k > 0)
    <2>1. k <= 0
      BY <1>5, WritesAre
    <2>2. Len(Bytes(b, b.start, k)) = 0
      BY <1>1, <2>1
    <2> QED
      BY <1>3, <1>5, <2>2
  <1> QED
    BY <1>4, <1>5

LEMMA SettledNow ==
    /\ pc # "settle" => Unsettled = 0
    /\ pc' # "settle" => Unsettled' = 0
  BY DEF Unsettled

LEMMA PartsNothing == \A s \in Seq(Nat) : Parts(s, s, <<>>)
  <1> TAKE s \in Seq(Nat)
  <1>1. Len(<<>>) = 0 /\ <<>> \in Seq(Nat) /\ Len(s) \in Nat
    OBVIOUS
  <1> QED
    BY <1>1 DEF Parts

(* The memory of harmed lines may be written over.                         *)
LEMMA ContainedOver ==
    ASSUME NEW F, NEW A, NEW B, NEW H, Contained(F, A, B, 0, H),
           NEW C \in Seq(Nat), Len(C) = Len(B),
           Len(F) + Len(B) = Len(A) => \A i \in 1 .. Len(B) : C[i] = B[i] \/ A[Len(F) + i] \in H
    PROVE  Contained(F, A, C, 0, H)
  <1>1. PICK f \in Nat, a \in Nat, b \in Nat : f = Len(F) /\ a = Len(A) /\ b = Len(B)
    BY LenProperties DEF Contained
  <1>2. f - 0 = f /\ f - 0 + b = f + b
    BY <1>1
  <1>3. ASSUME f + b = a, NEW i \in 1 .. b PROVE Right(C[i], A, f + i, H)
    <2>1. i > 0 /\ f - 0 + b = a
      BY <1>2, <1>3
    <2>2. Right(B[i], A, f + i, H)
      BY <1>1, <1>2, <2>1 DEF Contained
    <2> QED
      BY <1>1, <1>3, <2>2 DEF Right
  <1> QED
    BY <1>1, <1>2, <1>3 DEF Contained

----------------------------------------------------------------------------
(* The steps.                                                              *)

LEMMA InitDamage == Init => DamageInv
  <1> SUFFICES ASSUME Init PROVE DamageInv
    OBVIOUS
  <1>1. file = <<>> /\ accepted = <<>> /\ pc = "idle"
    BY DEF Init
  <1>2. Text(buf) = <<>>
    <2>1. buf.length = 0 /\ 1 .. 0 = {}
      BY DEF Init
    <2> QED
      BY <2>1 DEF Text, Bytes
  <1>3. Contained(<<>>, <<>>, <<>>, 0, harmed)
    <2>1. <<>> \in Seq(Nat) /\ Len(<<>>) = 0
      OBVIOUS
    <2> QED
      BY <2>1 DEF Contained
  <1> QED
    BY <1>1, <1>2, <1>3, SettledNow DEF DamageInv

(* The steps that leave the buffer, the file and the lines as they are.    *)
LEMMA SameDamage ==
    ASSUME DamageInv, UNCHANGED <<buf, file, accepted, harmed>>,
           pc \in {"idle", "want", "await"}, pc' \in {"space", "write", "await", "idle", "last"}
    PROVE  DamageInv'
  <1>1. Contained(file, accepted, Text(buf), 0, harmed)
    BY SettledNow DEF DamageInv, Alive, Undefined, Closing
  <1>2. Contained(file, accepted, Text(buf), Unsettled, harmed)'
    BY <1>1, SettledNow
  <1> QED
    BY <1>2 DEF DamageInv

LEMMA PrePrintDamage ==
    ASSUME LoggerInv, DamageInv, NEW given \in BOOLEAN, PrePrint(given) PROVE DamageInv'
  <1>1. /\ pc = "space" /\ pc' = "get" /\ buf' = MakeSpace(buf, given)
        /\ UNCHANGED <<file, accepted, harmed>>
    BY DEF PrePrint, logVars, sigVars
  <1>2. Contained(file, accepted, Text(buf), 0, harmed)
    BY <1>1, SettledNow DEF DamageInv, Alive, Undefined, Closing
  <1>3. buf \in Buffers /\ Sound(buf)
    BY <1>1, AliveIsSound DEF Alive, Undefined, Closing
  <1>4. Text(buf') = Text(buf)
    BY <1>1, <1>3, MakeSpaceKeeps
  <1>5. Contained(file, accepted, Text(buf), Unsettled, harmed)'
    BY <1>1, <1>2, <1>4, SettledNow
  <1> QED
    BY <1>1, <1>5 DEF DamageInv

LEMMA GetBufstartDamage == ASSUME LoggerInv, DamageInv, GetBufstart PROVE DamageInv'
  <1>1. /\ pc = "get" /\ pc' = "print" /\ UNCHANGED <<buf, file, accepted, harmed>>
        /\ line' = [line EXCEPT !.at = End(buf), !.room = Room(buf), !.copy = buf.copy]
    BY DEF GetBufstart, logVars, sigVars
  <1>2. Contained(file, accepted, Text(buf), 0, harmed)
    BY <1>1, SettledNow DEF DamageInv, Alive, Undefined, Closing
  <1>3. buf \in Buffers /\ Sound(buf) /\ line \in Locals
    BY <1>1, AliveIsSound DEF Alive, Undefined, Closing
  <1>4. line'.at = End(buf) /\ line'.room = Room(buf)
    BY <1>1, <1>3 DEF Locals
  <1>5. Before(file, accepted, Text(buf), harmed, buf.start, End(buf))
    <2>1. Len(Text(buf)) = buf.length /\ buf.start \in Nat /\ buf.length \in Nat
          /\ End(buf) = buf.start + buf.length
      BY <1>3, TextType DEF Sound, Buffers, End
    <2>2. \A i \in 1 .. buf.length : buf.start + i - 1 < End(buf)
      BY <2>1
    <2> QED
      BY <2>1, <2>2 DEF Before
  <1>6. Contained(file, accepted, Text(buf), Unsettled, harmed)'
    BY <1>1, <1>2, SettledNow
  <1>7. Before(file, accepted, Text(buf), harmed, buf.start, line.at)'
    BY <1>1, <1>4, <1>5
  <1>8. line'.at = End(buf') /\ line'.room = Room(buf')
    BY <1>1, <1>4
  <1> QED
    BY <1>1, <1>6, <1>7, <1>8 DEF DamageInv

LEMMA SnprintfDamage == ASSUME LoggerInv, DamageInv, Snprintf PROVE DamageInv'
  <1>1. pc = "print" /\ UNCHANGED <<line, took, file, accepted, harmed>> /\ pc' \in {"post", "undefined"}
    BY DEF Snprintf, logVars, sigVars
  <1>2. /\ Contained(file, accepted, Text(buf), 0, harmed)
        /\ Before(file, accepted, Text(buf), harmed, buf.start, line.at)
        /\ line.id \notin harmed => line.at = End(buf) /\ line.room = Room(buf)
    BY <1>1, SettledNow DEF DamageInv, Alive, Undefined, Closing
  <1>3. /\ buf \in Buffers /\ Sound(buf) /\ line.size \in Nat \cup {-1} /\ line.at \in Int
        /\ line.room \in Int /\ line.id \in Nat
    BY <1>1, AliveIsSound DEF Alive, Undefined, Closing, Locals
  <1>4. CASE pc' = "undefined"
    BY <1>4 DEF DamageInv, Alive, Undefined, Closing
  <1>5. CASE pc' = "post" /\ line.size < 0
    <2>1. buf' = buf
      BY <1>5 DEF Snprintf
    <2>2. Contained(file, accepted, Text(buf), Unsettled, harmed)'
      BY <1>1, <1>2, <1>5, <2>1, SettledNow
    <2>3. End(buf') = End(buf) /\ Room(buf') = Room(buf) /\ ~(line'.size >= 0)
      BY <1>1, <1>3, <1>5, <2>1
    <2>4. line'.id \notin harmed' => line'.at = End(buf') /\ line'.room = Room(buf')
      BY <1>1, <1>2, <2>3
    <2>5. pc' = "post"
      BY <1>5
    <2> QED
      BY <2>2, <2>3, <2>4, <2>5 DEF DamageInv
  <1>6. CASE pc' = "post" /\ ~(line.size < 0)
    <2> DEFINE c == Printed(buf, line.at, line.room, line.size, line.id)
    <2>1. buf' = c /\ line.size \in Nat
      BY <1>3, <1>6 DEF Snprintf
    <2>2. c \in Buffers /\ c.start = buf.start /\ c.length = buf.length /\ c.capacity = buf.capacity
      <3>1. \A at, room \in Int : \A n, id \in Nat :
               LET p == Printed(buf, at, room, n, id) IN
               p \in Buffers /\ p.start = buf.start /\ p.length = buf.length
               /\ p.capacity = buf.capacity
        <4>1. buf \in Buffers
          BY <1>3
        <4> QED
          BY <4>1, PrintedKeeps
      <3> QED
        BY <1>3, <2>1, <3>1
    <2>3. /\ buf.start \in Nat /\ buf.length \in Nat /\ buf.capacity \in Nat
          /\ buf.start + buf.length <= buf.capacity /\ buf.capacity <= MAX /\ MAX \in Nat
      BY <1>3, CapacityAssumption DEF Sound, Buffers, End, Capacities
    <2>4. ASSUME NEW j \in Cells, j < line.at PROVE c.mem[j] = buf.mem[j]
      <3>1. j \in Int /\ ~(line.at <= j)
        BY <1>3, <2>4 DEF Cells
      <3>2. ~(line.room > 0 /\ j = line.at + Counted(line.size, line.room))
        BY <1>3, <2>1, <2>4, <3>1, CountedFits
      <3> QED
        BY <1>3, <3>1, <3>2, PrintedMemory
    <2> HIDE DEF c
    <2>5. Sound(c)
      BY <1>3, <2>2, <2>3 DEF Sound, End
    <2>6. Text(c) \in Seq(Nat) /\ Len(Text(c)) = Len(Text(buf)) /\ Len(Text(buf)) = buf.length
      BY <1>3, <2>2, <2>5, TextType
    <2>7. ASSUME Len(file) + Len(Text(buf)) = Len(accepted), NEW i \in 1 .. Len(Text(buf))
          PROVE  Text(c)[i] = Text(buf)[i] \/ accepted[Len(file) + i] \in harmed
      <3>1. Text(c)[i] = c.mem[buf.start + i - 1] /\ Text(buf)[i] = buf.mem[buf.start + i - 1]
        BY <1>3, <2>2, <2>5, <2>6, TextType
      <3>2. buf.start + i - 1 < line.at \/ accepted[Len(file) + i] \in harmed
        BY <1>2, <2>7 DEF Before
      <3>3. buf.start + i - 1 \in Cells
        BY <2>3, <2>6 DEF Cells
      <3> QED
        BY <2>4, <3>1, <3>2, <3>3
    <2>8. Contained(file, accepted, Text(c), 0, harmed)
      BY <1>2, <2>6, <2>7, ContainedOver
    <2>9. Contained(file, accepted, Text(buf), Unsettled, harmed)'
      BY <1>1, <1>6, <2>1, <2>8, SettledNow
    <2>10. End(c) = End(buf) /\ Room(c) = Room(buf)
      BY <2>2 DEF End, Room
    <2>11. ASSUME line.id \notin harmed
           PROVE  \A j \in 0 .. Counted(line.size, line.room) - 1 : c.mem[line.at + j] = line.id
      <3>1. line.at = End(buf) /\ line.room = Room(buf)
        BY <1>2, <2>11
      <3>2. CASE Roomy(buf)
        <4>1. c = Printed(buf, End(buf), Room(buf), line.size, line.id)
          BY <3>1 DEF c
        <4>2. \A j \in 0 .. Counted(line.size, Room(buf)) - 1 : c.mem[End(buf) + j] = line.id
          BY <1>3, <2>1, <3>2, <4>1, PrintedAtEnd
        <4> QED
          BY <3>1, <4>2
      <3>3. CASE ~Roomy(buf)
        <4>1. line.room = 0
          BY <1>3, <2>3, <3>1, <3>3 DEF Roomy, Room, End
        <4>2. Counted(line.size, line.room) = -1
          BY <2>1, <4>1 DEF Counted
        <4>3. 0 .. -1 - 1 = {}
          OBVIOUS
        <4> QED
          BY <4>2, <4>3
      <3> QED
        BY <3>2, <3>3
    <2> QED
      BY <1>1, <1>2, <1>6, <2>1, <2>9, <2>10, <2>11 DEF DamageInv
  <1> QED
    BY <1>1, <1>3, <1>4, <1>5, <1>6

LEMMA PostPrintDamage == ASSUME LoggerInv, DamageInv, PostPrint PROVE DamageInv'
  <1>1. pc = "post" /\ UNCHANGED <<line, took, file, harmed>>
    BY DEF PostPrint, sigVars
  <1>2. /\ Contained(file, accepted, Text(buf), 0, harmed)
        /\ line.id \notin harmed => line.at = End(buf)
        /\ line.size >= 0 /\ line.id \notin harmed =>
             \A j \in 0 .. Counted(line.size, line.room) - 1 : buf.mem[line.at + j] = line.id
    BY <1>1, SettledNow DEF DamageInv, Alive, Undefined, Closing
  <1>3. /\ buf \in Buffers /\ Sound(buf) /\ line.size \in Nat \cup {-1} /\ line.room \in Int
        /\ line.id \in Nat
    BY <1>1, AliveIsSound DEF Alive, Undefined, Closing, Locals
  <1>4. CASE line.size < 0
    <2>1. pc' = "idle" /\ buf' = buf /\ accepted' = accepted
      BY <1>4 DEF PostPrint
    <2>2. Contained(file, accepted, Text(buf), Unsettled, harmed)'
      BY <1>1, <1>2, <2>1, SettledNow
    <2> QED
      BY <2>1, <2>2 DEF DamageInv
  <1>5. CASE ~(line.size < 0)
    <2> DEFINE n == Counted(line.size, line.room)
               c == Longer(buf, n)
    <2>1. /\ buf' = c /\ accepted' = accepted \o Times(n, line.id)
          /\ pc' = IF Astray(c) THEN "undefined" ELSE "write"
      BY <1>5 DEF PostPrint
    <2>2. n \in Int /\ line.size >= 0
      BY <1>3, <1>5, CountedFits
    <2>3. /\ c \in Buffers /\ c.start = buf.start /\ c.length = buf.length + n
          /\ c.capacity = buf.capacity /\ c.mem = buf.mem
      BY <1>3, <2>2, LongerKeeps
    <2>4. CASE Astray(c)
      BY <2>1, <2>4 DEF DamageInv, Alive, Undefined, Closing
    <2>5. CASE ~Astray(c)
      <3>1. Sound(c) /\ pc' = "write"
        BY <2>1, <2>3, <2>5, SoundIsNotAstray
      <3> HIDE DEF n, c
      <3>2. /\ Text(c) \in Seq(Nat) /\ Len(Text(c)) = buf.length + n
            /\ Text(buf) \in Seq(Nat) /\ Len(Text(buf)) = buf.length
        BY <1>3, <2>3, <3>1, TextType
      <3>3. Contained(file, accepted', Text(c), 0, harmed)
        <4>1. CASE n < 0
          <5>1. accepted' = accepted
            <6>1. accepted \in Seq(Nat) /\ Times(n, line.id) = <<>>
              BY <1>2, <1>3, <2>2, <4>1, NothingTaken DEF Contained
            <6> QED
              BY <2>1, <6>1, ConcatEmptySeq
          <5>2. Parts(file, file, <<>>) /\ Len(<<>>) = 0
            BY <1>2, PartsNothing DEF Contained
          <5>3. Len(<<>>) + Len(Text(c)) < Len(Text(buf))
            BY <1>3, <2>2, <3>2, <4>1, <5>2 DEF Sound
          <5>4. Contained(file, accepted, Text(c), 0, harmed)
            BY <1>2, <3>2, <5>2, <5>3, ContainedLess
          <5> QED
            BY <5>1, <5>4
        <4>2. CASE ~(n < 0)
          <5> DEFINE X == Times(n, line.id)
                     Y == Bytes(c, End(buf), n)
          <5>1. n \in Nat /\ buf.start \in Nat /\ buf.length \in Nat /\ End(buf) = buf.start + buf.length
                /\ buf.start + buf.length + n <= c.capacity
            BY <1>3, <2>2, <2>3, <3>1, <4>2, CapacityAssumption
               DEF Sound, Buffers, End, Capacities
          <5>2. X \in Seq(Nat) /\ Len(X) = n /\ Each(X, line.id)
            BY <1>3, <5>1, TimesEach
          <5>3. Y \in Seq(Nat) /\ Len(Y) = n /\ \A j \in 1 .. n : Y[j] = c.mem[End(buf) + j - 1]
            <6>1. c \in Buffers /\ End(buf) \in Nat /\ n \in Nat /\ End(buf) + n <= c.capacity
              BY <2>3, <5>1
            <6> QED
              BY <6>1, BytesType
          <5>4. Text(buf) \o Y = Text(c)
            <6>1. Bytes(c, buf.start, buf.length) \o Bytes(c, buf.start + buf.length, n)
                    = Bytes(c, buf.start, buf.length + n)
              BY <2>3, <5>1, BytesSplit
            <6>2. Bytes(c, buf.start, buf.length) = Text(buf)
              BY <2>3 DEF Text, Bytes
            <6> QED
              BY <2>3, <5>1, <6>1, <6>2 DEF Text
          <5> HIDE DEF X, Y
          <5>5. Parts(Text(c), Text(buf), Y)
            <6>1. Parts(Text(buf) \o Y, Text(buf), Y)
              BY <3>2, <5>3, PartsOfJoin
            <6> QED
              BY ONLY <5>4, <6>1, Zenon
          <5>6. Parts(accepted', accepted, X)
            <6>1. Parts(accepted \o X, accepted, X)
              BY <1>2, <5>2, PartsOfJoin DEF Contained
            <6>2. accepted' = accepted \o X
              BY <2>1 DEF X
            <6> QED
              BY ONLY <6>1, <6>2, Zenon
          <5>7. line.id \in harmed \/ (0 = 0 /\ Each(Y, line.id))
            <6> SUFFICES ASSUME line.id \notin harmed, NEW j \in 1 .. n PROVE Y[j] = line.id
              BY <5>3 DEF Each
            <6>1. line.at = End(buf)
              BY <1>2
            <6>2. j - 1 \in 0 .. n - 1 /\ End(buf) + (j - 1) = End(buf) + j - 1
              BY <5>1
            <6>3. buf.mem[line.at + (j - 1)] = line.id
              BY <1>2, <2>2, <6>2 DEF n
            <6> QED
              BY <2>3, <5>3, <6>1, <6>2, <6>3
          <5>8. Len(X) = Len(Y)
            BY <5>2, <5>3
          <5> QED
            BY <1>2, <5>2, <5>5, <5>6, <5>7, <5>8, ContainedCounted
        <4> QED
          BY <4>1, <4>2
      <3>4. Contained(file, accepted, Text(buf), Unsettled, harmed)'
        BY <1>1, <2>1, <3>1, <3>3, SettledNow
      <3> QED
        BY <3>1, <3>4 DEF DamageInv
    <2> QED
      BY <2>4, <2>5
  <1> QED
    BY <1>4, <1>5

LEMMA WriteDamage ==
    ASSUME LoggerInv, DamageInv, NEW k \in -1 .. MAX, Write(k) PROVE DamageInv'
  <1>1. /\ pc = "write" /\ pc' = (IF k > 0 THEN "settle" ELSE "want")
        /\ UNCHANGED <<buf, accepted, harmed>>
        /\ k \in Writes(buf) /\ took' = k /\ file' = file \o Bytes(buf, buf.start, k)
    BY DEF Write, sigVars
  <1>2. Contained(file, accepted, Text(buf), 0, harmed) /\ file \in Seq(Nat)
    BY <1>1, SettledNow DEF DamageInv, Alive, Undefined, Closing, Contained
  <1>3. buf \in Buffers /\ Sound(buf)
    BY <1>1, AliveIsSound DEF Alive, Undefined, Closing
  <1> DEFINE W == Bytes(buf, buf.start, k)
             R == Text(Flushed(buf, k))
  <1>4. Parts(Text(buf), W, R) /\ Len(W) = IF k > 0 THEN k ELSE 0
    BY <1>1, <1>3, WrittenParts
  <1>5. file' = file \o W
    BY <1>1
  <1> HIDE DEF W, R
  <1>6. Parts(file', file, W)
    <2>1. Parts(file \o W, file, W)
      BY <1>2, <1>4, PartsOfJoin DEF Parts
    <2> QED
      BY ONLY <1>5, <2>1, Zenon
  <1>7. Contained(file', accepted, Text(buf), Len(W), harmed)
    BY <1>2, <1>4, <1>6, ContainedWritten
  <1>8. Unsettled' = Len(W)
    BY <1>1, <1>4 DEF Unsettled
  <1>9. Contained(file, accepted, Text(buf), Unsettled, harmed)'
    BY <1>1, <1>7, <1>8
  <1> QED
    BY <1>1, <1>9 DEF DamageInv

LEMMA ShortenDamage == ASSUME LoggerInv, DamageInv, Shorten PROVE DamageInv'
  <1>1. /\ pc = "settle" /\ buf' = Shorter(buf, took) /\ UNCHANGED <<took, file, accepted, harmed>>
        /\ pc' = IF Astray(buf') THEN "undefined" ELSE "start"
    BY DEF Shorten, logVars, sigVars
  <1>2. Contained(file, accepted, Text(buf), took, harmed)
    BY <1>1 DEF DamageInv, Alive, Undefined, Closing, Unsettled
  <1>3. buf \in Buffers /\ Sound(buf) /\ took \in Nat \ {0}
    BY <1>1 DEF LoggerInv, TypesInv, InsideInv, TookInv, Flushing
  <1>4. CASE Astray(buf')
    BY <1>1, <1>4 DEF DamageInv, Alive, Undefined
  <1>5. CASE ~Astray(buf')
    <2>1. /\ buf'.start = buf.start /\ buf'.length = buf.length - took
          /\ buf'.capacity = buf.capacity /\ buf'.mem = buf.mem
      BY <1>1, <1>3, ShorterKeeps
    <2>2. took \in Writes(buf) /\ End(buf') + took <= buf'.capacity
      BY <1>3, <1>5, <2>1, CapacityAssumption
         DEF Astray, Writes, Sound, Buffers, End, Capacities
    <2> DEFINE W == Bytes(buf, buf.start, took)
               R == Text(Flushed(buf, took))
    <2>3. Parts(Text(buf), W, R) /\ Len(W) = took
      BY <1>3, <2>2, WrittenParts
    <2>4. R = Bytes(buf', buf'.start + took, buf'.length)
      <3>1. R = Bytes(buf, buf.start + took, buf.length - took)
        BY <1>3, <2>2, FlushedText
      <3> QED
        BY <2>1, <3>1 DEF Bytes
    <2> HIDE DEF W, R
    <2>5. Contained(file, accepted, R, 0, harmed)
      <3>1. Contained(file, accepted, Text(buf), Len(W), harmed)
        BY <1>2, <2>3
      <3> QED
        BY <2>3, <3>1, ContainedSettled
    <2>6. Midway'
      BY <1>1, <2>2, <2>4, <2>5 DEF Midway
    <2> QED
      BY <1>1, <1>5, <2>6 DEF DamageInv
  <1> QED
    BY <1>4, <1>5

LEMMA RestartDamage == ASSUME LoggerInv, DamageInv, Restart PROVE DamageInv'
  <1>1. /\ pc = "start" /\ buf' = Restarted(buf, took) /\ UNCHANGED <<took, file, accepted, harmed>>
        /\ pc' = IF Astray(buf') THEN "undefined" ELSE "want"
    BY DEF Restart, logVars, sigVars
  <1>2. Midway
    BY <1>1 DEF DamageInv, Alive, Undefined, Closing
  <1>3. buf \in Buffers /\ took \in Nat
    BY <1>1 DEF LoggerInv, TypesInv, TookInv, Flushing
  <1>4. CASE Astray(buf')
    BY <1>1, <1>4 DEF DamageInv, Alive, Undefined
  <1>5. CASE ~Astray(buf')
    <2>1. /\ buf' \in Buffers /\ buf'.length = buf.length
          /\ Text(buf') = Bytes(buf, buf.start + took, buf.length)
      BY <1>1, <1>3, RestartedKeeps
    <2>2. Text(buf') \in Seq(Nat) /\ Len(Text(buf')) = buf.length
      BY <1>5, <2>1, SoundIsNotAstray, TextType
    <2>3. Contained(file, accepted, Text(buf'), 0, harmed)
      BY <1>2, <2>1, <2>2 DEF Midway, Anything
    <2>4. Contained(file, accepted, Text(buf), Unsettled, harmed)'
      BY <1>1, <1>5, <2>3, SettledNow
    <2> QED
      BY <1>1, <1>5, <2>4 DEF DamageInv
  <1> QED
    BY <1>4, <1>5

(* The handler counts n bytes of a line id, and the file takes W of what   *)
(* is then pending: n >= 0, and no flush is under way.                     *)
LEMMA ContainedLine ==
    ASSUME NEW F, NEW A, NEW B, NEW H, Contained(F, A, B, 0, H),
           NEW A2, NEW X, Parts(A2, A, X), NEW B2, Parts(B2, B, X), NEW x, Each(X, x),
           NEW W, NEW R, Parts(B2, W, R), NEW F2, Parts(F2, F, W)
    PROVE  Contained(F2, A2, R, 0, H)
  <1>1. Len(X) = Len(X) /\ (x \in H \/ (0 = 0 /\ Each(X, x)))
    OBVIOUS
  <1>2. Contained(F, A2, B2, 0, H)
    BY <1>1, ContainedCounted
  <1>3. Contained(F2, A2, B2, Len(W), H)
    BY <1>2, ContainedWritten
  <1> QED
    BY <1>3, ContainedSettled

(* As much while a flush is under way: the line, and all that is counted,  *)
(* is harmed, and what is written and what is left may be any bytes.       *)
LEMMA ContainedHarmed ==
    ASSUME NEW F, NEW A, NEW B, NEW T, NEW H, Contained(F, A, B, T, H), AllHarmed(A, B, H),
           NEW A2, NEW X, Parts(A2, A, X), NEW x \in H, Each(X, x),
           NEW F2, NEW W, Parts(F2, F, W), NEW R \in Seq(Nat), Len(W) + Len(R) = Len(B) + Len(X)
    PROVE  Contained(F2, A2, R, T, H)
  <1> DEFINE B2 == B \o X
  <1>1. B \in Seq(Nat) /\ X \in Seq(Nat)
    BY DEF Contained, Parts
  <1>2. Parts(B2, B, X)
    BY <1>1, PartsOfJoin
  <1> HIDE DEF B2
  <1>3. Len(X) = Len(X) /\ (x \in H \/ (T = 0 /\ Each(X, x)))
    OBVIOUS
  <1>4. Contained(F, A2, B2, T, H)
    BY <1>2, <1>3, ContainedCounted
  <1>5. PICK a \in Nat, b \in Nat, n \in Nat :
          /\ a = Len(A) /\ b = Len(B) /\ n = Len(X)
          /\ Len(A2) = a + n /\ Len(B2) = b + n /\ (a + n) - (b + n) = a - b
    BY <1>2, LenProperties DEF Parts
  <1>6. ASSUME NEW j \in 1 .. a + n, j > a - b PROVE A2[j] \in H
    <2>1. CASE j <= a
      <3>1. j \in 1 .. a
        BY <2>1
      <3>2. A2[j] = A[j] /\ A[j] \in H
        BY <1>5, <1>6, <3>1 DEF Parts, AllHarmed
      <3> QED
        BY <3>2
    <2>2. CASE ~(j <= a)
      <3>1. PICK i \in Nat : j = a + i
        BY <2>2, Difference
      <3>2. i \in 1 .. n
        BY <2>2, <3>1
      <3>3. A2[a + i] = X[i] /\ X[i] = x
        BY <1>5, <3>2 DEF Parts, Each
      <3> QED
        BY <3>1, <3>3
    <2> QED
      BY <2>1, <2>2
  <1>7. AllHarmed(A2, B2, H)
    BY <1>5, <1>6 DEF AllHarmed
  <1>8. Len(W) + Len(R) = Len(B2)
    BY <1>5
  <1> QED
    BY <1>4, <1>7, <1>8, ContainedWhatever

LEMMA MidwayIsContained ==
    ASSUME buf \in Buffers, Sound(buf), Midway, took \in Nat
    PROVE  \E B \in Seq(Nat) : Len(B) = buf.length /\ Contained(file, accepted, B, 0, harmed)
  <1>1. buf.length \in Nat /\ buf.start + took \in Nat
        /\ (End(buf) + took <= buf.capacity => (buf.start + took) + buf.length <= buf.capacity)
    BY CapacityAssumption DEF Sound, Buffers, End, Capacities
  <1>2. CASE Anything
    <2>1. Text(buf) \in Seq(Nat) /\ Len(Text(buf)) = buf.length
      BY TextType
    <2> QED
      BY <1>2, <2>1 DEF Anything
  <1>3. CASE End(buf) + took <= buf.capacity
             /\ Contained(file, accepted, Bytes(buf, buf.start + took, buf.length), 0, harmed)
    <2>1. /\ Bytes(buf, buf.start + took, buf.length) \in Seq(Nat)
          /\ Len(Bytes(buf, buf.start + took, buf.length)) = buf.length
      BY <1>1, <1>3, BytesType
    <2> QED
      BY <1>3, <2>1
  <1> QED
    BY <1>2, <1>3 DEF Midway

LEMMA SignalDamage ==
    ASSUME LoggerInv, DamageInv, NEW given \in BOOLEAN, NEW k \in -1 .. MAX, Signal(given, k)
    PROVE  DamageInv'
  <1> DEFINE id == lines + signals + 1
             n  == CountedThere(buf, given)
             w  == WithLine(buf, given, id)
  <1>1. /\ k \in Writes(w) /\ file' = file \o Bytes(w, w.start, k)
        /\ accepted' = accepted \o Times(n, id) /\ buf' = Flushed(w, k)
        /\ pc' = IF Astray(w) THEN "undefined" ELSE pc
        /\ took' = took /\ line' = line
    BY DEF Signal, WithLine, CountedThere
  <1>2. harmed' = IF pc \in Printing THEN harmed \cup {line.id, id}
                  ELSE IF pc \in Flushing THEN harmed \cup Waiting \cup {id}
                  ELSE harmed
    BY DEF Signal
  <1> SUFFICES ASSUME Alive, ~Astray(w) PROVE DamageInv'
    BY <1>1 DEF DamageInv, Alive, Undefined, Closing
  <1>3. /\ pc' = pc
        /\ pc = "start" => Midway
        /\ pc # "start" => Contained(file, accepted, Text(buf), Unsettled, harmed)
        /\ pc = "print" => Before(file, accepted, Text(buf), harmed, buf.start, line.at)
    BY <1>1 DEF DamageInv
  <1>0. pc = "start" => took \in Nat
    BY DEF LoggerInv, TookInv, Flushing
  <1>4. buf \in Buffers /\ Sound(buf) /\ id \in Nat /\ line \in Locals
    <2>1. lines \in Nat /\ signals \in Nat
      BY AliveIsSound
    <2> QED
      BY <2>1, AliveIsSound
  <1>5. Unsettled' = Unsettled
    BY <1>1, <1>3 DEF Unsettled
  <1> HIDE DEF id
  <1>6. /\ w \in Buffers /\ n \in Int /\ w.start <= buf.start /\ w.length = buf.length + n
        /\ n >= 0 => Text(w) = Text(buf) \o Times(n, id)
    BY <1>4, WholeLineText
  <1> HIDE DEF w, n
  <1>7. Sound(w)
    BY <1>6, SoundIsNotAstray
  <1> DEFINE X == Times(n, id)
             W == Bytes(w, w.start, k)
             R == Text(buf')
             B == Text(buf)
  <1>8. Parts(Text(w), W, R) /\ Len(W) = IF k > 0 THEN k ELSE 0
    BY <1>1, <1>6, <1>7, WrittenParts
  <1>9. /\ B \in Seq(Nat) /\ Len(B) = buf.length /\ Len(Text(w)) = w.length
        /\ buf.length \in Nat /\ buf.start \in Nat /\ w.start \in Nat /\ w.length \in Nat
    BY <1>4, <1>6, <1>7, TextType DEF Sound, Buffers
  <1>10. file \in Seq(Nat) /\ accepted \in Seq(Nat)
    <2>1. pc = "start" => \E C \in Seq(Nat) : Len(C) = buf.length /\ Contained(file, accepted, C, 0, harmed)
      BY <1>0, <1>3, <1>4, MidwayIsContained
    <2> QED
      BY <1>3, <2>1 DEF Contained
  <1>11. file' = file \o W /\ accepted' = accepted \o X
    BY <1>1
  <1>12. harmed \subseteq harmed'
    BY <1>2
  <1>13. pc \in Printing \cup Flushing => id \in harmed'
    BY <1>2
  <1>14. Len(R) = buf'.length /\ R \in Seq(Nat)
    <2>1. Sound(buf') /\ buf' \in Buffers
      BY <1>1, <1>6, <1>7, FlushedSound, FlushedKeeps, WritesAre
    <2> QED
      BY <2>1, TextType
  <1> HIDE DEF X, W, R, B
  <1>15. Parts(file', file, W)
    <2>1. Parts(file \o W, file, W)
      BY <1>8, <1>10, PartsOfJoin DEF Parts
    <2> QED
      BY ONLY <1>11, <2>1, Zenon
  <1>16. Len(W) + Len(R) = buf.length + n /\ Len(W) \in Nat /\ Len(R) \in Nat
    <2>1. Len(Text(w)) = Len(W) + Len(R) /\ W \in Seq(Nat)
      BY <1>8 DEF Parts
    <2> QED
      BY <1>6, <1>9, <1>14, <2>1
  <1>17. n < 0 => accepted' = accepted
    <2>1. n < 0 => X = <<>>
      BY <1>4, <1>6, NothingTaken DEF X
    <2> QED
      BY <1>10, <1>11, <2>1, ConcatEmptySeq
  <1>18. n >= 0 => X \in Seq(Nat) /\ Len(X) = n /\ Each(X, id) /\ Parts(accepted', accepted, X)
    <2> SUFFICES ASSUME n >= 0
                 PROVE  X \in Seq(Nat) /\ Len(X) = n /\ Each(X, id) /\ Parts(accepted', accepted, X)
      OBVIOUS
    <2>1. X \in Seq(Nat) /\ Len(X) = n /\ Each(X, id)
      BY <1>4, <1>6, TimesEach DEF X
    <2>2. Parts(accepted \o X, accepted, X)
      BY <1>10, <2>1, PartsOfJoin
    <2>3. Parts(accepted', accepted, X)
      BY ONLY <1>11, <2>2, Zenon
    <2> QED
      BY <2>1, <2>3
  <1>19. ASSUME pc \in {"settle", "start"}, NEW T, NEW C \in Seq(Nat), Len(C) = buf.length,
                Contained(file, accepted, C, T, harmed), NEW D \in Seq(Nat), Len(D) = buf'.length
         PROVE  Contained(file', accepted', D, T, harmed')
    <2>1. Len(W) + Len(D) = Len(C) + n
      BY <1>14, <1>16, <1>19
    <2>2. CASE n < 0
      <3>1. Len(W) + Len(D) < Len(C)
        BY <1>9, <1>6, <1>19, <2>1, <2>2
      <3>2. Contained(file', accepted, D, T, harmed')
        BY <1>15, <1>19, <3>1, ContainedLess
      <3> QED
        BY <1>17, <2>2, <3>2
    <2>3. CASE ~(n < 0)
      <3>1. n >= 0
        BY <1>6, <2>3
      <3>2. Contained(file, accepted, C, T, harmed')
        BY <1>12, <1>19, ContainedMore
      <3>3. id \in harmed'
        BY <1>13, <1>19 DEF Flushing
      <3>4. AllHarmed(accepted, C, harmed')
        <4>1. harmed' = harmed \cup Waiting \cup {id}
          BY <1>2, <1>19 DEF Printing, Flushing
        <4>2. PICK a \in Nat, c \in Nat : a = Len(accepted) /\ c = buf.length
          BY <1>9, <1>10, LenProperties
        <4>3. ASSUME NEW m \in 1 .. a, m > a - c PROVE accepted[m] \in harmed'
          <5>1. m \in a - c + 1 .. a
            BY <4>3
          <5> QED
            BY <4>1, <4>2, <5>1 DEF Waiting
        <4> QED
          BY <1>19, <4>2, <4>3 DEF AllHarmed
      <3>5. Len(W) + Len(D) = Len(C) + Len(X)
        BY <1>18, <2>1, <3>1
      <3> QED
        BY <1>15, <1>18, <3>1, <3>2, <3>3, <3>4, <3>5, ContainedHarmed
    <2> QED
      BY <1>6, <2>2, <2>3
  <1>20. CASE pc = "settle"
    <2>1. Contained(file, accepted, B, Unsettled, harmed)
      BY <1>3, <1>20 DEF B
    <2>2. Contained(file', accepted', R, Unsettled, harmed')
      BY <1>9, <1>14, <1>19, <1>20, <2>1
    <2>3. Contained(file, accepted, Text(buf), Unsettled, harmed)'
      BY <1>5, <2>2 DEF R
    <2> QED
      BY <1>3, <1>20, <2>3 DEF DamageInv
  <1>21. CASE pc = "start"
    <2>1. PICK C \in Seq(Nat) : Len(C) = buf.length /\ Contained(file, accepted, C, 0, harmed)
      BY <1>0, <1>3, <1>4, <1>21, MidwayIsContained
    <2>2. \A D \in Seq(Nat) : Len(D) = buf'.length => Contained(file', accepted', D, 0, harmed')
      BY <1>19, <1>21, <2>1
    <2>3. Midway'
      BY <2>2 DEF Midway, Anything
    <2> QED
      BY <1>3, <1>21, <2>3 DEF DamageInv
  <1>22. CASE pc \notin {"settle", "start"}
    <2>1. Unsettled = 0 /\ Unsettled' = 0 /\ Contained(file, accepted, B, 0, harmed)
      BY <1>3, <1>5, <1>22, SettledNow DEF B
    <2>2. /\ Contained(file', accepted', R, 0, harmed')
          /\ pc = "print" => Before(file', accepted', R, harmed', buf'.start, line.at)
      <3>1. CASE n < 0
        <4>1. Len(W) + Len(R) < Len(B)
          BY <1>6, <1>9, <1>16, <3>1
        <4>2. Contained(file', accepted, R, 0, harmed')
          BY <1>14, <1>15, <2>1, <4>1, ContainedLess
        <4>3. pc = "print" => Before(file', accepted, R, harmed', buf'.start, line.at)
          <5> SUFFICES ASSUME pc = "print" PROVE Len(file') + Len(R) # Len(accepted)
            BY DEF Before
          <5>1. /\ Len(file) - 0 + Len(B) <= Len(accepted) /\ Len(file') = Len(file) + Len(W)
                /\ Len(file) \in Nat /\ Len(accepted) \in Nat /\ Len(B) \in Nat
            BY <1>9, <1>10, <1>15, <2>1 DEF Contained, Parts
          <5> QED
            BY <1>16, <4>1, <5>1
        <4> QED
          BY <1>17, <3>1, <4>2, <4>3
      <3>2. CASE ~(n < 0)
        <4>1. n \in Nat /\ n >= 0
          BY <1>6, <3>2
        <4>2. Parts(Text(w), B, X)
          <5>1. Parts(B \o X, B, X)
            BY <1>9, <1>18, <4>1, PartsOfJoin
          <5>2. Text(w) = B \o X
            BY <1>6, <4>1 DEF B, X
          <5> QED
            BY ONLY <5>1, <5>2, Zenon
        <4>3. Contained(file, accepted, B, 0, harmed')
          BY <1>12, <2>1, ContainedMore
        <4>4. Contained(file', accepted', R, 0, harmed')
          BY <1>8, <1>15, <1>18, <4>1, <4>2, <4>3, ContainedLine
        <4>5. ASSUME pc = "print" PROVE Before(file', accepted', R, harmed', buf'.start, line.at)
          <5>1. buf'.start \in Nat /\ buf'.start <= buf.start + Len(W)
            <6>1. k \in Int /\ buf' = Flushed(w, k)
              BY <1>1, <1>6, <1>7, WritesAre
            <6>2. CASE k > 0
              <7>1. buf'.start = IF w.length = k THEN 0 ELSE w.start + k
                BY <1>6, <6>1, <6>2, FlushedKeeps
              <7> QED
                BY <1>6, <1>8, <1>9, <6>1, <6>2, <7>1
            <6>3. CASE ~(k > 0)
              <7>1. buf' = w
                BY <1>6, <6>1, <6>3, FlushedKeeps
              <7> QED
                BY <1>6, <1>8, <1>9, <6>3, <7>1
            <6> QED
              BY <6>2, <6>3
          <5>2. line.at \in Int
            BY <1>4 DEF Locals
          <5>3. Before(file, accepted, B, harmed, buf.start, line.at)
            BY <1>3, <4>5 DEF B
          <5>4. id \in harmed' /\ Len(X) = Len(X)
            BY <1>13, <4>5 DEF Printing
          <5> DEFINE start == buf.start
                     at    == line.at
                     s2    == buf'.start
          <5>5. start \in Nat /\ at \in Int /\ s2 \in Nat /\ s2 <= start + Len(W)
                /\ Before(file, accepted, B, harmed, start, at)
            BY <1>9, <5>1, <5>2, <5>3
          <5> HIDE DEF start, at, s2
          <5>6. Before(file', accepted', R, harmed', s2, at)
            BY <1>8, <1>10, <1>12, <1>15, <1>18, <4>1, <4>2, <5>4, <5>5, BeforeSignal
          <5> QED
            BY <5>6 DEF s2, at
        <4> QED
          BY <4>4, <4>5
      <3> QED
        BY <1>6, <3>1, <3>2
    <2>3. /\ Contained(file, accepted, Text(buf), Unsettled, harmed)'
          /\ pc' = "print" => Before(file, accepted, Text(buf), harmed, buf.start, line.at)'
      <3>1. R = Text(buf)'
        BY DEF R
      <3> QED
        BY <1>1, <1>3, <2>1, <2>2, <3>1
    <2>4. pc' \in {"print", "post"} => line'.id \in harmed'
      BY <1>1, <1>2, <1>3 DEF Printing
    <2>5. pc' # "start"
      BY <1>3, <1>22
    <2> QED
      BY <2>3, <2>4, <2>5 DEF DamageInv
  <1> QED
    BY <1>20, <1>21, <1>22

LEMMA NextDamage == LoggerInv /\ DamageInv /\ [Next]_vars => DamageInv'
  <1> SUFFICES ASSUME LoggerInv, DamageInv, [Next]_vars PROVE DamageInv'
    OBVIOUS
  <1>1. CASE (\E n \in Sizes : Logf(n)) \/ HandleWrite \/ HandleClose \/ Want \/ Await
    <2>1. /\ pc \in {"idle", "want", "await"} /\ pc' \in {"space", "write", "await", "idle", "last"}
          /\ UNCHANGED <<buf, file, accepted, harmed>>
      BY <1>1 DEF Logf, HandleWrite, HandleClose, Want, Await, logVars, sigVars
    <2> QED
      BY <2>1, SameDamage
  <1>2. ASSUME NEW given \in BOOLEAN, PrePrint(given) PROVE DamageInv'
    BY <1>2, PrePrintDamage
  <1>3. CASE GetBufstart
    BY <1>3, GetBufstartDamage
  <1>4. CASE Snprintf
    BY <1>4, SnprintfDamage
  <1>5. CASE PostPrint
    BY <1>5, PostPrintDamage
  <1>6. ASSUME NEW k \in -1 .. MAX, Write(k) PROVE DamageInv'
    BY <1>6, WriteDamage
  <1>7. CASE Shorten
    BY <1>7, ShortenDamage
  <1>8. CASE Restart
    BY <1>8, RestartDamage
  <1>9. ASSUME NEW given \in BOOLEAN, NEW k \in -1 .. MAX, Signal(given, k) PROVE DamageInv'
    BY <1>9, SignalDamage
  <1>10. ASSUME NEW k \in -1 .. MAX, CloseWrite(k) PROVE DamageInv'
    BY <1>10 DEF CloseWrite, DamageInv, Alive, Closing
  <1>11. CASE CloseShorten \/ CloseRestart \/ Close \/ SignalWithin
    BY <1>11 DEF CloseShorten, CloseRestart, Close, SignalWithin, DamageInv, Alive, Closing, Undefined
  <1>12. CASE UNCHANGED vars
    <2>1. /\ UNCHANGED <<buf, pc, line, took, file, accepted, harmed>>
          /\ Text(buf') = Text(buf) /\ Unsettled' = Unsettled
      BY <1>12 DEF vars, logVars, sigVars, Unsettled
    <2>2. (Alive' <=> Alive) /\ (Midway' <=> Midway)
      BY <2>1 DEF Alive, Closing, Undefined, Midway, Anything, End, Bytes
    <2> QED
      BY <2>1, <2>2 DEF DamageInv, End, Room
  <1> QED
    BY <1>1, <1>2, <1>3, <1>4, <1>5, <1>6, <1>7, <1>8, <1>9, <1>10, <1>11, <1>12 DEF Next, Step

(* However many signals there are, and wherever they fall: if the process  *)
(* survives them and no byte fell out for want of room, each byte that is  *)
(* wrong in the file or in the buffer is one of a line that a signal fell  *)
(* into, of the handler's own line then, or of what the flush was of.      *)
THEOREM DamageStaysInTheLines == Spec => []DamageIsContained
  <1>1. LoggerInv /\ DamageInv => DamageIsContained
    <2> SUFFICES ASSUME LoggerInv, DamageInv, ~Undefined, pc \notin Flushing, ~Closing,
                        Len(Out) = Len(accepted), NEW j \in DOMAIN Out, Out[j] # accepted[j]
                 PROVE  accepted[j] \in harmed
      BY DEF DamageIsContained
    <2> DEFINE B == Text(buf)
    <2>1. Alive /\ Unsettled = 0 /\ pc \notin {"settle", "start"}
      BY DEF Alive, Unsettled, Flushing
    <2>2. Contained(file, accepted, B, 0, harmed)
      BY <2>1 DEF DamageInv
    <2>3. Out = file \o B
      <3>1. buf \in Buffers
        BY <2>1, AliveIsSound
      <3> QED
        BY <2>1, <3>1, OutIsText
    <2> HIDE DEF B
    <2>4. Parts(Out, file, B)
      <3>1. Parts(file \o B, file, B)
        BY <2>2, PartsOfJoin DEF Contained
      <3> QED
        BY ONLY <2>3, <3>1, Zenon
    <2>5. PICK f \in Nat, b \in Nat, a \in Nat : f = Len(file) /\ b = Len(B) /\ a = Len(accepted)
      BY <2>2, LenProperties DEF Contained
    <2>6. f + b = a /\ f - 0 + b = a /\ j \in 1 .. f + b
      <3>1. Out \in Seq(Nat) /\ Len(Out) = f + b
        BY <2>4, <2>5 DEF Parts
      <3>2. DOMAIN Out = 1 .. f + b
        BY <3>1, LenProperties
      <3> QED
        BY <2>5, <3>1, <3>2
    <2>7. CASE j <= f
      <3>1. j \in 1 .. f /\ j <= a
        BY <2>6, <2>7
      <3>2. Right(file[j], accepted, j, harmed) /\ Out[j] = file[j]
        BY <2>2, <2>4, <2>5, <2>6, <3>1 DEF Contained, Parts
      <3> QED
        BY <3>2 DEF Right
    <2>8. CASE ~(j <= f)
      <3>1. PICK i \in Nat : j = f + i
        <4>1. j \in Nat /\ f \in Nat /\ f <= j
          BY <2>6, <2>8
        <4> QED
          BY <4>1, Difference
      <3>2. i \in 1 .. b /\ i > 0 /\ f - 0 + i = j
        BY <2>6, <2>8, <3>1
      <3>3. Right(B[i], accepted, f - 0 + i, harmed) /\ Out[f + i] = B[i]
        BY <2>2, <2>4, <2>5, <2>6, <3>2 DEF Contained, Parts
      <3> QED
        BY <3>1, <3>2, <3>3 DEF Right
    <2> QED
      BY <2>6, <2>7, <2>8
  <1>2. Spec => []DamageInv
    <2>1. LoggerInv /\ DamageInv /\ [Next]_vars => DamageInv'
      BY NextDamage
    <2> QED
      BY <2>1, InitDamage, LoggerInvariant, PTL DEF Spec
  <1> QED
    BY <1>1, <1>2, LoggerInvariant, PTL
=============================================================================
