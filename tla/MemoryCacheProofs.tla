------------------------- MODULE MemoryCacheProofs -------------------------
(***************************************************************************)
(* For every number of lines, pages and words: the types of MemoryCache,   *)
(* the consistency of the write-through cache, what an edit of memory may  *)
(* leave behind, and the refinement of flat memory.                        *)
(***************************************************************************)
EXTENDS MemoryCache, TLAPS

USE DEF OFF, ON, DIRECT, ASSOCIATIVE, HYBRID, WRITE_THROUGH, WRITE_BACK,
        HIT, MISS, HIT_READ, HIT_WRITE, MISS_READ, MISS_WRITE,
        READ, WRITE, WORD, BYTE, Kinds, Sizes,
        MEMORY_ACCESS_CLK_INC, CACHE_MEM_ACCESS_CLK_INC

\* The state of the bus in the middle of an access.
BusState == [mem : [WordAddr -> Word], mar : ByteAddr, mbr : Word, run : Int, cmp : Int]

-----------------------------------------------------------------------------
(***************************************************************************)
(* Words and addresses.                                                    *)
(***************************************************************************)

\* A byte address names a word and one of its two halves
\* (WORD_ADDR_CONV, memory.byte and memory.word of the memory union).
LEMMA ByteAddress ==
  ASSUME NEW mar \in ByteAddr
  PROVE  /\ mar \in Nat
         /\ WORD_ADDR_CONV(mar) \in WordAddr
         /\ mar % 2 \in 0..1
  <1>1. PICK w \in WordAddr : mar = 2 * w \/ mar = 2 * w + 1
    BY DEF ByteAddr, BYTE_ADDR_CONV
  <1>2. w \in Nat
    BY AddressAssumption
  <1>3. (2 * w) \div 2 = w /\ (2 * w + 1) \div 2 = w
    BY <1>2
  <1> QED
    BY <1>1, <1>2, <1>3 DEF WORD_ADDR_CONV

LEMMA LineAddress ==
  ASSUME NEW w \in WordAddr
  PROVE  BYTE_ADDR_CONV(w) \in ByteAddr /\ WORD_ADDR_CONV(BYTE_ADDR_CONV(w)) = w
  <1>1. w \in Nat
    BY AddressAssumption
  <1> QED
    BY <1>1 DEF ByteAddr, BYTE_ADDR_CONV, WORD_ADDR_CONV

\* Reading and writing a byte or a word of a word gives words.
LEMMA GetPutType ==
  ASSUME NEW word \in Word, NEW data \in Word, NEW mar \in ByteAddr, NEW size \in Sizes
  PROVE  Get(word, mar, size) \in Word /\ Put(word, mar, size, data) \in Word
  <1>1. mar % 2 \in 0..1
    BY ByteAddress
  <1>2. Get(word, mar, size) \in Word
    BY <1>1, ByteAssumption DEF Get, Word
  <1>3. Put(word, mar, size, data) \in Word
    BY <1>1 DEF Put, Word
  <1> QED
    BY <1>2, <1>3

LEMMA ZeroType == Zero \in Word
  BY ByteAssumption DEF Zero, Word

\* The primary memory bus moves one word and leaves the address alone.
LEMMA BusStep ==
  ASSUME NEW s \in BusState, NEW size \in Sizes, NEW rw \in Kinds
  PROVE  /\ memory_bus(s, size, rw) \in BusState
         /\ memory_bus(s, size, rw).mar = s.mar
         /\ memory_bus(s, size, rw).cmp = s.cmp
         /\ memory_bus(s, size, rw).run = s.run + 3
         /\ \A v \in WordAddr : v # WORD_ADDR_CONV(s.mar) =>
              memory_bus(s, size, rw).mem[v] = s.mem[v]
         /\ rw = READ => /\ memory_bus(s, size, rw).mem = s.mem
                         /\ memory_bus(s, size, rw).mbr =
                              Get(s.mem[WORD_ADDR_CONV(s.mar)], s.mar, size)
         /\ rw = WRITE => /\ memory_bus(s, size, rw).mbr = s.mbr
                          /\ memory_bus(s, size, rw).mem[WORD_ADDR_CONV(s.mar)] =
                               Put(s.mem[WORD_ADDR_CONV(s.mar)], s.mar, size, s.mbr)
  <1> DEFINE w == WORD_ADDR_CONV(s.mar)
  <1>1. s.mar \in ByteAddr /\ s.mbr \in Word /\ s.mem \in [WordAddr -> Word]
        /\ s.run \in Int /\ s.cmp \in Int
    BY DEF BusState
  <1>2. w \in WordAddr
    BY <1>1, ByteAddress
  <1>3. /\ Get(s.mem[w], s.mar, size) \in Word
        /\ Put(s.mem[w], s.mar, size, s.mbr) \in Word
    BY <1>1, <1>2, GetPutType
  <1> HIDE DEF w
  <1> DEFINE t == memory_bus(s, size, rw)
  <1>4. CASE rw = READ
    <2>1. t = [mem |-> s.mem, mar |-> s.mar, mbr |-> Get(s.mem[w], s.mar, size),
               run |-> s.run + 3, cmp |-> s.cmp]
      BY <1>4 DEF memory_bus, BusState, w
    <2> HIDE DEF t
    <2>2. t \in BusState
      BY <2>1, <1>1, <1>3 DEF BusState
    <2> QED
      BY <2>1, <2>2, <1>4 DEF w, t
  <1>5. CASE rw = WRITE
    <2> DEFINE m == [s.mem EXCEPT ![w] = Put(s.mem[w], s.mar, size, s.mbr)]
    <2>0. t = [[s EXCEPT !.run = s.run + 3] EXCEPT !.mem = m]
      BY <1>5 DEF memory_bus, w
    <2>m. m \in [WordAddr -> Word] /\ m[w] = Put(s.mem[w], s.mar, size, s.mbr)
          /\ \A v \in WordAddr : v # w => m[v] = s.mem[v]
      BY <1>1, <1>2, <1>3
    <2> HIDE DEF m, t
    <2>1. t = [mem |-> m, mar |-> s.mar, mbr |-> s.mbr, run |-> s.run + 3, cmp |-> s.cmp]
      BY <2>0 DEF BusState
    <2>2. t \in BusState
      BY <2>1, <1>1, <2>m DEF BusState
    <2>3. /\ t.mem[w] = Put(s.mem[w], s.mar, size, s.mbr)
          /\ \A v \in WordAddr : v # w => t.mem[v] = s.mem[v]
      BY <2>1, <2>m
    <2>4. t.mar = s.mar /\ t.mbr = s.mbr /\ t.run = s.run + 3 /\ t.cmp = s.cmp
      BY <2>1
    <2> QED
      BY <2>2, <2>3, <2>4, <1>5 DEF w, t
  <1> QED
    BY <1>4, <1>5

\* A word read from memory, and nothing else changed but the clock.
LEMMA ReadWord ==
  ASSUME NEW s \in BusState
  PROVE  /\ memory_bus(s, WORD, READ) \in BusState
         /\ memory_bus(s, WORD, READ).mem = s.mem
         /\ memory_bus(s, WORD, READ).mar = s.mar
         /\ memory_bus(s, WORD, READ).mbr = s.mem[WORD_ADDR_CONV(s.mar)]
  BY BusStep DEF Get

\* Changing the comparison clock or the data register changes nothing else.
LEMMA CompareStep ==
  ASSUME NEW s \in BusState, NEW clk \in Int
  PROVE  /\ Compare(s, clk) \in BusState
         /\ Compare(s, clk).mem = s.mem
         /\ Compare(s, clk).mar = s.mar
         /\ Compare(s, clk).mbr = s.mbr
  BY DEF Compare, BusState

LEMMA DataStep ==
  ASSUME NEW s \in BusState, NEW word \in Word
  PROVE  /\ [s EXCEPT !.mbr = word] \in BusState
         /\ [s EXCEPT !.mbr = word].mem = s.mem
         /\ [s EXCEPT !.mbr = word].mar = s.mar
         /\ [s EXCEPT !.mbr = word].mbr = word
  BY DEF BusState

LEMMA BusFields ==
  ASSUME NEW s \in BusState
  PROVE  /\ s.mem \in [WordAddr -> Word]
         /\ s.mar \in ByteAddr
         /\ s.mbr \in Word
         /\ WORD_ADDR_CONV(s.mar) \in WordAddr
         /\ s.mem[WORD_ADDR_CONV(s.mar)] \in Word
  BY ByteAddress DEF BusState

-----------------------------------------------------------------------------
(***************************************************************************)
(* What every policy does to the line it is given.                         *)
(***************************************************************************)

\* Mapping a line to the address on the bus, and writing into a line.
LEMMA LineStep ==
  ASSUME NEW line \in Line, NEW s \in BusState, NEW size \in Sizes
  PROVE  /\ Fill(line, s) \in Line
         /\ Fill(line, s).address = WORD_ADDR_CONV(s.mar)
         /\ Fill(line, s).contents = s.mbr
         /\ Fill(line, s).lru = line.lru
         /\ Fill(line, s).dirty = line.dirty
         /\ Store(line, s, size) \in Line
         /\ Store(line, s, size).address = line.address
         /\ Store(line, s, size).contents = Put(line.contents, s.mar, size, s.mbr)
         /\ Store(line, s, size).lru = line.lru
         /\ Store(line, s, size).dirty = line.dirty
  <1>1. Put(line.contents, s.mar, size, s.mbr) \in Word
    BY BusFields, GetPutType DEF Line
  <1> QED
    BY <1>1, BusFields DEF Fill, Store, Line

\* A read from a line leaves the line and memory alone.
LEMMA ReadLineStep ==
  ASSUME NEW line \in Line, NEW s \in BusState, NEW size \in Sizes
  PROVE  /\ ReadLine(line, s, size).line = line
         /\ ReadLine(line, s, size).bus \in BusState
         /\ ReadLine(line, s, size).bus.mem = s.mem
         /\ ReadLine(line, s, size).bus.mbr = Get(line.contents, s.mar, size)
  <1>1. Get(line.contents, s.mar, size) \in Word
    BY BusFields, GetPutType DEF Line
  <1> DEFINE t == [s EXCEPT !.mbr = Get(line.contents, s.mar, size)]
             u == Compare(t, MEMORY_ACCESS_CLK_INC)
  <1>2. t \in BusState /\ t.mem = s.mem /\ t.mbr = Get(line.contents, s.mar, size)
    BY <1>1, DataStep
  <1>3. ReadLine(line, s, size) = [line |-> line, bus |-> u]
    BY DEF ReadLine, Outcome
  <1> HIDE DEF t
  <1>4. u \in BusState /\ u.mem = s.mem /\ u.mbr = t.mbr
    BY <1>2, CompareStep
  <1> HIDE DEF u
  <1> QED
    BY <1>2, <1>3, <1>4

\* A write into a line leaves memory alone and sets the dirty bit.
LEMMA WriteLineStep ==
  ASSUME NEW line \in Line, NEW s \in BusState, NEW size \in Sizes
  PROVE  /\ WriteLine(line, s, size).line \in Line
         /\ WriteLine(line, s, size).line.address = line.address
         /\ WriteLine(line, s, size).line.lru = line.lru
         /\ WriteLine(line, s, size).line.dirty = 1
         /\ WriteLine(line, s, size).bus \in BusState
         /\ WriteLine(line, s, size).bus.mem = s.mem
  <1> DEFINE l == Store(line, s, size)
  <1>1. l \in Line /\ l.address = line.address /\ l.lru = line.lru
    BY LineStep
  <1> HIDE DEF l
  <1>2. /\ [l EXCEPT !.dirty = 1] \in Line
        /\ [l EXCEPT !.dirty = 1].address = line.address
        /\ [l EXCEPT !.dirty = 1].lru = line.lru
        /\ [l EXCEPT !.dirty = 1].dirty = 1
    BY <1>1 DEF Line
  <1> DEFINE m == [l EXCEPT !.dirty = 1]
             u == Compare(s, MEMORY_ACCESS_CLK_INC)
  <1>3. WriteLine(line, s, size) = [line |-> m, bus |-> u]
    BY DEF WriteLine, Outcome, l
  <1>4. u \in BusState /\ u.mem = s.mem
    BY CompareStep
  <1>5. m \in Line /\ m.address = line.address /\ m.lru = line.lru /\ m.dirty = 1
    BY <1>2
  <1> HIDE DEF u, m
  <1> QED
    BY <1>3, <1>4, <1>5

\* Servicing a dirty line reads a byte and writes nothing: memory stays as it is.
LEMMA ServiceDirtyStep ==
  ASSUME NEW line \in Line, NEW s \in BusState
  PROVE  /\ ServiceDirty(line, s) \in BusState
         /\ ServiceDirty(line, s).mem = s.mem
         /\ ServiceDirty(line, s).mar = s.mar
  <1>1. CASE line.dirty = 0
    BY <1>1 DEF ServiceDirty
  <1>2. CASE line.dirty # 0
    <2> DEFINE r == [s EXCEPT !.mar = BYTE_ADDR_CONV(line.address), !.mbr = line.contents]
               t == memory_bus(r, WRITE, WORD)
               u == [t EXCEPT !.mar = s.mar]
    <2>1. r \in BusState /\ r.mem = s.mem
      BY LineAddress DEF Line, BusState
    <2> HIDE DEF r
    <2>2. t \in BusState /\ t.mem = s.mem
      BY <2>1, BusStep
    <2> HIDE DEF t
    <2>3. u \in BusState /\ u.mem = s.mem /\ u.mar = s.mar
      BY <2>2 DEF BusState
    <2> HIDE DEF u
    <2>4. ServiceDirty(line, s) = Compare(u, -MEMORY_ACCESS_CLK_INC)
      BY <1>2 DEF ServiceDirty, r, t, u
    <2> QED
      BY <2>3, <2>4, CompareStep
  <1> QED
    BY <1>1, <1>2

\* What a policy owes the cache.  It is given a line and the state of the bus
\* at an address, and told truthfully whether the line maps that address.
Obliges(line, s, hit, r) ==
  LET w == WORD_ADDR_CONV(s.mar)
  IN  /\ r.line \in Line
      /\ r.bus \in BusState
      /\ r.line.lru = line.lru
      /\ r.line.address = w
      /\ \A v \in WordAddr : v # w => r.bus.mem[v] = s.mem[v]
      /\ (hit /\ line.dirty = 0 => line.contents = s.mem[w])
           => (r.line.dirty = 0 => r.line.contents = r.bus.mem[w])

Truthful(line, s, status) ==
  status \in {HIT_READ, HIT_WRITE} => line.address = WORD_ADDR_CONV(s.mar)

\* The write-through policy keeps the line equal to memory and never sets a
\* dirty bit (write_through_policy).
LEMMA WriteThroughStep ==
  ASSUME NEW line \in Line, NEW s \in BusState, NEW size \in Sizes, NEW status \in 0..3,
         Truthful(line, s, status)
  PROVE  LET r == write_through_policy(line, s, size, status)
         IN  /\ Obliges(line, s, status < MISS, r)
             /\ r.line.dirty = line.dirty
  <1> DEFINE w == WORD_ADDR_CONV(s.mar)
             r == write_through_policy(line, s, size, status)
  <1>0. w \in WordAddr /\ s.mem[w] \in Word
    BY BusFields
  <1>1. CASE status = MISS_WRITE
    <2> DEFINE t == memory_bus(s, size, WRITE)
               u == memory_bus(t, WORD, READ)
               x == Compare(u, -MEMORY_ACCESS_CLK_INC)
    <2>1. r = [line |-> Fill(line, u), bus |-> x]
      BY <1>1 DEF write_through_policy, Outcome
    <2> HIDE DEF r
    <2>2. /\ t \in BusState /\ t.mar = s.mar
          /\ \A v \in WordAddr : v # w => t.mem[v] = s.mem[v]
      BY BusStep
    <2> HIDE DEF t
    <2>a. t \in BusState /\ t.mar = s.mar
      BY <2>2
    <2>3. u \in BusState /\ u.mar = s.mar /\ u.mem = t.mem /\ u.mbr = t.mem[w]
      BY <2>a, ReadWord
    <2> HIDE DEF u
    <2>4. x \in BusState /\ x.mem = t.mem
      BY <2>3, CompareStep
    <2> HIDE DEF x
    <2>5. /\ Fill(line, u) \in Line
          /\ Fill(line, u).address = w
          /\ Fill(line, u).contents = t.mem[w]
          /\ Fill(line, u).lru = line.lru
          /\ Fill(line, u).dirty = line.dirty
      BY <2>3, LineStep
    <2> QED
      BY <2>1, <2>2, <2>4, <2>5 DEF Obliges, r
  <1>2. CASE status = HIT_WRITE
    <2> DEFINE t == memory_bus(s, size, WRITE)
               l == Store(line, s, size)
    <2>1. r = [line |-> l, bus |-> t]
      BY <1>2 DEF write_through_policy, Outcome
    <2> HIDE DEF r
    <2>2. /\ t \in BusState
          /\ \A v \in WordAddr : v # w => t.mem[v] = s.mem[v]
          /\ t.mem[w] = Put(s.mem[w], s.mar, size, s.mbr)
      BY BusStep
    <2> HIDE DEF t
    <2>3. /\ l \in Line /\ l.address = w /\ l.lru = line.lru /\ l.dirty = line.dirty
          /\ l.contents = Put(line.contents, s.mar, size, s.mbr)
      BY <1>2, LineStep DEF Truthful
    <2> HIDE DEF l
    <2> QED
      BY <1>2, <2>1, <2>2, <2>3 DEF Obliges, r
  <1>3. CASE status = MISS_READ
    <2> DEFINE t == memory_bus(s, WORD, READ)
               x == Compare(t, -MEMORY_ACCESS_CLK_INC)
               l == Fill(line, t)
    <2>1. r = ReadLine(l, x, size)
      BY <1>3 DEF write_through_policy
    <2> HIDE DEF r
    <2>2. t \in BusState /\ t.mar = s.mar /\ t.mem = s.mem /\ t.mbr = s.mem[w]
      BY BusStep DEF Get
    <2> HIDE DEF t
    <2>3. x \in BusState /\ x.mem = s.mem
      BY <2>2, CompareStep
    <2> HIDE DEF x
    <2>4. /\ l \in Line /\ l.address = w /\ l.contents = s.mem[w]
          /\ l.lru = line.lru /\ l.dirty = line.dirty
      BY <2>2, LineStep
    <2> HIDE DEF l
    <2>5. r.line = l /\ r.bus \in BusState /\ r.bus.mem = s.mem
      BY <2>1, <2>3, <2>4, ReadLineStep
    <2> QED
      BY <2>4, <2>5 DEF Obliges, r
  <1>4. CASE status = HIT_READ
    <2>1. r = ReadLine(line, s, size)
      BY <1>4 DEF write_through_policy
    <2> HIDE DEF r
    <2>2. r.line = line /\ r.bus \in BusState /\ r.bus.mem = s.mem
      BY <2>1, ReadLineStep
    <2> QED
      BY <1>4, <2>2 DEF Obliges, Truthful, r
  <1> QED
    BY <1>1, <1>2, <1>3, <1>4

\* The write-back policy leaves memory alone and never leaves a clean line that
\* differs from it (write_back_policy).
LEMMA WriteBackStep ==
  ASSUME NEW line \in Line, NEW s \in BusState, NEW size \in Sizes, NEW status \in 0..3,
         Truthful(line, s, status)
  PROVE  Obliges(line, s, status < MISS, write_back_policy(line, s, size, status))
  <1> DEFINE w == WORD_ADDR_CONV(s.mar)
             r == write_back_policy(line, s, size, status)
  <1>0. w \in WordAddr /\ s.mem[w] \in Word /\ s.mbr \in Word
    BY BusFields
  <1>1. CASE status = MISS_WRITE
    <2> DEFINE served == [ServiceDirty(line, s) EXCEPT !.mbr = s.mbr]
               read   == memory_bus(served, READ, WORD)
               mapped == [line EXCEPT !.address = w]
               fetched == [mapped EXCEPT !.contents = read.mbr]
               restored == [read EXCEPT !.mbr = s.mbr]
               resumed == Compare(restored, -MEMORY_ACCESS_CLK_INC)
    <2>1. r = IF size = BYTE THEN WriteLine(fetched, resumed, size)
              ELSE WriteLine(mapped, served, size)
      BY <1>1 DEF write_back_policy
    <2> HIDE DEF r
    <2>2. served \in BusState /\ served.mem = s.mem /\ served.mar = s.mar
      BY <1>0, ServiceDirtyStep, DataStep
    <2> HIDE DEF served
    <2>3. read \in BusState /\ read.mem = s.mem /\ read.mbr \in Word
      BY <2>2, BusStep, BusFields
    <2> HIDE DEF read
    <2>4. mapped \in Line /\ mapped.address = w /\ mapped.lru = line.lru
      BY <1>0 DEF Line
    <2> HIDE DEF mapped
    <2>5. fetched \in Line /\ fetched.address = w /\ fetched.lru = line.lru
      BY <2>3, <2>4 DEF Line
    <2> HIDE DEF fetched
    <2>a. restored \in BusState /\ restored.mem = s.mem
      BY <1>0, <2>3, DataStep
    <2> HIDE DEF restored
    <2>6. resumed \in BusState /\ resumed.mem = s.mem
      BY <2>a, CompareStep
    <2> HIDE DEF resumed
    <2>7. CASE size = BYTE
      <3>1. /\ r.line \in Line /\ r.line.address = w /\ r.line.lru = line.lru
            /\ r.line.dirty = 1 /\ r.bus \in BusState /\ r.bus.mem = s.mem
        BY <2>1, <2>5, <2>6, <2>7, WriteLineStep
      <3> QED
        BY <3>1 DEF Obliges, r
    <2>8. CASE size # BYTE
      <3>1. /\ r.line \in Line /\ r.line.address = w /\ r.line.lru = line.lru
            /\ r.line.dirty = 1 /\ r.bus \in BusState /\ r.bus.mem = s.mem
        BY <2>1, <2>2, <2>4, <2>8, WriteLineStep
      <3> QED
        BY <3>1 DEF Obliges, r
    <2> QED
      BY <2>7, <2>8
  <1>2. CASE status = HIT_WRITE
    <2>1. r = WriteLine(line, s, size)
      BY <1>2 DEF write_back_policy
    <2> HIDE DEF r
    <2>2. /\ r.line \in Line /\ r.line.address = line.address /\ r.line.lru = line.lru
          /\ r.line.dirty = 1 /\ r.bus \in BusState /\ r.bus.mem = s.mem
      BY <2>1, WriteLineStep
    <2> QED
      BY <1>2, <2>2 DEF Obliges, Truthful, r
  <1>3. CASE status = MISS_READ
    <2> DEFINE served == ServiceDirty(line, s)
               t == memory_bus(served, READ, WORD)
               x == Compare(t, -MEMORY_ACCESS_CLK_INC)
               clean == [line EXCEPT !.dirty = 0]
               l == Fill(clean, t)
    <2>1. r = ReadLine(l, x, size)
      BY <1>3 DEF write_back_policy
    <2> HIDE DEF r
    <2>2. served \in BusState /\ served.mem = s.mem /\ served.mar = s.mar
      BY ServiceDirtyStep
    <2> HIDE DEF served
    <2>3. t \in BusState /\ t.mar = s.mar /\ t.mem = s.mem /\ t.mbr = s.mem[w]
      BY <2>2, ReadWord
    <2> HIDE DEF t
    <2>4. x \in BusState /\ x.mem = s.mem
      BY <2>3, CompareStep
    <2> HIDE DEF x
    <2>5. clean \in Line /\ clean.lru = line.lru
      BY DEF Line
    <2> HIDE DEF clean
    <2>6. l \in Line /\ l.address = w /\ l.contents = s.mem[w] /\ l.lru = line.lru
      BY <2>3, <2>5, LineStep
    <2> HIDE DEF l
    <2>7. r.line = l /\ r.bus \in BusState /\ r.bus.mem = s.mem
      BY <2>1, <2>4, <2>6, ReadLineStep
    <2> QED
      BY <2>6, <2>7 DEF Obliges, r
  <1>4. CASE status = HIT_READ
    <2>1. r = ReadLine(line, s, size)
      BY <1>4 DEF write_back_policy
    <2> HIDE DEF r
    <2>2. r.line = line /\ r.bus \in BusState /\ r.bus.mem = s.mem
      BY <2>1, ReadLineStep
    <2> QED
      BY <1>4, <2>2 DEF Obliges, Truthful, r
  <1> QED
    BY <1>1, <1>2, <1>3, <1>4

-----------------------------------------------------------------------------
(***************************************************************************)
(* The organisations.                                                      *)
(***************************************************************************)

LEMMA Remainder ==
  ASSUME NEW a \in Nat, NEW n \in Nat \ {0}
  PROVE  a % n \in 0..(n - 1)
  OBVIOUS

LEMMA Quotient ==
  ASSUME NEW a \in Nat, NEW n \in Nat \ {0}
  PROVE  a \div n \in Nat
  OBVIOUS

LEMMA Pages ==
  ASSUME NEW w \in Nat
  PROVE  /\ HybridSlots(w) \subseteq 0..CacheSize
         /\ PageLines - 1 \in 0..(CacheSize - 1)
         /\ Page(w) * PageLines \in HybridSlots(w)
  <1> DEFINE n == CacheSize \div PageLines
             q == w \div PageLines
             p == q % n
  <1>1. n \in Nat /\ CacheSize = PageLines * n /\ q \in Nat
    BY CacheAssumption, Quotient
  <1>2. n # 0
    BY <1>1, CacheAssumption
  <1>3. p \in 0..(n - 1)
    BY <1>1, <1>2, Remainder
  <1> HIDE DEF n, q, p
  <1>4. p * PageLines \in Nat /\ p * PageLines + PageLines <= n * PageLines
    BY <1>1, <1>3, CacheAssumption
  <1>5. PageLines <= n * PageLines
    BY <1>1, <1>2, CacheAssumption
  <1>6. n * PageLines = CacheSize
    BY <1>1, CacheAssumption
  <1>7. Page(w) = p
    BY DEF Page, HybridPages, p, q, n
  <1> QED
    BY <1>4, <1>5, <1>6, <1>7, CacheAssumption DEF HybridSlots

\* The search picks a visited slot, and a hit if one of them is a hit.
LEMMA SearchStep ==
  ASSUME NEW lines, NEW slots, NEW w, NEW limit, NEW c \in Candidates(lines, slots, w, limit)
  PROVE  /\ c \in slots
         /\ lines[c].address = w \/ \A j \in slots : lines[j].address # w
  BY DEF Candidates, First

\* Ageing changes nothing but ages, and keeps them in range.
LEMMA AgedStep ==
  ASSUME NEW D, NEW lines \in [D -> Line], NEW slots, NEW i \in D,
         NEW limit \in 0..MAX_LRU_VALUE
  PROVE  /\ Aged(lines, slots, i, limit) \in [D -> Line]
         /\ \A j \in D : /\ Aged(lines, slots, i, limit)[j].address = lines[j].address
                         /\ Aged(lines, slots, i, limit)[j].contents = lines[j].contents
                         /\ Aged(lines, slots, i, limit)[j].dirty = lines[j].dirty
  <1> DEFINE A == Aged(lines, slots, i, limit)
  <1>1. A = [j \in D |->
               IF j = i THEN [lines[j] EXCEPT !.lru = limit]
               ELSE IF j \in slots /\ lines[j].lru > lines[i].lru
                    THEN [lines[j] EXCEPT !.lru = @ - 1]
               ELSE lines[j]]
    BY DEF Aged
  <1>2. SUFFICES ASSUME NEW j \in D
                 PROVE  /\ A[j] \in Line
                        /\ A[j].address = lines[j].address
                        /\ A[j].contents = lines[j].contents
                        /\ A[j].dirty = lines[j].dirty
    BY <1>1
  <1>3. lines[j] \in Line /\ lines[i] \in Line
    OBVIOUS
  <1>4. MAX_LRU_VALUE \in Nat
    BY CacheAssumption DEF MAX_LRU_VALUE
  <1> HIDE DEF A
  <1>5. CASE j = i
    <2>1. A[j] = [lines[j] EXCEPT !.lru = limit]
      BY <1>1, <1>5
    <2> QED
      BY <2>1, <1>3 DEF Line
  <1>6. CASE j # i /\ j \in slots /\ lines[j].lru > lines[i].lru
    <2>1. A[j] = [lines[j] EXCEPT !.lru = lines[j].lru - 1]
      BY <1>1, <1>6
    <2>2. lines[j].lru - 1 \in 0..MAX_LRU_VALUE
      BY <1>3, <1>4, <1>6 DEF Line
    <2> QED
      BY <2>1, <2>2, <1>3 DEF Line
  <1>7. CASE j # i /\ ~(j \in slots /\ lines[j].lru > lines[i].lru)
    BY <1>1, <1>3, <1>7
  <1> QED
    BY <1>5, <1>6, <1>7

\* The policy applied to the line an organisation found.
LEMMA ApplyStep ==
  ASSUME TypeOK,
         NEW lines, NEW i, lines[i] \in Line,
         NEW mar \in ByteAddr, NEW size \in Sizes, NEW rw \in Kinds, NEW data \in Word
  PROVE  LET r == ApplyPolicy(lines, i, mar, size, rw, data)
             w == WORD_ADDR_CONV(mar)
         IN  /\ r.line \in Line
             /\ r.line.address = w
             /\ r.line.lru = lines[i].lru
             /\ r.bus.mem \in [WordAddr -> Word]
             /\ r.bus.mbr \in Word
             /\ \A v \in WordAddr : v # w => r.bus.mem[v] = memory[v]
             /\ (lines[i].address = w /\ lines[i].dirty = 0 => lines[i].contents = memory[w])
                  => (r.line.dirty = 0 => r.line.contents = r.bus.mem[w])
             /\ cache_options.policy = WRITE_THROUGH => r.line.dirty = lines[i].dirty
  <1> DEFINE w      == WORD_ADDR_CONV(mar)
             line   == lines[i]
             status == (IF line.address = w THEN HIT ELSE MISS) + rw
             start  == [mem |-> memory, mar |-> mar, mbr |-> data, run |-> 0, cmp |-> 0]
             p      == replacement_policy(cache_options.policy, line, start, size, status)
             bus1   == ChargeCache(p.bus)
  <1>1. ApplyPolicy(lines, i, mar, size, rw, data) = [line |-> p.line, bus |-> bus1]
    BY DEF ApplyPolicy, Outcome
  <1>2. start \in BusState /\ start.mem = memory /\ start.mar = mar
    BY DEF BusState, TypeOK
  <1>3. status \in 0..3 /\ (status < MISS <=> line.address = w)
    OBVIOUS
  <1>4. Truthful(line, start, status)
    BY <1>3, <1>2 DEF Truthful
  <1>5. line \in Line
    OBVIOUS
  <1> HIDE DEF start, status, line
  <1>6. /\ Obliges(line, start, status < MISS, p)
        /\ cache_options.policy = WRITE_THROUGH => p.line.dirty = line.dirty
    <2>1. CASE cache_options.policy = WRITE_THROUGH
      BY <2>1, <1>2, <1>3, <1>4, <1>5, WriteThroughStep DEF replacement_policy
    <2>2. CASE cache_options.policy # WRITE_THROUGH
      BY <2>2, <1>2, <1>3, <1>4, <1>5, WriteBackStep DEF replacement_policy
    <2> QED
      BY <2>1, <2>2
  <1> HIDE DEF p
  <1>7. bus1.mem = p.bus.mem /\ bus1.mbr = p.bus.mbr
    BY <1>6 DEF Obliges, ChargeCache, BusState
  <1>8. p.bus.mem \in [WordAddr -> Word] /\ p.bus.mbr \in Word
    BY <1>6, BusFields DEF Obliges
  <1> HIDE DEF bus1
  <1>9. /\ p.line \in Line
        /\ p.line.address = w
        /\ p.line.lru = line.lru
        /\ \A v \in WordAddr : v # w => p.bus.mem[v] = memory[v]
        /\ (line.address = w /\ line.dirty = 0 => line.contents = memory[w])
             => (p.line.dirty = 0 => p.line.contents = p.bus.mem[w])
    BY <1>2, <1>3, <1>6 DEF Obliges
  <1> QED
    BY <1>1, <1>6, <1>7, <1>8, <1>9 DEF line

-----------------------------------------------------------------------------
(***************************************************************************)
(* One cached access, whatever the organisation: line c of the array the   *)
(* code indexes is served, and what is left in the array is "after".       *)
(***************************************************************************)

\* A cached access as each organisation performs it: the slot served is one
\* where the search for the word looks, it maps the word if any slot does, and
\* afterwards the array differs from before in that slot's line and in ages.
Served(D, lines, c, after, mar, size, rw, data) ==
  LET w == WORD_ADDR_CONV(mar)
      r == ApplyPolicy(lines, c, mar, size, rw, data)
  IN  /\ Slots \subseteq D
      /\ lines \in [D -> Line]
      /\ \A i \in Slots : lines[i] = memory_cache[i]
      /\ \A i \in D \ Slots : lines[i].address < DeviceWords
      /\ c \in D
      /\ c \in Slots => c \in SearchSlots(cache_options.mem_org, w)
      /\ \/ lines[c].address = w
         \/ \A j \in Slots : j \in SearchSlots(cache_options.mem_org, w) =>
                               memory_cache[j].address # w
      /\ after \in [D -> Line]
      /\ after[c].address = r.line.address
      /\ after[c].contents = r.line.contents
      /\ after[c].dirty = r.line.dirty
      /\ \A j \in D \ {c} : /\ after[j].address = lines[j].address
                            /\ after[j].contents = lines[j].contents
                            /\ after[j].dirty = lines[j].dirty
      /\ Settle(after, r.bus)

LEMMA ServedType ==
  ASSUME TypeOK, NEW D, NEW lines, NEW c, NEW after,
         NEW mar \in ByteAddr, NEW size \in Sizes, NEW rw \in Kinds, NEW data \in Word,
         Served(D, lines, c, after, mar, size, rw, data)
  PROVE  TypeOK'
  <1> DEFINE r == ApplyPolicy(lines, c, mar, size, rw, data)
  <1>1. lines[c] \in Line
    BY DEF Served
  <1>2. r.bus.mem \in [WordAddr -> Word] /\ r.bus.mbr \in Word
    BY <1>1, ApplyStep
  <1>3. after \in [D -> Line] /\ Slots \subseteq D /\ Settle(after, r.bus)
    BY DEF Served
  <1> HIDE DEF r
  <1>4. memory_cache' \in [Slots -> Line]
    BY <1>3 DEF Settle
  <1> QED
    BY <1>2, <1>3, <1>4 DEF Settle, TypeOK

\* Only the line served maps the word of the access.
LEMMA ServedAlone ==
  ASSUME CacheInvariant, CacheOn,
         NEW D, NEW lines, NEW c, NEW after,
         NEW mar \in ByteAddr, NEW size \in Sizes, NEW rw \in Kinds, NEW data \in Word,
         ~IsDevice(mar),
         Served(D, lines, c, after, mar, size, rw, data)
  PROVE  \A j \in Slots \ {c} : memory_cache[j].address # WORD_ADDR_CONV(mar)
  <1> DEFINE w == WORD_ADDR_CONV(mar)
  <1>1. w \in Nat /\ DeviceWords \in Nat \ {0} /\ ~(w < DeviceWords)
    BY ByteAddress, AddressAssumption DEF IsDevice
  <1>2. /\ \A i \in Slots : lines[i] = memory_cache[i]
        /\ c \in Slots \/ lines[c].address < DeviceWords
        /\ \/ lines[c].address = w
           \/ \A j \in Slots : j \in SearchSlots(cache_options.mem_org, w) =>
                                 memory_cache[j].address # w
    BY DEF Served
  <1> HIDE DEF w
  <1>3. \A i \in Slots : memory_cache[i].address = w =>
          /\ i \in SearchSlots(cache_options.mem_org, w)
          /\ \A j \in Slots : memory_cache[j].address = w => i = j
    BY <1>1 DEF CacheInvariant, Mapped, UniqueMapping, Unmapped
  <1>4. CASE lines[c].address = w
    <2>1. c \in Slots /\ memory_cache[c].address = w
      BY <1>1, <1>2, <1>4
    <2> QED
      BY <2>1, <1>3 DEF w
  <1>5. CASE lines[c].address # w
    BY <1>2, <1>3, <1>5 DEF w
  <1> QED
    BY <1>4, <1>5

\* The heart of the argument: a served access keeps the cache invariant.
LEMMA ServedInvariant ==
  ASSUME TypeOK, CacheInvariant, loaded, CacheOn,
         NEW D, NEW lines, NEW c, NEW after,
         NEW mar \in ByteAddr, NEW size \in Sizes, NEW rw \in Kinds, NEW data \in Word,
         ~IsDevice(mar),
         Served(D, lines, c, after, mar, size, rw, data)
  PROVE  CacheInvariant'
  <1> DEFINE w == WORD_ADDR_CONV(mar)
             r == ApplyPolicy(lines, c, mar, size, rw, data)
  <1>0. w \in WordAddr
    BY ByteAddress
  <1>1. w \in WordAddr /\ w \in Nat /\ w >= DeviceWords
    <2>1. w \in Nat /\ DeviceWords \in Nat
      BY <1>0, AddressAssumption
    <2>2. ~(w < DeviceWords)
      BY DEF IsDevice
    <2> HIDE DEF w
    <2> QED
      BY <1>0, <2>1, <2>2
  <1>2. lines[c] \in Line
    BY DEF Served
  <1>3. /\ r.line \in Line
        /\ r.line.address = w
        /\ \A v \in WordAddr : v # w => r.bus.mem[v] = memory[v]
        /\ (lines[c].address = w /\ lines[c].dirty = 0 => lines[c].contents = memory[w])
             => (r.line.dirty = 0 => r.line.contents = r.bus.mem[w])
        /\ cache_options.policy = WRITE_THROUGH => r.line.dirty = lines[c].dirty
    BY <1>2, ApplyStep
  <1>4. /\ memory' = r.bus.mem
        /\ \A i \in Slots : memory_cache'[i] = after[i]
        /\ cache_options' = cache_options
        /\ loaded' = loaded
    BY DEF Served, Settle
  <1>5. /\ \A i \in Slots : lines[i] = memory_cache[i]
        /\ c \in Slots \/ lines[c].address < DeviceWords
        /\ c \in Slots => c \in SearchSlots(cache_options.mem_org, w)
        /\ \/ lines[c].address = w
           \/ \A j \in Slots : j \in SearchSlots(cache_options.mem_org, w) =>
                                 memory_cache[j].address # w
        /\ after[c].address = r.line.address
        /\ after[c].contents = r.line.contents
        /\ after[c].dirty = r.line.dirty
        /\ \A j \in Slots \ {c} : /\ after[j].address = memory_cache[j].address
                                  /\ after[j].contents = memory_cache[j].contents
                                  /\ after[j].dirty = memory_cache[j].dirty
    BY DEF Served
  <1> HIDE DEF r, w
  <1>6. Unmapped = 0 /\ w # Unmapped
    BY <1>1, AddressAssumption DEF Unmapped
  <1>7. /\ \A i \in Slots : memory_cache[i].address \in WordAddr
        /\ \A i \in Slots : memory_cache[i].address # Unmapped =>
             /\ memory_cache[i].address >= DeviceWords
             /\ i \in SearchSlots(cache_options.mem_org, memory_cache[i].address)
             /\ memory_cache[i].dirty = 0 /\ memory_cache[i].address \notin Exposed =>
                  memory_cache[i].contents = memory[memory_cache[i].address]
        /\ \A i, j \in Slots :
             memory_cache[i].address # Unmapped
               /\ memory_cache[i].address = memory_cache[j].address => i = j
        /\ cache_options.policy = WRITE_THROUGH => \A i \in Slots : memory_cache[i].dirty = 0
    BY DEF CacheInvariant, Mapped, UniqueMapping, CleanLinesConsistent, TypeOK, Line
  <1>8. \A j \in Slots \ {c} : memory_cache[j].address # w
    BY ServedAlone DEF w
  <1>9. c \in Slots =>
          /\ memory_cache'[c].address = w
          /\ memory_cache'[c].dirty = 0 /\ w \notin Exposed =>
               memory_cache'[c].contents = memory'[w]
          /\ cache_options.policy = WRITE_THROUGH => memory_cache'[c].dirty = 0
    <2>1. SUFFICES ASSUME c \in Slots
                   PROVE  /\ memory_cache'[c].address = w
                          /\ memory_cache'[c].dirty = 0 /\ w \notin Exposed =>
                               memory_cache'[c].contents = memory'[w]
                          /\ cache_options.policy = WRITE_THROUGH => memory_cache'[c].dirty = 0
      OBVIOUS
    <2>2. lines[c] = memory_cache[c]
      BY <2>1, <1>5
    <2>3. w \notin Exposed =>
            (lines[c].address = w /\ lines[c].dirty = 0 => lines[c].contents = memory[w])
      BY <2>1, <2>2, <1>6, <1>7
    <2> QED
      BY <2>1, <2>2, <2>3, <1>3, <1>4, <1>5, <1>7
  <1>10. \A j \in Slots \ {c} :
           /\ memory_cache'[j].address = memory_cache[j].address
           /\ memory_cache'[j].contents = memory_cache[j].contents
           /\ memory_cache'[j].dirty = memory_cache[j].dirty
           /\ memory'[memory_cache[j].address] = memory[memory_cache[j].address]
    BY <1>3, <1>4, <1>5, <1>7, <1>8
  <1>11. \A i \in Slots : memory_cache'[i].address # Unmapped =>
           /\ memory_cache'[i].address >= DeviceWords
           /\ i \in SearchSlots(cache_options.mem_org, memory_cache'[i].address)
           /\ memory_cache'[i].dirty = 0 /\ memory_cache'[i].address \notin Exposed =>
                memory_cache'[i].contents = memory'[memory_cache'[i].address]
    <2>1. SUFFICES ASSUME NEW i \in Slots, memory_cache'[i].address # Unmapped
                   PROVE  /\ memory_cache'[i].address >= DeviceWords
                          /\ i \in SearchSlots(cache_options.mem_org, memory_cache'[i].address)
                          /\ memory_cache'[i].dirty = 0
                               /\ memory_cache'[i].address \notin Exposed =>
                               memory_cache'[i].contents = memory'[memory_cache'[i].address]
      OBVIOUS
    <2>2. CASE i = c
      BY <2>1, <2>2, <1>1, <1>5, <1>9
    <2>3. CASE i # c
      BY <2>1, <2>3, <1>7, <1>10
    <2> QED
      BY <2>2, <2>3
  <1>12. \A i, j \in Slots :
           memory_cache'[i].address # Unmapped
             /\ memory_cache'[i].address = memory_cache'[j].address => i = j
    <2>1. SUFFICES ASSUME NEW i \in Slots, NEW j \in Slots,
                          memory_cache'[i].address # Unmapped,
                          memory_cache'[i].address = memory_cache'[j].address
                   PROVE  i = j
      OBVIOUS
    <2>2. CASE i = c \/ j = c
      BY <2>1, <2>2, <1>8, <1>9, <1>10
    <2>3. CASE i # c /\ j # c
      BY <2>1, <2>3, <1>7, <1>10
    <2> QED
      BY <2>2, <2>3
  <1>13. cache_options.policy = WRITE_THROUGH => \A i \in Slots : memory_cache'[i].dirty = 0
    BY <1>7, <1>9, <1>10
  <1>14. loaded' /\ (CacheOn' <=> CacheOn)
    BY <1>4 DEF CacheOn
  <1>15. UniqueMapping'
    BY <1>12 DEF Mapped, UniqueMapping
  <1>16. CleanLinesConsistent'
    BY <1>11 DEF Mapped, CleanLinesConsistent
  <1>17. (\A i \in Slots : Mapped(i) =>
            /\ memory_cache[i].address >= DeviceWords
            /\ i \in SearchSlots(cache_options.mem_org, memory_cache[i].address))'
    BY <1>4, <1>11 DEF Mapped
  <1>18. (CacheOn /\ ~loaded => \A i \in Slots : memory_cache[i] = Blank)'
    BY <1>14
  <1>19. (CacheOn /\ cache_options.policy = WRITE_THROUGH =>
            \A i \in Slots : memory_cache[i].dirty = 0)'
    BY <1>4, <1>13
  <1> QED
    BY <1>15, <1>16, <1>17, <1>18, <1>19 DEF CacheInvariant

-----------------------------------------------------------------------------
(***************************************************************************)
(* Each organisation serves a line in that sense.                          *)
(***************************************************************************)

LEMMA DirectServes ==
  ASSUME TypeOK,
         NEW mar \in ByteAddr, NEW size \in Sizes, NEW rw \in Kinds, NEW data \in Word,
         direct_mapping(mar, size, rw, data)
  PROVE  \E D, lines, c, after : Served(D, lines, c, after, mar, size, rw, data)
  <1> DEFINE w == WORD_ADDR_CONV(mar)
             c == w % CacheSize
             r == ApplyPolicy(memory_cache, c, mar, size, rw, data)
             after == [memory_cache EXCEPT ![c] = r.line]
  <1>1. w \in Nat
    BY ByteAddress, AddressAssumption
  <1> HIDE DEF w
  <1>2. c \in Slots
    BY <1>1, CacheAssumption, Remainder DEF Slots
  <1>3. memory_cache \in [Slots -> Line]
    BY DEF TypeOK
  <1>4. cache_options.mem_org = DIRECT /\ Settle(after, r.bus)
    BY DEF direct_mapping, Cached, w
  <1>5. SearchSlots(cache_options.mem_org, w) = {c}
    BY <1>4 DEF SearchSlots
  <1> HIDE DEF c
  <1>6. r.line \in Line
    BY <1>2, <1>3, ApplyStep
  <1> HIDE DEF r
  <1>7. /\ after \in [Slots -> Line]
        /\ after[c] = r.line
        /\ \A j \in Slots \ {c} : after[j] = memory_cache[j]
    BY <1>2, <1>3, <1>6
  <1> HIDE DEF after
  <1>8. memory_cache[c].address = w
          \/ \A j \in Slots : j \in SearchSlots(cache_options.mem_org, w) =>
                                memory_cache[j].address # w
    BY <1>5
  <1>9. Served(Slots, memory_cache, c, after, mar, size, rw, data)
    BY <1>2, <1>3, <1>4, <1>5, <1>7, <1>8 DEF Served, r, w
  <1> QED
    BY <1>9

\* The same for the organisations that search and age lines.
LEMMA SearchServes ==
  ASSUME TypeOK,
         NEW mar \in ByteAddr, NEW size \in Sizes, NEW rw \in Kinds, NEW data \in Word,
         NEW D, Slots \subseteq D,
         NEW lines \in [D -> Line],
         \A i \in Slots : lines[i] = memory_cache[i],
         \A i \in D \ Slots : lines[i].address < DeviceWords,
         NEW slots \in SUBSET D,
         SearchSlots(cache_options.mem_org, WORD_ADDR_CONV(mar)) = slots,
         NEW limit \in 0..MAX_LRU_VALUE,
         NEW c \in Candidates(lines, slots, WORD_ADDR_CONV(mar), limit),
         Settle(Aged([lines EXCEPT ![c] = ApplyPolicy(lines, c, mar, size, rw, data).line],
                     slots, c, limit),
                ApplyPolicy(lines, c, mar, size, rw, data).bus)
  PROVE  \E after : Served(D, lines, c, after, mar, size, rw, data)
  <1> DEFINE w == WORD_ADDR_CONV(mar)
             r == ApplyPolicy(lines, c, mar, size, rw, data)
             served == [lines EXCEPT ![c] = r.line]
             after == Aged(served, slots, c, limit)
  <1>1. /\ c \in slots /\ c \in D
        /\ lines[c].address = w \/ \A j \in slots : lines[j].address # w
    BY SearchStep
  <1>2. r.line \in Line
    BY <1>1, ApplyStep
  <1>3. Settle(after, r.bus)
    OBVIOUS
  <1> HIDE DEF r, w
  <1>4. /\ served \in [D -> Line]
        /\ served[c] = r.line
        /\ \A j \in D \ {c} : served[j] = lines[j]
    BY <1>1, <1>2
  <1> HIDE DEF served
  <1>5. /\ after \in [D -> Line]
        /\ \A j \in D : /\ after[j].address = served[j].address
                        /\ after[j].contents = served[j].contents
                        /\ after[j].dirty = served[j].dirty
    BY <1>1, <1>4, AgedStep
  <1> HIDE DEF after
  <1>6. lines[c].address = w
          \/ \A j \in Slots : j \in SearchSlots(cache_options.mem_org, w) =>
                                memory_cache[j].address # w
    BY <1>1 DEF w
  <1>7. Served(D, lines, c, after, mar, size, rw, data)
    BY <1>1, <1>3, <1>4, <1>5, <1>6 DEF Served, r, w
  <1> QED
    BY <1>7

LEMMA AssociativeServes ==
  ASSUME TypeOK,
         NEW mar \in ByteAddr, NEW size \in Sizes, NEW rw \in Kinds, NEW data \in Word,
         associative_mapping(mar, size, rw, data)
  PROVE  \E D, lines, c, after : Served(D, lines, c, after, mar, size, rw, data)
  <1> DEFINE w == WORD_ADDR_CONV(mar)
  <1>1. PICK c \in Candidates(memory_cache, Slots, w, MAX_LRU_VALUE) :
          Settle(Aged([memory_cache EXCEPT
                         ![c] = ApplyPolicy(memory_cache, c, mar, size, rw, data).line],
                      Slots, c, MAX_LRU_VALUE),
                 ApplyPolicy(memory_cache, c, mar, size, rw, data).bus)
    BY DEF associative_mapping
  <1>2. memory_cache \in [Slots -> Line] /\ MAX_LRU_VALUE \in 0..MAX_LRU_VALUE
    BY CacheAssumption DEF TypeOK, MAX_LRU_VALUE
  <1>3. SearchSlots(cache_options.mem_org, w) = Slots
    BY DEF associative_mapping, Cached, SearchSlots
  <1>4. \E after : Served(Slots, memory_cache, c, after, mar, size, rw, data)
    BY <1>1, <1>2, <1>3, SearchServes
  <1> QED
    BY <1>4

LEMMA HybridServes ==
  ASSUME TypeOK,
         NEW mar \in ByteAddr, NEW size \in Sizes, NEW rw \in Kinds, NEW data \in Word,
         hybrid_mapping(mar, size, rw, data)
  PROVE  \E D, lines, c, after : Served(D, lines, c, after, mar, size, rw, data)
  <1> DEFINE w == WORD_ADDR_CONV(mar)
             slots == HybridSlots(w)
             Array(behind) ==
               [i \in 0..CacheSize |-> IF i \in Slots THEN memory_cache[i] ELSE behind]
  <1>1. PICK behind \in Overrun :
          \E c \in Candidates(Array(behind), slots, w, MAX_HYBRID_LRU_VALUE) :
            Settle(Aged([Array(behind) EXCEPT
                           ![c] = ApplyPolicy(Array(behind), c, mar, size, rw, data).line],
                        slots, c, MAX_HYBRID_LRU_VALUE),
                   ApplyPolicy(Array(behind), c, mar, size, rw, data).bus)
    BY DEF hybrid_mapping
  <1> DEFINE lines == Array(behind)
  <1>2. w \in Nat
    BY ByteAddress, AddressAssumption
  <1>3. Slots \subseteq 0..CacheSize /\ slots \in SUBSET (0..CacheSize)
    BY <1>2, Pages, CacheAssumption DEF Slots
  <1>4. MAX_HYBRID_LRU_VALUE \in 0..MAX_LRU_VALUE
    BY <1>2, Pages DEF MAX_HYBRID_LRU_VALUE, MAX_LRU_VALUE
  <1>5. behind \in Line /\ behind.address < DeviceWords
    BY OverrunAssumption
  <1>6. /\ lines \in [0..CacheSize -> Line]
        /\ \A i \in Slots : lines[i] = memory_cache[i]
        /\ \A i \in (0..CacheSize) \ Slots : lines[i].address < DeviceWords
    BY <1>3, <1>5 DEF TypeOK
  <1>7. SearchSlots(cache_options.mem_org, w) = slots
    BY DEF hybrid_mapping, Cached, SearchSlots
  <1>8. PICK c \in Candidates(lines, slots, w, MAX_HYBRID_LRU_VALUE) :
          Settle(Aged([lines EXCEPT ![c] = ApplyPolicy(lines, c, mar, size, rw, data).line],
                      slots, c, MAX_HYBRID_LRU_VALUE),
                 ApplyPolicy(lines, c, mar, size, rw, data).bus)
    BY <1>1
  <1> HIDE DEF lines, slots
  <1>9. \E after : Served(0..CacheSize, lines, c, after, mar, size, rw, data)
    BY <1>3, <1>4, <1>6, <1>7, <1>8, SearchServes
  <1> QED
    BY <1>9

-----------------------------------------------------------------------------
(***************************************************************************)
(* Type correctness.                                                       *)
(***************************************************************************)

LEMMA InputsType ==
  ASSUME TypeOK, NEW rw \in Kinds
  PROVE  Inputs(rw) \subseteq Word
  BY DataAssumption DEF Inputs, TypeOK

LEMMA BusType ==
  ASSUME TypeOK,
         NEW mar \in ByteAddr, NEW size \in Sizes, NEW rw \in Kinds, NEW data \in Word,
         bus(mar, size, rw, data)
  PROVE  TypeOK'
  <1>1. CASE uncached_access(mar, size, rw, data)
    <2> DEFINE s == [mem |-> memory, mar |-> mar, mbr |-> data, run |-> 0, cmp |-> 0]
               t == memory_bus(s, size, rw)
    <2>1. s \in BusState
      BY DEF BusState, TypeOK
    <2>2. Settle(memory_cache, t)
      BY <1>1 DEF uncached_access
    <2> HIDE DEF s
    <2>3. t \in BusState
      BY <2>1, BusStep
    <2> HIDE DEF t
    <2> QED
      BY <2>2, <2>3 DEF Settle, TypeOK, BusState
  <1>2. CASE port_access(mar, size, rw, data)
    <2> DEFINE w == WORD_ADDR_CONV(mar)
    <2>1. w \in WordAddr /\ memory[w] \in Word
      BY ByteAddress DEF TypeOK
    <2>2. memory' \in [WordAddr -> Word]
      BY <1>2, <2>1, DataAssumption DEF port_access, TypeOK
    <2>3. MBR' \in Word
      BY <1>2, <2>1, GetPutType DEF port_access
    <2>4. UNCHANGED <<memory_cache, cache_options, loaded>>
      BY <1>2 DEF port_access
    <2> QED
      BY <2>2, <2>3, <2>4 DEF TypeOK
  <1>3. CASE \E D, lines, c, after : Served(D, lines, c, after, mar, size, rw, data)
    BY <1>3, ServedType
  <1> QED
    BY <1>1, <1>2, <1>3, DirectServes, AssociativeServes, HybridServes DEF bus

LEMMA BlankType == Blank \in Line
  BY ZeroType, AddressAssumption, CacheAssumption DEF Blank, Line, Unmapped, MAX_LRU_VALUE

LEMMA ServiceType ==
  ASSUME TypeOK, Service
  PROVE  TypeOK'
  <1>1. ASSUME NEW w \in WordAddr, NEW word \in Data, device_update(w, word)
        PROVE  TypeOK'
    BY <1>1, DataAssumption DEF device_update, TypeOK
  <1>2. CASE toggle_cache
    BY <1>2, BlankType DEF toggle_cache, TypeOK
  <1>3. ASSUME NEW org \in Organisations, change_cache_org(org)
        PROVE  TypeOK'
    BY <1>3, MenuAssumption DEF change_cache_org, TypeOK
  <1>4. CASE toggle_policy
    BY <1>4 DEF toggle_policy, TypeOK
  <1>5. ASSUME NEW image \in Images, NEW named \in BOOLEAN, loader(image, named)
        PROVE  TypeOK'
    <2>1. PICK ws \in SUBSET WordAddr : image \in [ws -> Word]
      BY ImageAssumption
    <2>2. memory' \in [WordAddr -> Word]
      BY <1>5, <2>1 DEF loader, Overlay, TypeOK
    <2> QED
      BY <1>5, <2>2 DEF loader, TypeOK
  <1>6. CASE close_program
    BY <1>6, ZeroType DEF close_program, ResetOptions, TypeOK
  <1>7. ASSUME NEW mar \in ByteAddr, NEW data \in Data, change_mem_content(mar, data)
        PROVE  TypeOK'
    <2> DEFINE w == WORD_ADDR_CONV(mar)
    <2>1. w \in WordAddr /\ memory[w] \in Word /\ data \in Word
      BY ByteAddress, DataAssumption DEF TypeOK
    <2>2. Put(memory[w], mar, BYTE, data) \in Word
      BY <2>1, GetPutType
    <2>3. memory' = [memory EXCEPT ![w] = Put(memory[w], mar, BYTE, data)]
      BY <1>7 DEF change_mem_content
    <2>4. memory' \in [WordAddr -> Word]
      BY <2>1, <2>2, <2>3 DEF TypeOK
    <2> QED
      BY <1>7, <2>4 DEF change_mem_content, TypeOK
  <1> QED
    BY <1>1, <1>2, <1>3, <1>4, <1>5, <1>6, <1>7, Zenon DEF Service

\* In every reachable state of the bus, the cache and the debugger services,
\* with any of the debugger services in use, the variables have their types: no
\* line's age runs below zero or above its limit in any organisation, and no
\* access leaves the array.
THEOREM TypeCorrect == Spec => []TypeOK
  <1>1. Init => TypeOK
    <2> SUFFICES ASSUME Init
                 PROVE  TypeOK
      OBVIOUS
    <2>1. memory \in [WordAddr -> Word] /\ memory_cache \in [Slots -> Line]
      BY ZeroType, BlankType DEF Init
    <2>2. /\ cache_options \in [op_control : {OFF, ON},
                                mem_org    : {DIRECT, ASSOCIATIVE, HYBRID},
                                policy     : {WRITE_THROUGH, WRITE_BACK}]
          /\ loaded \in BOOLEAN
          /\ MBR \in Word
      BY ZeroType DEF Init, ResetOptions
    <2> QED
      BY <2>1, <2>2 DEF TypeOK
  <1>2. TypeOK /\ [Next]_vars => TypeOK'
    <2> SUFFICES ASSUME TypeOK, [Next]_vars
                 PROVE  TypeOK'
      OBVIOUS
    <2>1. ASSUME NEW mar \in ByteAddr, NEW size \in Sizes, NEW rw \in Kinds,
                 NEW data \in Inputs(rw), bus(mar, size, rw, data)
          PROVE  TypeOK'
      BY <2>1, BusType, InputsType
    <2>2. CASE Service
      BY <2>2, ServiceType
    <2>3. CASE UNCHANGED vars
      BY <2>3 DEF vars, TypeOK
    <2> QED
      BY <2>1, <2>2, <2>3 DEF Next
  <1> QED
    BY <1>1, <1>2, PTL DEF Spec

-----------------------------------------------------------------------------
(***************************************************************************)
(* Consistency, without the debugger's opcode test.  The memory editor and  *)
(* a load over a program change exposed words only.                        *)
(***************************************************************************)

\* A change of memory behind the cache: a port word is never a mapped one, and
\* nothing is claimed of the lines of exposed words.
LEMMA BehindInvariant ==
  ASSUME TypeOK, CacheInvariant,
         \A w \in WordAddr : w >= DeviceWords /\ w \notin Exposed => memory'[w] = memory[w],
         UNCHANGED <<memory_cache, cache_options>>,
         loaded => loaded'
  PROVE  CacheInvariant'
  <1>1. CacheOn' <=> CacheOn
    BY DEF CacheOn
  <1>2. \A i \in Slots : Mapped(i) /\ memory_cache[i].address \notin Exposed =>
          memory'[memory_cache[i].address] = memory[memory_cache[i].address]
    BY DEF CacheInvariant, TypeOK, Line
  <1>3. \A i \in Slots : Mapped(i)' <=> Mapped(i)
    BY <1>1 DEF Mapped
  <1>4. CleanLinesConsistent'
    BY <1>2, <1>3 DEF CacheInvariant, CleanLinesConsistent
  <1>5. UniqueMapping'
    BY <1>3 DEF CacheInvariant, UniqueMapping
  <1>6. (\A i \in Slots : Mapped(i) =>
           /\ memory_cache[i].address >= DeviceWords
           /\ i \in SearchSlots(cache_options.mem_org, memory_cache[i].address))'
    BY <1>3 DEF CacheInvariant
  <1>7. (CacheOn /\ ~loaded => \A i \in Slots : memory_cache[i] = Blank)'
    BY <1>1 DEF CacheInvariant
  <1>8. (CacheOn /\ cache_options.policy = WRITE_THROUGH =>
           \A i \in Slots : memory_cache[i].dirty = 0)'
    BY <1>1 DEF CacheInvariant
  <1> QED
    BY <1>4, <1>5, <1>6, <1>7, <1>8 DEF CacheInvariant

LEMMA BusInvariant ==
  ASSUME "opcode_test" \notin Features, TypeOK, CacheInvariant,
         NEW mar \in ByteAddr, NEW size \in Sizes, NEW rw \in Kinds, NEW data \in Word,
         bus(mar, size, rw, data)
  PROVE  CacheInvariant'
  <1>0. loaded
    BY DEF bus, uncached_access, port_access, direct_mapping, associative_mapping,
           hybrid_mapping, Cached, CanExecute
  <1>1. CASE uncached_access(mar, size, rw, data)
    <2>1. ~CacheOn /\ UNCHANGED cache_options
      BY <1>1 DEF uncached_access, CacheOn, Settle
    <2> QED
      BY <2>1 DEF CacheInvariant, CacheOn, Mapped, UniqueMapping, CleanLinesConsistent
  <1>2. CASE port_access(mar, size, rw, data)
    <2> DEFINE w == WORD_ADDR_CONV(mar)
    <2>1. w < DeviceWords /\ UNCHANGED <<memory_cache, cache_options, loaded>>
          /\ \E word \in Data : memory' = [memory EXCEPT ![w] = word]
      BY <1>2 DEF port_access, IsDevice
    <2>2. w \in WordAddr /\ w \in Nat
      BY ByteAddress, AddressAssumption
    <2>3. \A v \in WordAddr : v >= DeviceWords => memory'[v] = memory[v]
      BY <2>1, <2>2, AddressAssumption DEF TypeOK
    <2> QED
      BY <2>1, <2>3, BehindInvariant
  <1>3. CASE /\ CacheOn /\ ~IsDevice(mar)
             /\ \E D, lines, c, after : Served(D, lines, c, after, mar, size, rw, data)
    BY <1>0, <1>3, ServedInvariant
  <1>4. ASSUME direct_mapping(mar, size, rw, data) \/ associative_mapping(mar, size, rw, data)
                 \/ hybrid_mapping(mar, size, rw, data)
        PROVE  CacheOn /\ ~IsDevice(mar)
    BY <1>4 DEF direct_mapping, associative_mapping, hybrid_mapping, Cached, CacheOn
  <1> QED
    BY <1>1, <1>2, <1>3, <1>4, DirectServes, AssociativeServes, HybridServes DEF bus

\* An empty cache satisfies everything.
LEMMA BlankInvariant ==
  (CacheOn => \A i \in Slots : memory_cache[i] = Blank) => CacheInvariant
  <1> SUFFICES ASSUME CacheOn => \A i \in Slots : memory_cache[i] = Blank
               PROVE  CacheInvariant
    OBVIOUS
  <1>1. \A i \in Slots : ~Mapped(i)
    BY DEF Mapped, Blank
  <1>2. CacheOn => \A i \in Slots : memory_cache[i].dirty = 0
    BY DEF Blank
  <1> QED
    BY <1>1, <1>2 DEF CacheInvariant, UniqueMapping, CleanLinesConsistent

LEMMA BlankInvariantNext ==
  (CacheOn => \A i \in Slots : memory_cache[i] = Blank)' => CacheInvariant'
  BY BlankInvariant, PTL

LEMMA ServiceInvariant ==
  ASSUME "opcode_test" \notin Features, TypeOK, CacheInvariant, Service
  PROVE  CacheInvariant'
  <1>1. ASSUME NEW w \in WordAddr, NEW word \in Data, device_update(w, word)
        PROVE  CacheInvariant'
    <2>1. \A v \in WordAddr : v >= DeviceWords => memory'[v] = memory[v]
      BY <1>1, AddressAssumption DEF device_update, TypeOK
    <2> QED
      BY <1>1, <2>1, BehindInvariant DEF device_update
  \* The menu, and a load while no program is loaded, leave a cache that is off
  \* or empty.
  <1>2. ASSUME (CacheOn => \A i \in Slots : memory_cache[i] = Blank)'
        PROVE  CacheInvariant'
    BY <1>2, BlankInvariantNext
  <1>3. ~loaded /\ CacheOn => \A i \in Slots : memory_cache[i] = Blank
    BY DEF CacheInvariant
  <1>4. CASE toggle_cache
    BY <1>2, <1>4 DEF toggle_cache
  <1>5. ASSUME NEW org \in Organisations, change_cache_org(org)
        PROVE  CacheInvariant'
    BY <1>2, <1>3, <1>5 DEF change_cache_org, CacheOn, TypeOK
  <1>6. CASE toggle_policy
    BY <1>2, <1>3, <1>6 DEF toggle_policy, CacheOn, TypeOK
  <1>7. ASSUME NEW image \in Images, NEW named \in BOOLEAN, loader(image, named)
        PROVE  CacheInvariant'
    <2>1. CASE ~loaded
      BY <2>1, <1>2, <1>3, <1>7 DEF loader, CacheOn
    <2>2. CASE loaded
      <3>1. DOMAIN image \subseteq Exposed
        BY <2>2, <1>7 DEF loader, Exposed
      <3>2. \A w \in WordAddr : w \notin Exposed => memory'[w] = memory[w]
        BY <3>1, <1>7 DEF loader, Overlay
      <3> QED
        BY <2>2, <3>2, <1>7, BehindInvariant DEF loader
    <2> QED
      BY <2>1, <2>2
  <1>8. CASE close_program
    BY <1>2, <1>8 DEF close_program, CacheOn, ResetOptions
  <1>9. ASSUME NEW mar \in ByteAddr, NEW data \in Data, change_mem_content(mar, data)
        PROVE  CacheInvariant'
    <2>1. WORD_ADDR_CONV(mar) \in Exposed
      BY <1>9 DEF change_mem_content, Exposed
    <2>2. \A w \in WordAddr : w \notin Exposed => memory'[w] = memory[w]
      BY <2>1, <1>9 DEF change_mem_content, TypeOK
    <2> QED
      BY <2>2, <1>9, BehindInvariant DEF change_mem_content
  <1> QED
    BY <1>1, <1>4, <1>5, <1>6, <1>7, <1>8, <1>9, Zenon DEF Service

\* Without the opcode test, a cache that is on is empty until a program is loaded,
\* keeps every mapped word where the search for it looks and nowhere else, and
\* keeps its clean lines equal to memory, save for the words changed behind it.
THEOREM CacheInvariantHolds ==
  ASSUME "opcode_test" \notin Features
  PROVE  Spec => []CacheInvariant
  <1>1. Init => CacheInvariant
    BY BlankInvariant DEF Init, CacheOn, ResetOptions
  <1>2. TypeOK /\ CacheInvariant /\ [Next]_vars => CacheInvariant'
    <2> SUFFICES ASSUME TypeOK, CacheInvariant, [Next]_vars
                 PROVE  CacheInvariant'
      OBVIOUS
    <2>1. ASSUME NEW mar \in ByteAddr, NEW size \in Sizes, NEW rw \in Kinds,
                 NEW data \in Inputs(rw), bus(mar, size, rw, data)
          PROVE  CacheInvariant'
      BY <2>1, BusInvariant, InputsType
    <2>2. CASE Service
      BY <2>2, ServiceInvariant
    <2>3. CASE UNCHANGED vars
      BY <2>3 DEF vars, CacheInvariant, CacheOn, Mapped, UniqueMapping, CleanLinesConsistent
    <2> QED
      BY <2>1, <2>2, <2>3 DEF Next
  <1> QED
    BY <1>1, <1>2, TypeCorrect, PTL DEF Spec

\* Write-through "will always be consistent with primary memory": for every size
\* of cache, page and memory, every organisation, and however the settings and
\* programs change.
THEOREM WriteThroughCorrect ==
  ASSUME "opcode_test" \notin Features
  PROVE  Spec => []WriteThroughConsistent
  <1>1. CacheInvariant => WriteThroughConsistent
    BY DEF CacheInvariant, CleanLinesConsistent, WriteThroughConsistent, Mapped
  <1> QED
    BY <1>1, CacheInvariantHolds, PTL

\* No word is ever in two lines of the cache, in any organisation.
THEOREM UniqueMappingCorrect ==
  ASSUME "opcode_test" \notin Features
  PROVE  Spec => []UniqueMapping
  <1>1. CacheInvariant => UniqueMapping
    BY DEF CacheInvariant
  <1> QED
    BY <1>1, CacheInvariantHolds, PTL

\* A clean line that maps a word nobody changed behind the cache may be dropped at
\* once: memory holds the same word, under write-back too.
THEOREM CleanLinesCorrect ==
  ASSUME "opcode_test" \notin Features
  PROVE  Spec => []CleanLinesConsistent
  <1>1. CacheInvariant => CleanLinesConsistent
    BY DEF CacheInvariant
  <1> QED
    BY <1>1, CacheInvariantHolds, PTL

-----------------------------------------------------------------------------
(***************************************************************************)
(* EditsContained: what goes wrong behind the cache stays where it happened. *)
(***************************************************************************)

\* A word write leaves a line that is dirty or holds what memory holds.
LEMMA WordWritePolicy ==
  ASSUME NEW line \in Line, NEW s \in BusState, NEW status \in {HIT_WRITE, MISS_WRITE},
         NEW policy, status = HIT_WRITE => line.address = WORD_ADDR_CONV(s.mar)
  PROVE  LET r == replacement_policy(policy, line, s, WORD, status)
         IN  r.line.dirty = 0 => r.line.contents = r.bus.mem[WORD_ADDR_CONV(s.mar)]
  <1> DEFINE w == WORD_ADDR_CONV(s.mar)
             r == write_through_policy(line, s, WORD, status)
             b == write_back_policy(line, s, WORD, status)
             t == memory_bus(s, WORD, WRITE)
  <1>1. t \in BusState /\ t.mar = s.mar /\ t.mem[w] = s.mbr
    BY BusStep DEF Put
  <1> HIDE DEF t
  <1>2. CASE status = HIT_WRITE
    <2>1. r = [line |-> Store(line, s, WORD), bus |-> t]
      BY <1>2 DEF write_through_policy, Outcome, t
    <2>3. Store(line, s, WORD).contents = s.mbr
      BY LineStep DEF Put
    <2>2. b.line.dirty = 1
      BY <1>2, WriteLineStep DEF write_back_policy
    <2> HIDE DEF r, b
    <2> QED
      BY <1>1, <2>1, <2>2, <2>3 DEF replacement_policy, r, b
  <1>3. CASE status = MISS_WRITE
    <2> DEFINE u == memory_bus(t, WORD, READ)
    <2>1. u \in BusState /\ u.mem = t.mem /\ u.mbr = t.mem[w]
      BY <1>1, ReadWord
    <2>2. r = [line |-> Fill(line, u), bus |-> Compare(u, -MEMORY_ACCESS_CLK_INC)]
      BY <1>3 DEF write_through_policy, Outcome, t
    <2> HIDE DEF u, r
    <2>3. Fill(line, u).contents = t.mem[w] /\ Compare(u, -MEMORY_ACCESS_CLK_INC).mem = t.mem
      BY <2>1, LineStep, CompareStep
    <2>4. r.line.contents = r.bus.mem[w]
      BY <2>2, <2>3
    <2> DEFINE served == [ServiceDirty(line, s) EXCEPT !.mbr = s.mbr]
               mapped == [line EXCEPT !.address = w]
    <2>5. b = WriteLine(mapped, served, WORD)
      BY <1>3 DEF write_back_policy
    <2>6. served \in BusState
      BY ServiceDirtyStep, DataStep, BusFields
    <2>7. mapped \in Line
      BY BusFields DEF Line
    <2> HIDE DEF b, served, mapped
    <2>8. b.line.dirty = 1
      BY <2>5, <2>6, <2>7, WriteLineStep
    <2> QED
      BY <2>4, <2>8 DEF replacement_policy, r, b
  <1> QED
    BY <1>2, <1>3

LEMMA WordWriteStep ==
  ASSUME TypeOK, NEW lines, NEW i, lines[i] \in Line,
         NEW mar \in ByteAddr, NEW data \in Word
  PROVE  LET r == ApplyPolicy(lines, i, mar, WORD, WRITE, data)
         IN  r.line.dirty = 0 => r.line.contents = r.bus.mem[WORD_ADDR_CONV(mar)]
  <1> DEFINE line   == lines[i]
             status == (IF line.address = WORD_ADDR_CONV(mar) THEN HIT ELSE MISS) + WRITE
             start  == [mem |-> memory, mar |-> mar, mbr |-> data, run |-> 0, cmp |-> 0]
             p      == replacement_policy(cache_options.policy, line, start, WORD, status)
             bus1   == ChargeCache(p.bus)
  <1>1. ApplyPolicy(lines, i, mar, WORD, WRITE, data) = [line |-> p.line, bus |-> bus1]
    BY DEF ApplyPolicy, Outcome
  <1>2. start \in BusState /\ start.mar = mar
    BY DEF BusState, TypeOK
  <1>3. /\ status \in {HIT_WRITE, MISS_WRITE} /\ line \in Line
        /\ status = HIT_WRITE => line.address = WORD_ADDR_CONV(mar)
    OBVIOUS
  <1>4. \A s \in BusState : ChargeCache(s).mem = s.mem
    BY DEF ChargeCache, BusState
  <1> HIDE DEF start, status, line
  <1>5. p.line.dirty = 0 => p.line.contents = p.bus.mem[WORD_ADDR_CONV(mar)]
    BY <1>2, <1>3, WordWritePolicy
  <1>6. p.bus \in BusState
    <2>1. status \in 0..3 /\ Truthful(line, start, status)
      BY <1>2, <1>3 DEF Truthful
    <2> HIDE DEF p
    <2>2. CASE cache_options.policy = WRITE_THROUGH
      BY <1>2, <1>3, <2>1, <2>2, WriteThroughStep DEF replacement_policy, Obliges, p
    <2>3. CASE cache_options.policy # WRITE_THROUGH
      BY <1>2, <1>3, <2>1, <2>3, WriteBackStep DEF replacement_policy, Obliges, p
    <2> QED
      BY <2>2, <2>3
  <1> HIDE DEF p
  <1> QED
    BY <1>1, <1>4, <1>5, <1>6

\* A served access makes no word stale, and a word write heals its word.
LEMMA ServedStale ==
  ASSUME TypeOK, CacheInvariant, CacheOn,
         NEW D, NEW lines, NEW c, NEW after,
         NEW mar \in ByteAddr, NEW size \in Sizes, NEW rw \in Kinds, NEW data \in Word,
         ~IsDevice(mar),
         Served(D, lines, c, after, mar, size, rw, data),
         NEW v \in WordAddr, Stale(v)'
  PROVE  Stale(v) /\ ~(v = WORD_ADDR_CONV(mar) /\ size = WORD /\ rw = WRITE)
  <1> DEFINE w == WORD_ADDR_CONV(mar)
             r == ApplyPolicy(lines, c, mar, size, rw, data)
  <1>1. lines[c] \in Line
    BY DEF Served
  <1>2. /\ \A u \in WordAddr : u # w => r.bus.mem[u] = memory[u]
        /\ r.line.address = w
        /\ (lines[c].address = w /\ lines[c].dirty = 0 => lines[c].contents = memory[w])
             => (r.line.dirty = 0 => r.line.contents = r.bus.mem[w])
    BY <1>1, ApplyStep
  <1>3. size = WORD /\ rw = WRITE => (r.line.dirty = 0 => r.line.contents = r.bus.mem[w])
    BY <1>1, WordWriteStep
  <1>4. /\ memory' = r.bus.mem
        /\ \A i \in Slots : memory_cache'[i] = after[i]
        /\ cache_options' = cache_options
        /\ \A i \in Slots : lines[i] = memory_cache[i]
        /\ c \in Slots \/ lines[c].address < DeviceWords
        /\ after[c].address = r.line.address
        /\ after[c].contents = r.line.contents
        /\ after[c].dirty = r.line.dirty
        /\ \A j \in Slots \ {c} : /\ after[j].address = memory_cache[j].address
                                  /\ after[j].contents = memory_cache[j].contents
                                  /\ after[j].dirty = memory_cache[j].dirty
    BY DEF Served, Settle
  <1>5. \A j \in Slots \ {c} : memory_cache[j].address # w
    BY ServedAlone
  <1>6. w \in Nat /\ DeviceWords \in Nat \ {0} /\ ~(w < DeviceWords)
    BY ByteAddress, AddressAssumption DEF IsDevice
  <1> HIDE DEF r, w
  <1>7. PICK i \in Slots :
          /\ memory_cache'[i].address # Unmapped /\ memory_cache'[i].dirty = 0
          /\ memory_cache'[i].address = v /\ memory_cache'[i].contents # memory'[v]
    BY DEF Stale, Mapped
  <1>8. CASE i # c
    <2>1. /\ memory_cache[i].address = v /\ memory_cache[i].dirty = 0
          /\ memory_cache[i].contents # memory[v] /\ v # w /\ v # Unmapped
      BY <1>2, <1>4, <1>5, <1>7, <1>8
    <2> QED
      BY <2>1 DEF Stale, Mapped, w
  <1>9. CASE i = c
    <2>1. v = w /\ r.line.dirty = 0 /\ r.line.contents # r.bus.mem[w]
      BY <1>2, <1>4, <1>7, <1>9
    <2>2. lines[c].address = w /\ lines[c].dirty = 0 /\ lines[c].contents # memory[w]
      BY <2>1, <1>2
    <2>3. Stale(v)
      BY <2>1, <2>2, <1>4, <1>7, <1>9 DEF Stale, Mapped
    <2> QED
      BY <2>1, <2>3, <1>3
  <1> QED
    BY <1>8, <1>9

LEMMA BusStale ==
  ASSUME TypeOK, CacheInvariant,
         NEW mar \in ByteAddr, NEW size \in Sizes, NEW rw \in Kinds, NEW data \in Word,
         bus(mar, size, rw, data),
         NEW v \in WordAddr, Stale(v)'
  PROVE  Stale(v) /\ ~(v = WORD_ADDR_CONV(mar) /\ size = WORD /\ rw = WRITE)
  <1>1. CASE uncached_access(mar, size, rw, data)
    <2>1. ~CacheOn'
      BY <1>1 DEF uncached_access, CacheOn, Settle
    <2> QED
      BY <2>1 DEF Stale, Mapped
  <1>2. CASE port_access(mar, size, rw, data)
    <2> DEFINE w == WORD_ADDR_CONV(mar)
    <2>1. w < DeviceWords /\ UNCHANGED <<memory_cache, cache_options>>
          /\ \E word \in Data : memory' = [memory EXCEPT ![w] = word]
      BY <1>2 DEF port_access, IsDevice
    <2>2. w \in WordAddr /\ w \in Nat
      BY ByteAddress, AddressAssumption
    <2> HIDE DEF w
    <2>3. PICK i \in Slots :
            /\ Mapped(i)' /\ memory_cache'[i].dirty = 0
            /\ memory_cache'[i].address = v /\ memory_cache'[i].contents # memory'[v]
      BY DEF Stale
    <2>4. Mapped(i) /\ memory_cache[i].address = v /\ v >= DeviceWords
      BY <2>1, <2>3 DEF Mapped, CacheOn, CacheInvariant
    <2>5. v # w /\ memory'[v] = memory[v]
      BY <2>1, <2>2, <2>4, AddressAssumption DEF TypeOK
    <2> QED
      BY <2>1, <2>3, <2>4, <2>5 DEF Stale, w
  <1>3. CASE /\ CacheOn /\ ~IsDevice(mar)
             /\ \E D, lines, c, after : Served(D, lines, c, after, mar, size, rw, data)
    BY <1>3, ServedStale
  <1>4. ASSUME direct_mapping(mar, size, rw, data) \/ associative_mapping(mar, size, rw, data)
                 \/ hybrid_mapping(mar, size, rw, data)
        PROVE  CacheOn /\ ~IsDevice(mar)
    BY <1>4 DEF direct_mapping, associative_mapping, hybrid_mapping, Cached, CacheOn
  <1> QED
    BY <1>1, <1>2, <1>3, <1>4, DirectServes, AssociativeServes, HybridServes DEF bus

\* Of the rest, only an edit and a load change memory behind a line.
LEMMA ServiceStale ==
  ASSUME TypeOK, CacheInvariant, Service,
         ~\E mar \in ByteAddr, data \in Data : change_mem_content(mar, data),
         ~\E image \in Images, named \in BOOLEAN : loader(image, named),
         NEW v \in WordAddr, Stale(v)'
  PROVE  Stale(v)
  <1>1. ASSUME (CacheOn => \A i \in Slots : memory_cache[i] = Blank)'
        PROVE  FALSE
    BY <1>1 DEF Stale, Mapped, Blank
  <1>2. ~loaded /\ CacheOn => \A i \in Slots : memory_cache[i] = Blank
    BY DEF CacheInvariant
  <1>3. ASSUME NEW w \in WordAddr, NEW word \in Data, device_update(w, word)
        PROVE  Stale(v)
    <2>1. /\ w < DeviceWords /\ UNCHANGED <<memory_cache, cache_options>>
          /\ memory' = [memory EXCEPT ![w] = word]
      BY <1>3 DEF device_update
    <2>2. PICK i \in Slots :
            /\ Mapped(i)' /\ memory_cache'[i].dirty = 0
            /\ memory_cache'[i].address = v /\ memory_cache'[i].contents # memory'[v]
      BY DEF Stale
    <2>3. Mapped(i) /\ memory_cache[i].address = v /\ v >= DeviceWords
      BY <2>1, <2>2 DEF Mapped, CacheOn, CacheInvariant
    <2>4. v # w /\ memory'[v] = memory[v]
      BY <2>1, <2>3, AddressAssumption DEF TypeOK
    <2> QED
      BY <2>1, <2>2, <2>3, <2>4 DEF Stale
  <1>4. CASE toggle_cache
    BY <1>1, <1>4 DEF toggle_cache
  <1>5. ASSUME NEW org \in Organisations, change_cache_org(org)
        PROVE  Stale(v)
    BY <1>1, <1>2, <1>5 DEF change_cache_org, CacheOn, TypeOK
  <1>6. CASE toggle_policy
    BY <1>1, <1>2, <1>6 DEF toggle_policy, CacheOn, TypeOK
  <1>7. CASE close_program
    BY <1>1, <1>7 DEF close_program, CacheOn, ResetOptions
  <1> QED
    BY <1>3, <1>4, <1>5, <1>6, <1>7, Zenon DEF Service

\* Whatever accesses, replacements and settings follow an edit or a load behind the
\* cache, no other word goes stale, and a word write heals its word, in every
\* organisation and under both policies (change_mem_content, loader, bus).
THEOREM EditsStayContained ==
  ASSUME "opcode_test" \notin Features
  PROVE  Spec => EditsContained
  <1> DEFINE Contained(v) ==
        /\ Stale(v)' /\ ~Stale(v) =>
             \/ \E mar \in ByteAddr, data \in Data : change_mem_content(mar, data)
             \/ \E image \in Images, named \in BOOLEAN : loader(image, named)
        /\ Stale(v)' /\ Stale(v) =>
             ~\E data \in Data : bus(BYTE_ADDR_CONV(v), WORD, WRITE, data)
  <1>1. ASSUME TypeOK, CacheInvariant, Next, NEW v \in WordAddr
        PROVE  Contained(v)
    <2>1. ASSUME Stale(v)', NEW data \in Data, bus(BYTE_ADDR_CONV(v), WORD, WRITE, data)
          PROVE  FALSE
      <3>1. BYTE_ADDR_CONV(v) \in ByteAddr /\ WORD_ADDR_CONV(BYTE_ADDR_CONV(v)) = v
        BY LineAddress
      <3>2. data \in Word
        BY DataAssumption
      <3> QED
        BY <1>1, <2>1, <3>1, <3>2, BusStale
    <2>2. ASSUME Stale(v)', NEW mar \in ByteAddr, NEW size \in Sizes, NEW rw \in Kinds,
                 NEW data \in Inputs(rw), bus(mar, size, rw, data)
          PROVE  Stale(v)
      BY <1>1, <2>2, InputsType, BusStale
    <2>3. ASSUME Stale(v)', Service, ~Stale(v)
          PROVE  \/ \E mar \in ByteAddr, data \in Data : change_mem_content(mar, data)
                 \/ \E image \in Images, named \in BOOLEAN : loader(image, named)
      BY <1>1, <2>3, ServiceStale
    <2> QED
      BY <1>1, <2>1, <2>2, <2>3 DEF Next
  <1>2. TypeOK /\ CacheInvariant /\ [Next]_vars =>
          [\A w \in WordAddr :
             /\ Stale(w)' /\ ~Stale(w) =>
                  \/ \E mar \in ByteAddr, data \in Data : change_mem_content(mar, data)
                  \/ \E image \in Images, named \in BOOLEAN : loader(image, named)
             /\ Stale(w)' /\ Stale(w) =>
                  ~\E data \in Data : bus(BYTE_ADDR_CONV(w), WORD, WRITE, data)]_vars
    BY <1>1
  <1> HIDE DEF Contained
  <1> QED
    BY <1>2, TypeCorrect, CacheInvariantHolds, PTL DEF Spec, EditsContained

-----------------------------------------------------------------------------
(***************************************************************************)
(* The two clocks.                                                         *)
(***************************************************************************)

Total(s) == s.run + s.cmp

LEMMA TotalType == ASSUME NEW s \in BusState PROVE Total(s) \in Int
  BY DEF Total, BusState

LEMMA BusTotal ==
  ASSUME NEW s \in BusState, NEW size \in Sizes, NEW rw \in Kinds
  PROVE  Total(memory_bus(s, size, rw)) = Total(s) + 3
  <1> DEFINE t == memory_bus(s, size, rw)
  <1>1. s.run \in Int /\ s.cmp \in Int
    BY DEF BusState
  <1>2. t.run = s.run + 3 /\ t.cmp = s.cmp
    BY BusStep
  <1> HIDE DEF t
  <1> QED BY <1>1, <1>2 DEF Total, t

LEMMA CompareTotal ==
  ASSUME NEW s \in BusState, NEW clk \in Int
  PROVE  Total(Compare(s, clk)) = Total(s) + clk
  BY DEF Total, Compare, BusState

LEMMA ReadLineTotal ==
  ASSUME NEW line \in Line, NEW s \in BusState, NEW size \in Sizes
  PROVE  Total(ReadLine(line, s, size).bus) = Total(s) + 3
  <1> DEFINE t == [s EXCEPT !.mbr = Get(line.contents, s.mar, size)]
  <1>1. Get(line.contents, s.mar, size) \in Word
    BY BusFields, GetPutType DEF Line
  <1>2. t \in BusState /\ t.run = s.run /\ t.cmp = s.cmp
    BY <1>1 DEF BusState
  <1>3. ReadLine(line, s, size).bus = Compare(t, MEMORY_ACCESS_CLK_INC)
    BY DEF ReadLine, Outcome
  <1> HIDE DEF t
  <1>4. Total(Compare(t, MEMORY_ACCESS_CLK_INC)) = Total(t) + 3
    BY <1>2, CompareTotal
  <1> QED BY <1>2, <1>3, <1>4 DEF Total

LEMMA WriteLineTotal ==
  ASSUME NEW line, NEW s \in BusState, NEW size \in Sizes
  PROVE  Total(WriteLine(line, s, size).bus) = Total(s) + 3
  <1>1. WriteLine(line, s, size).bus = Compare(s, MEMORY_ACCESS_CLK_INC)
    BY DEF WriteLine, Outcome
  <1> QED BY <1>1, CompareTotal

\* Servicing a dirty line costs the program a memory access that the machine
\* without cache does not make.
LEMMA ServiceDirtyTotal ==
  ASSUME NEW line \in Line, NEW s \in BusState
  PROVE  Total(ServiceDirty(line, s)) = Total(s)
  <1>1. CASE line.dirty = 0
    BY <1>1 DEF ServiceDirty
  <1>2. CASE line.dirty # 0
    <2> DEFINE r == [s EXCEPT !.mar = BYTE_ADDR_CONV(line.address), !.mbr = line.contents]
               t == memory_bus(r, WRITE, WORD)
               u == [t EXCEPT !.mar = s.mar]
    <2>1. r \in BusState /\ Total(r) = Total(s)
      BY LineAddress DEF Line, BusState, Total
    <2> HIDE DEF r
    <2>2. t \in BusState /\ Total(t) = Total(s) + 3
      BY <2>1, BusStep, BusTotal
    <2> HIDE DEF t
    <2>3. u \in BusState /\ Total(u) = Total(t)
      BY <2>2 DEF BusState, Total
    <2> HIDE DEF u
    <2>4. ServiceDirty(line, s) = Compare(u, -MEMORY_ACCESS_CLK_INC)
      BY <1>2 DEF ServiceDirty, r, t, u
    <2>5. Total(Compare(u, -MEMORY_ACCESS_CLK_INC)) = Total(u) - 3
      BY <2>3, CompareTotal, TotalType
    <2> QED
      BY <2>2, <2>3, <2>4, <2>5, TotalType
  <1> QED
    BY <1>1, <1>2

LEMMA WriteThroughTotal ==
  ASSUME NEW line \in Line, NEW s \in BusState, NEW size \in Sizes, NEW status \in 0..3
  PROVE  Total(write_through_policy(line, s, size, status).bus) = Total(s) + 3
  <1> DEFINE r == write_through_policy(line, s, size, status)
  <1>0. Total(s) \in Int /\ -MEMORY_ACCESS_CLK_INC \in Int
    BY TotalType
  <1>1. CASE status = MISS_WRITE
    <2> DEFINE t == memory_bus(s, size, WRITE)
               u == memory_bus(t, WORD, READ)
    <2>1. r.bus = Compare(u, -MEMORY_ACCESS_CLK_INC)
      BY <1>1 DEF write_through_policy, Outcome
    <2> HIDE DEF r
    <2>2. t \in BusState /\ Total(t) = Total(s) + 3
      BY BusStep, BusTotal
    <2> HIDE DEF t
    <2>3. u \in BusState /\ Total(u) = Total(t) + 3
      BY <2>2, BusStep, BusTotal
    <2> HIDE DEF u
    <2> QED BY <1>0, <2>1, <2>2, <2>3, CompareTotal DEF r
  <1>2. CASE status = HIT_WRITE
    <2>1. r.bus = memory_bus(s, size, WRITE)
      BY <1>2 DEF write_through_policy, Outcome
    <2> QED BY <2>1, BusTotal
  <1>3. CASE status = MISS_READ
    <2> DEFINE t == memory_bus(s, WORD, READ)
               x == Compare(t, -MEMORY_ACCESS_CLK_INC)
               l == Fill(line, t)
    <2>1. r = ReadLine(l, x, size)
      BY <1>3 DEF write_through_policy
    <2> HIDE DEF r
    <2>2. t \in BusState /\ Total(t) = Total(s) + 3
      BY BusStep, BusTotal
    <2> HIDE DEF t
    <2>3. x \in BusState /\ Total(x) = Total(t) - 3 /\ l \in Line
      BY <1>0, <2>2, CompareStep, CompareTotal, TotalType, LineStep
    <2> HIDE DEF x, l
    <2>4. Total(r.bus) = Total(x) + 3
      BY <2>1, <2>3, ReadLineTotal
    <2> QED BY <1>0, <2>2, <2>3, <2>4 DEF r
  <1>4. CASE status = HIT_READ
    <2>1. r = ReadLine(line, s, size)
      BY <1>4 DEF write_through_policy
    <2> QED BY <2>1, ReadLineTotal
  <1> QED
    BY <1>1, <1>2, <1>3, <1>4

LEMMA WriteBackTotal ==
  ASSUME NEW line \in Line, NEW s \in BusState, NEW size \in Sizes, NEW status \in 0..3
  PROVE  Total(write_back_policy(line, s, size, status).bus) = Total(s) + 3
  <1> DEFINE r == write_back_policy(line, s, size, status)
  <1>0. Total(s) \in Int /\ -MEMORY_ACCESS_CLK_INC \in Int /\ s.mbr \in Word
    BY TotalType, BusFields
  <1>1. CASE status = MISS_WRITE
    <2> DEFINE done   == ServiceDirty(line, s)
               served == [done EXCEPT !.mbr = s.mbr]
               read   == memory_bus(served, READ, WORD)
               mapped == [line EXCEPT !.address = WORD_ADDR_CONV(s.mar)]
               fetched == [mapped EXCEPT !.contents = read.mbr]
               restored == [read EXCEPT !.mbr = s.mbr]
               resumed == Compare(restored, -MEMORY_ACCESS_CLK_INC)
    <2>1. r = IF size = BYTE THEN WriteLine(fetched, resumed, size)
              ELSE WriteLine(mapped, served, size)
      BY <1>1 DEF write_back_policy
    <2> HIDE DEF r
    <2>2. done \in BusState /\ Total(done) = Total(s)
      BY ServiceDirtyStep, ServiceDirtyTotal
    <2> HIDE DEF done
    <2>3. served \in BusState /\ Total(served) = Total(s)
      BY <1>0, <2>2 DEF BusState, Total
    <2> HIDE DEF served
    <2>4. read \in BusState /\ Total(read) = Total(s) + 3
      BY <2>3, BusStep, BusTotal
    <2> HIDE DEF read
    <2>5. restored \in BusState /\ Total(restored) = Total(read)
      BY <1>0, <2>4 DEF BusState, Total
    <2> HIDE DEF restored
    <2>6. resumed \in BusState /\ Total(resumed) = Total(restored) - 3
      BY <1>0, <2>5, CompareStep, CompareTotal, TotalType
    <2> HIDE DEF resumed, mapped, fetched
    <2>7. CASE size = BYTE
      <3>1. r = WriteLine(fetched, resumed, size)
        BY <2>1, <2>7
      <3>2. Total(r.bus) = Total(resumed) + 3
        BY <2>6, <3>1, WriteLineTotal
      <3> QED BY <1>0, <2>4, <2>5, <2>6, <3>2 DEF r
    <2>8. CASE size # BYTE
      <3>1. r = WriteLine(mapped, served, size)
        BY <2>1, <2>8
      <3>2. Total(r.bus) = Total(served) + 3
        BY <2>3, <3>1, WriteLineTotal
      <3> QED BY <2>3, <3>2 DEF r
    <2> QED BY <2>7, <2>8
  <1>2. CASE status = HIT_WRITE
    <2>1. r = WriteLine(line, s, size)
      BY <1>2 DEF write_back_policy
    <2> QED BY <2>1, WriteLineTotal
  <1>3. CASE status = MISS_READ
    <2> DEFINE served == ServiceDirty(line, s)
               t == memory_bus(served, READ, WORD)
               x == Compare(t, -MEMORY_ACCESS_CLK_INC)
               clean == [line EXCEPT !.dirty = 0]
               l == Fill(clean, t)
    <2>1. r = ReadLine(l, x, size)
      BY <1>3 DEF write_back_policy
    <2> HIDE DEF r
    <2>2. served \in BusState /\ Total(served) = Total(s)
      BY ServiceDirtyStep, ServiceDirtyTotal
    <2> HIDE DEF served
    <2>3. t \in BusState /\ Total(t) = Total(s) + 3
      BY <2>2, BusStep, BusTotal
    <2> HIDE DEF t
    <2>4. x \in BusState /\ Total(x) = Total(t) - 3
      BY <1>0, <2>3, CompareStep, CompareTotal, TotalType
    <2> HIDE DEF x
    <2>5. clean \in Line
      BY DEF Line
    <2> HIDE DEF clean
    <2>6. l \in Line
      BY <2>3, <2>5, LineStep
    <2> HIDE DEF l
    <2>7. Total(r.bus) = Total(x) + 3
      BY <2>1, <2>4, <2>6, ReadLineTotal
    <2> QED BY <1>0, <2>3, <2>4, <2>7 DEF r
  <1>4. CASE status = HIT_READ
    <2>1. r = ReadLine(line, s, size)
      BY <1>4 DEF write_back_policy
    <2> QED BY <2>1, ReadLineTotal
  <1> QED
    BY <1>1, <1>2, <1>3, <1>4

LEMMA AccessTotal ==
  ASSUME TypeOK, NEW i \in Slots, NEW mar \in ByteAddr, NEW size \in Sizes, NEW rw \in Kinds
  PROVE  LET s == ApplyPolicy(memory_cache, i, mar, size, rw, MBR).bus
         IN  s.run + s.cmp = MEMORY_ACCESS_CLK_INC
  <1> DEFINE line   == memory_cache[i]
             status == (IF line.address = WORD_ADDR_CONV(mar) THEN HIT ELSE MISS) + rw
             start  == [mem |-> memory, mar |-> mar, mbr |-> MBR, run |-> 0, cmp |-> 0]
             p      == replacement_policy(cache_options.policy, line, start, size, status)
  <1>1. ApplyPolicy(memory_cache, i, mar, size, rw, MBR).bus = ChargeCache(p.bus)
    BY DEF ApplyPolicy, Outcome
  <1>2. start \in BusState /\ Total(start) = 0 /\ start.mar = mar
    BY DEF BusState, TypeOK, Total
  <1>3. status \in 0..3 /\ line \in Line /\ Truthful(line, start, status)
    BY DEF TypeOK, Truthful
  <1> HIDE DEF start, status, line
  <1>4. p.bus \in BusState /\ Total(p.bus) = 3
    <2>1. CASE cache_options.policy = WRITE_THROUGH
      BY <2>1, <1>2, <1>3, WriteThroughStep, WriteThroughTotal DEF replacement_policy, Obliges
    <2>2. CASE cache_options.policy # WRITE_THROUGH
      BY <2>2, <1>2, <1>3, WriteBackStep, WriteBackTotal DEF replacement_policy, Obliges
    <2> QED BY <2>1, <2>2
  <1> DEFINE b == p.bus
  <1>5. b \in BusState /\ Total(b) = 3
    BY <1>4
  <1>6. ApplyPolicy(memory_cache, i, mar, size, rw, MBR).bus = ChargeCache(b)
    BY <1>1
  <1> HIDE DEF b
  <1>7. /\ ChargeCache(b).run = b.run + 1 /\ ChargeCache(b).cmp = b.cmp - 1
        /\ b.run \in Int /\ b.cmp \in Int
    BY <1>5 DEF ChargeCache, BusState
  <1> QED BY <1>5, <1>6, <1>7 DEF Total

\* sys_clk and comparison_clk together advance by one memory access for every access
\* through the cache: each hand-made correction, in either policy, on every hit, miss
\* and serviced line, is right, for any line in any state.
THEOREM ClockAccountingCorrect == Spec => []ClockAccounting
  <1>1. TypeOK => ClockAccounting
    BY AccessTotal DEF ClockAccounting
  <1> QED
    BY <1>1, TypeCorrect, PTL

-----------------------------------------------------------------------------
(***************************************************************************)
(* Reads.                                                                  *)
(***************************************************************************)

\* A read gives what the line holds on a hit and what memory holds on a miss, under
\* both policies: servicing a dirty line changes no memory.
LEMMA PolicyReads ==
  ASSUME NEW policy, NEW line \in Line, NEW s \in BusState, NEW size \in Sizes,
         NEW status \in {HIT_READ, MISS_READ}
  PROVE  replacement_policy(policy, line, s, size, status).bus.mbr =
           Get(IF status = HIT_READ THEN line.contents ELSE s.mem[WORD_ADDR_CONV(s.mar)],
               s.mar, size)
  <1> DEFINE w == WORD_ADDR_CONV(s.mar)
             r == replacement_policy(policy, line, s, size, status)
  <1>1. CASE status = HIT_READ
    <2>1. r = ReadLine(line, s, size)
      BY <1>1 DEF replacement_policy, write_through_policy, write_back_policy
    <2> QED BY <1>1, <2>1, ReadLineStep
  <1>2. CASE status = MISS_READ /\ policy = WRITE_THROUGH
    <2> DEFINE t == memory_bus(s, WORD, READ)
               x == Compare(t, -MEMORY_ACCESS_CLK_INC)
               l == Fill(line, t)
    <2>1. r = ReadLine(l, x, size)
      BY <1>2 DEF replacement_policy, write_through_policy
    <2> HIDE DEF r
    <2>2. t \in BusState /\ t.mar = s.mar /\ t.mbr = s.mem[w]
      BY BusStep DEF Get
    <2> HIDE DEF t
    <2>3. x \in BusState /\ x.mar = s.mar
      BY <2>2, CompareStep
    <2> HIDE DEF x
    <2>4. l \in Line /\ l.contents = s.mem[w]
      BY <2>2, LineStep
    <2> HIDE DEF l
    <2>5. r.bus.mbr = Get(l.contents, x.mar, size)
      BY <2>1, <2>3, <2>4, ReadLineStep
    <2> QED BY <1>2, <2>3, <2>4, <2>5 DEF r
  <1>3. CASE status = MISS_READ /\ policy # WRITE_THROUGH
    <2> DEFINE served == ServiceDirty(line, s)
               t == memory_bus(served, READ, WORD)
               x == Compare(t, -MEMORY_ACCESS_CLK_INC)
               clean == [line EXCEPT !.dirty = 0]
               l == Fill(clean, t)
    <2>1. r = ReadLine(l, x, size)
      BY <1>3 DEF replacement_policy, write_back_policy
    <2> HIDE DEF r
    <2>2. served \in BusState /\ served.mem = s.mem /\ served.mar = s.mar
      BY ServiceDirtyStep
    <2> HIDE DEF served
    <2>3. t \in BusState /\ t.mar = s.mar /\ t.mem = s.mem /\ t.mbr = s.mem[w]
      <3>1. t \in BusState /\ t.mar = served.mar /\ t.mem = served.mem
        BY <2>2, BusStep DEF Sizes, Kinds, READ, WORD
      <3>2. t.mbr = Get(served.mem[WORD_ADDR_CONV(served.mar)], served.mar, READ)
        BY <2>2, BusStep DEF Sizes, Kinds, READ, WORD
      <3> QED
        BY <2>2, <3>1, <3>2 DEF Get, READ, WORD
    <2> HIDE DEF t
    <2>4. x \in BusState /\ x.mar = s.mar
      BY <2>3, CompareStep
    <2> HIDE DEF x
    <2>5. clean \in Line
      BY DEF Line
    <2> HIDE DEF clean
    <2>6. l \in Line /\ l.contents = s.mem[w]
      BY <2>3, <2>5, LineStep
    <2> HIDE DEF l
    <2>7. r.bus.mbr = Get(l.contents, x.mar, size)
      BY <2>1, <2>4, <2>6, ReadLineStep
    <2> QED BY <1>3, <2>4, <2>6, <2>7 DEF r
  <1> QED
    BY <1>1, <1>2, <1>3

\* The same for an access as the organisations make it.
LEMMA AccessReads ==
  ASSUME TypeOK, NEW lines, NEW i, lines[i] \in Line,
         NEW mar \in ByteAddr, NEW size \in Sizes, NEW data \in Word
  PROVE  LET w == WORD_ADDR_CONV(mar)
         IN  ApplyPolicy(lines, i, mar, size, READ, data).bus.mbr =
               Get(IF lines[i].address = w THEN lines[i].contents ELSE memory[w], mar, size)
  <1> DEFINE w      == WORD_ADDR_CONV(mar)
             line   == lines[i]
             status == (IF line.address = w THEN HIT ELSE MISS) + READ
             start  == [mem |-> memory, mar |-> mar, mbr |-> data, run |-> 0, cmp |-> 0]
             p      == replacement_policy(cache_options.policy, line, start, size, status)
  <1>1. ApplyPolicy(lines, i, mar, size, READ, data).bus = ChargeCache(p.bus)
    BY DEF ApplyPolicy, Outcome
  <1>2. start \in BusState /\ start.mem = memory /\ start.mar = mar
    BY DEF BusState, TypeOK
  <1>3. /\ status \in {HIT_READ, MISS_READ} /\ status \in 0..3
        /\ line \in Line /\ Truthful(line, start, status)
        /\ status = HIT_READ <=> line.address = w
    BY DEF Truthful
  <1> HIDE DEF start, status, line
  <1>4. p.bus \in BusState
    <2>1. CASE cache_options.policy = WRITE_THROUGH
      BY <2>1, <1>2, <1>3, WriteThroughStep DEF replacement_policy, Obliges
    <2>2. CASE cache_options.policy # WRITE_THROUGH
      BY <2>2, <1>2, <1>3, WriteBackStep DEF replacement_policy, Obliges
    <2> QED BY <2>1, <2>2
  <1>5. p.bus.mbr = Get(IF status = HIT_READ THEN line.contents ELSE memory[w], mar, size)
    BY <1>2, <1>3, PolicyReads
  <1> HIDE DEF p
  <1>6. ChargeCache(p.bus).mbr = p.bus.mbr
    BY <1>4 DEF ChargeCache, BusState
  <1> QED
    BY <1>1, <1>3, <1>5, <1>6 DEF line

\* In direct and associative mapping, under either policy, the next read of any byte or
\* word returns what the machine holds at that address, in whichever line or in memory:
\* the line the search ends on maps the word, or none does (direct_mapping,
\* associative_mapping).
THEOREM ReadsCorrect ==
  ASSUME "opcode_test" \notin Features
  PROVE  Spec => []ReadsReturnView
  <1>1. TypeOK /\ CacheInvariant => ReadsReturnView
    <2> SUFFICES ASSUME TypeOK, CacheInvariant,
                        NEW mar \in ByteAddr, NEW size \in Sizes,
                        CacheOn, cache_options.mem_org # HYBRID, ~IsDevice(mar),
                        NEW i \in IF cache_options.mem_org = DIRECT
                                  THEN {WORD_ADDR_CONV(mar) % CacheSize}
                                  ELSE Candidates(memory_cache, Slots, WORD_ADDR_CONV(mar),
                                                  MAX_LRU_VALUE)
                 PROVE  ApplyPolicy(memory_cache, i, mar, size, READ, MBR).bus.mbr =
                          Get(View[WORD_ADDR_CONV(mar)], mar, size)
      BY DEF ReadsReturnView
    <2> DEFINE w == WORD_ADDR_CONV(mar)
    <2>1. w \in WordAddr /\ w \in Nat /\ w # Unmapped
      <3>1. w \in WordAddr /\ ~(w < DeviceWords)
        BY ByteAddress DEF IsDevice
      <3> HIDE DEF w
      <3> QED BY <3>1, AddressAssumption DEF Unmapped
    <2>2. /\ i \in Slots
          /\ memory_cache[i].address = w \/ \A j \in Slots : Mapped(j) => memory_cache[j].address # w
      <3> HIDE DEF w
      <3>1. CASE cache_options.mem_org = DIRECT
        <4>1. i = w % CacheSize
          BY <3>1 DEF w
        <4>2. i \in Slots
          BY <2>1, <4>1, CacheAssumption, Remainder DEF Slots
        <4>3. ASSUME NEW j \in Slots, Mapped(j), memory_cache[j].address = w
              PROVE  j = i
          <5>1. j \in SearchSlots(cache_options.mem_org, memory_cache[j].address)
            BY <4>3 DEF CacheInvariant
          <5> QED BY <3>1, <4>1, <4>3, <5>1 DEF SearchSlots
        <4> QED BY <4>2, <4>3
      <3>2. CASE cache_options.mem_org # DIRECT
        BY <3>2, SearchStep DEF w
      <3> QED BY <3>1, <3>2
    <2>3. View[w] = IF memory_cache[i].address = w THEN memory_cache[i].contents ELSE memory[w]
      <3> HIDE DEF w
      <3>1. CASE memory_cache[i].address = w
        <4>1. Mapped(i)
          BY <2>1, <3>1 DEF Mapped
        <4>2. \A j \in Slots : Mapped(j) /\ memory_cache[j].address = w => j = i
          BY <2>2, <3>1, <4>1 DEF CacheInvariant, UniqueMapping
        <4>3. (CHOOSE j \in Slots : Mapped(j) /\ memory_cache[j].address = w) = i
          BY <2>2, <3>1, <4>1, <4>2
        <4> QED BY <2>1, <2>2, <3>1, <4>1, <4>3 DEF View
      <3>2. CASE memory_cache[i].address # w
        BY <2>1, <2>2, <3>2 DEF View
      <3> QED BY <3>1, <3>2
    <2>4. memory_cache[i] \in Line /\ MBR \in Word
      BY <2>2 DEF TypeOK
    <2> QED
      BY <2>3, <2>4, AccessReads
  <1> QED
    BY <1>1, TypeCorrect, CacheInvariantHolds, PTL

-----------------------------------------------------------------------------
(***************************************************************************)
(* The write-through cache implements flat memory: the refinement          *)
(* ImplementsFlatMemory of MemoryCache, for every size of cache, page and  *)
(* memory, and every organisation.                                         *)
(***************************************************************************)

\* The menu offers write-through only, and nobody writes memory behind the cache.
WriteThroughOnly ==
  /\ Policies \subseteq {WRITE_THROUGH}
  /\ Edited = {}
  /\ Features = {}

\* Memory after a write that reaches it.
Written(mem, mar, size, data) ==
  [mem EXCEPT ![WORD_ADDR_CONV(mar)] = Put(@, mar, size, data)]

\* What the policy of a line does to memory and to the data register: a read leaves
\* memory alone, a write puts the data there and, on a miss, reads the word back.
LEMMA WriteThroughBus ==
  ASSUME NEW line \in Line, NEW s \in BusState, NEW size \in Sizes, NEW status \in 0..3
  PROVE  LET t == write_through_policy(line, s, size, status).bus
         IN  /\ t \in BusState
             /\ status \in {HIT_READ, MISS_READ} => t.mem = s.mem
             /\ status \in {HIT_WRITE, MISS_WRITE} =>
                  /\ t.mem = Written(s.mem, s.mar, size, s.mbr)
                  /\ t.mbr \in {s.mbr, t.mem[WORD_ADDR_CONV(s.mar)]}
  <1> DEFINE w == WORD_ADDR_CONV(s.mar)
             r == write_through_policy(line, s, size, status)
  <1>0. w \in WordAddr /\ s.mem \in [WordAddr -> Word] /\ s.mbr \in Word
    BY BusFields
  <1>1. ASSUME NEW t \in BusState, t = memory_bus(s, size, WRITE)
        PROVE  /\ t.mem = [s.mem EXCEPT ![w] = Put(@, s.mar, size, s.mbr)]
               /\ t.mbr = s.mbr /\ t.mar = s.mar
    <2>1. /\ t.mem[w] = Put(s.mem[w], s.mar, size, s.mbr)
          /\ \A v \in WordAddr : v # w => t.mem[v] = s.mem[v]
          /\ t.mbr = s.mbr /\ t.mar = s.mar
      BY <1>1, BusStep
    <2>2. t.mem \in [WordAddr -> Word]
      BY BusFields
    <2> QED
      BY <2>1, <2>2, <1>0
  <1>2. CASE status = MISS_WRITE
    <2> DEFINE t == memory_bus(s, size, WRITE)
               u == memory_bus(t, WORD, READ)
               x == Compare(u, -MEMORY_ACCESS_CLK_INC)
    <2>1. r.bus = x
      BY <1>2 DEF write_through_policy, Outcome
    <2>2. t \in BusState
      BY BusStep
    <2>3. /\ t.mem = [s.mem EXCEPT ![w] = Put(@, s.mar, size, s.mbr)]
          /\ t.mar = s.mar
      BY <2>2, <1>1
    <2> HIDE DEF t, r
    <2>4. u \in BusState /\ u.mem = t.mem /\ u.mbr = t.mem[w]
      BY <2>2, <2>3, ReadWord
    <2> HIDE DEF u
    <2>5. x \in BusState /\ x.mem = t.mem /\ x.mbr = t.mem[w]
      BY <2>4, CompareStep
    <2> HIDE DEF x
    <2>6. /\ r.bus \in BusState
          /\ r.bus.mem = [s.mem EXCEPT ![w] = Put(@, s.mar, size, s.mbr)]
          /\ r.bus.mbr \in {s.mbr, r.bus.mem[w]}
      BY <2>1, <2>3, <2>5
    <2> QED
      BY <1>2, <2>6 DEF r, Written
  <1>3. CASE status = HIT_WRITE
    <2> DEFINE t == memory_bus(s, size, WRITE)
    <2>1. r.bus = t
      BY <1>3 DEF write_through_policy, Outcome
    <2>2. t \in BusState
      BY BusStep
    <2>3. /\ t.mem = [s.mem EXCEPT ![w] = Put(@, s.mar, size, s.mbr)]
          /\ t.mbr = s.mbr
      BY <2>2, <1>1
    <2> HIDE DEF t, r
    <2> QED
      BY <1>3, <2>1, <2>2, <2>3 DEF r, Written
  <1>4. CASE status = MISS_READ
    <2> DEFINE t == memory_bus(s, WORD, READ)
               x == Compare(t, -MEMORY_ACCESS_CLK_INC)
               l == Fill(line, t)
    <2>1. r = ReadLine(l, x, size)
      BY <1>4 DEF write_through_policy
    <2> HIDE DEF r
    <2>2. t \in BusState /\ t.mem = s.mem
      BY BusStep
    <2> HIDE DEF t
    <2>3. x \in BusState /\ x.mem = s.mem
      BY <2>2, CompareStep
    <2>4. l \in Line
      BY <2>2, LineStep
    <2> HIDE DEF x, l
    <2>5. r.bus \in BusState /\ r.bus.mem = s.mem
      BY <2>1, <2>3, <2>4, ReadLineStep
    <2> QED
      BY <1>4, <2>5 DEF r
  <1>5. CASE status = HIT_READ
    <2>1. r = ReadLine(line, s, size)
      BY <1>5 DEF write_through_policy
    <2> HIDE DEF r
    <2>2. r.bus \in BusState /\ r.bus.mem = s.mem
      BY <2>1, ReadLineStep
    <2> QED
      BY <1>5, <2>2 DEF r
  <1> QED
    BY <1>2, <1>3, <1>4, <1>5

\* The same for an access as the organisations make it.
LEMMA WriteThroughAccess ==
  ASSUME TypeOK, cache_options.policy = WRITE_THROUGH,
         NEW lines, NEW i, lines[i] \in Line,
         NEW mar \in ByteAddr, NEW size \in Sizes, NEW rw \in Kinds, NEW data \in Word
  PROVE  LET w == WORD_ADDR_CONV(mar)
             t == ApplyPolicy(lines, i, mar, size, rw, data).bus
         IN  /\ rw = READ => t.mem = memory
             /\ rw = WRITE => /\ t.mem = [memory EXCEPT ![w] = Put(@, mar, size, data)]
                              /\ t.mbr \in {data, t.mem[w]}
  <1> DEFINE w      == WORD_ADDR_CONV(mar)
             line   == lines[i]
             status == (IF line.address = w THEN HIT ELSE MISS) + rw
             start  == [mem |-> memory, mar |-> mar, mbr |-> data, run |-> 0, cmp |-> 0]
             p      == write_through_policy(line, start, size, status)
  <1>1. ApplyPolicy(lines, i, mar, size, rw, data).bus = ChargeCache(p.bus)
    BY DEF ApplyPolicy, Outcome, replacement_policy
  <1>2. start \in BusState /\ start.mem = memory /\ start.mar = mar /\ start.mbr = data
    BY DEF BusState, TypeOK
  <1>3. /\ status \in 0..3 /\ line \in Line
        /\ rw = READ => status \in {HIT_READ, MISS_READ}
        /\ rw = WRITE => status \in {HIT_WRITE, MISS_WRITE}
    OBVIOUS
  <1> HIDE DEF start, status, line
  <1>4. /\ p.bus \in BusState
        /\ rw = READ => p.bus.mem = memory
        /\ rw = WRITE => /\ p.bus.mem = [memory EXCEPT ![w] = Put(@, mar, size, data)]
                         /\ p.bus.mbr \in {data, p.bus.mem[w]}
    <2> DEFINE v == WORD_ADDR_CONV(start.mar)
    <2>0. line \in Line /\ start \in BusState /\ size \in Sizes /\ status \in 0..3
      BY <1>2, <1>3
    <2>1. /\ p.bus \in BusState
          /\ status \in {HIT_READ, MISS_READ} => p.bus.mem = start.mem
          /\ status \in {HIT_WRITE, MISS_WRITE} =>
               /\ p.bus.mem = Written(start.mem, start.mar, size, start.mbr)
               /\ p.bus.mbr \in {start.mbr, p.bus.mem[v]}
      BY ONLY <2>0, WriteThroughBus
    <2> HIDE DEF p
    <2> QED
      BY <1>2, <1>3, <2>1 DEF Written
  <1> HIDE DEF p
  <1>5. ChargeCache(p.bus).mem = p.bus.mem /\ ChargeCache(p.bus).mbr = p.bus.mbr
    BY <1>4 DEF ChargeCache, BusState
  <1> QED
    BY <1>1, <1>4, <1>5

-----------------------------------------------------------------------------
\* Why the cache cannot be seen: every mapped line holds what memory holds.
Transparent ==
  /\ TypeOK
  /\ CacheInvariant
  /\ cache_options.policy = WRITE_THROUGH

LEMMA ViewIsMemory ==
  ASSUME WriteThroughOnly, Transparent
  PROVE  View = memory
  <1>1. Exposed = {}
    BY DEF WriteThroughOnly, Exposed
  <1>2. memory = [w \in WordAddr |-> memory[w]]
    BY DEF Transparent, TypeOK
  <1>3. ASSUME NEW w \in WordAddr, \E i \in Slots : Mapped(i) /\ memory_cache[i].address = w
        PROVE  memory_cache[CHOOSE i \in Slots : Mapped(i) /\ memory_cache[i].address = w].contents
                 = memory[w]
    <2> DEFINE i == CHOOSE j \in Slots : Mapped(j) /\ memory_cache[j].address = w
    <2>1. i \in Slots /\ Mapped(i) /\ memory_cache[i].address = w
      BY <1>3
    <2> HIDE DEF i
    <2>2. memory_cache[i].dirty = 0
      BY <2>1 DEF Transparent, CacheInvariant, Mapped
    <2>3. memory_cache[i].contents = memory[w]
      BY <2>1, <2>2, <1>1 DEF Transparent, CacheInvariant, CleanLinesConsistent
    <2> QED BY <2>3 DEF i
  <1> QED
    BY <1>2, <1>3 DEF View

LEMMA ViewIsMemoryNext ==
  ASSUME WriteThroughOnly
  PROVE  Transparent' => (View = memory)'
  <1>1. Transparent => View = memory
    BY ViewIsMemory
  <1> QED
    BY <1>1, PTL

THEOREM TransparentHolds ==
  ASSUME WriteThroughOnly
  PROVE  Spec => []Transparent
  <1>1. Init => cache_options.policy = WRITE_THROUGH
    BY DEF Init, ResetOptions
  <1>2. cache_options.policy = WRITE_THROUGH /\ TypeOK /\ [Next]_vars
          => (cache_options.policy = WRITE_THROUGH)'
    <2> SUFFICES ASSUME cache_options.policy = WRITE_THROUGH, TypeOK, [Next]_vars
                 PROVE  cache_options'.policy = WRITE_THROUGH
      OBVIOUS
    <2>1. ASSUME NEW mar \in ByteAddr, NEW size \in Sizes, NEW rw \in Kinds,
                 NEW data \in Inputs(rw), bus(mar, size, rw, data)
          PROVE  UNCHANGED cache_options
      BY <2>1 DEF bus, uncached_access, port_access, direct_mapping, associative_mapping,
             hybrid_mapping, Settle
    <2>2. CASE Service
      <3>1. CASE toggle_policy
        BY <3>1 DEF toggle_policy, WriteThroughOnly
      <3>2. CASE ~toggle_policy
        BY <2>2, <3>2 DEF Service, device_update, toggle_cache, change_cache_org, loader,
               close_program, ResetOptions, change_mem_content, TypeOK
      <3> QED BY <3>1, <3>2
    <2>3. CASE UNCHANGED vars
      BY <2>3 DEF vars
    <2> QED
      BY <2>1, <2>2, <2>3 DEF Next
  <1>3. "opcode_test" \notin Features
    BY DEF WriteThroughOnly
  <1> QED
    BY <1>1, <1>2, <1>3, TypeCorrect, CacheInvariantHolds, PTL DEF Spec, Transparent
-----------------------------------------------------------------------------
(***************************************************************************)
(* Every step is a step of flat memory, or none.                           *)
(***************************************************************************)

\* What a step has to do to memory and MBR for flat memory to take one too.
FlatStep ==
  \/ \E mar \in ByteAddr, size \in Sizes :
       /\ ~IsDevice(mar)
       /\ \/ MBR' = Get(memory[WORD_ADDR_CONV(mar)], mar, size) /\ UNCHANGED memory
          \/ \E data \in Data :
               /\ memory' = [memory EXCEPT ![WORD_ADDR_CONV(mar)] = Put(@, mar, size, data)]
               /\ MBR' \in {data, memory'[WORD_ADDR_CONV(mar)]}
  \/ \E w \in WordAddr, word \in Word :
       w < DeviceWords /\ memory' = [memory EXCEPT ![w] = word] /\ MBR' \in Word
  \/ \E image \in Images : memory' = Overlay(memory, image) /\ UNCHANGED MBR
  \/ memory' = [w \in WordAddr |-> Zero] /\ UNCHANGED MBR
  \/ UNCHANGED <<memory, MBR>>

\* A served access, in any organisation: a read gives what memory holds, a write puts
\* its data into memory.
LEMMA ServedIsFlat ==
  ASSUME WriteThroughOnly, Transparent, CacheOn,
         NEW D, NEW lines, NEW c, NEW after,
         NEW mar \in ByteAddr, NEW size \in Sizes, NEW rw \in Kinds, NEW data \in Word,
         rw = WRITE => data \in Data,
         ~IsDevice(mar),
         Served(D, lines, c, after, mar, size, rw, data)
  PROVE  FlatStep
  <1> DEFINE w == WORD_ADDR_CONV(mar)
             t == ApplyPolicy(lines, c, mar, size, rw, data).bus
  <1>1. /\ TypeOK /\ cache_options.policy = WRITE_THROUGH
        /\ lines[c] \in Line /\ memory' = t.mem /\ MBR' = t.mbr
    BY DEF Transparent, Served, Settle
  <1>2. CASE rw = WRITE
    BY <1>1, <1>2, WriteThroughAccess DEF FlatStep
  <1>3. CASE rw = READ
    <2>1. memory' = memory
      BY <1>1, <1>3, WriteThroughAccess
    <2>2. MBR' = Get(IF lines[c].address = w THEN lines[c].contents ELSE memory[w], mar, size)
      BY <1>1, <1>3, AccessReads
    <2>3. lines[c].address = w => lines[c].contents = memory[w]
      <3>1. SUFFICES ASSUME lines[c].address = w
                     PROVE  lines[c].contents = memory[w]
        OBVIOUS
      <3>2. w \in WordAddr /\ ~(w < DeviceWords)
        BY ByteAddress DEF IsDevice
      <3> HIDE DEF w
      <3>3. c \in Slots /\ lines[c] = memory_cache[c]
        BY <3>1, <3>2 DEF Served
      <3>4. Mapped(c)
        BY <3>1, <3>2, <3>3, AddressAssumption DEF Mapped, Unmapped
      <3>5. Exposed = {}
        BY DEF WriteThroughOnly, Exposed
      <3> QED
        BY <3>1, <3>3, <3>4, <3>5
           DEF Transparent, CacheInvariant, CleanLinesConsistent
    <2> QED
      BY <2>1, <2>2, <2>3 DEF FlatStep
  <1> QED
    BY <1>2, <1>3

LEMMA BusIsFlat ==
  ASSUME WriteThroughOnly, Transparent, TypeOK',
         NEW mar \in ByteAddr, NEW size \in Sizes, NEW rw \in Kinds, NEW data \in Inputs(rw),
         bus(mar, size, rw, data)
  PROVE  FlatStep
  <1>0. TypeOK /\ data \in Word /\ (rw = WRITE => data \in Data)
    BY InputsType DEF Transparent, Inputs
  <1>1. CASE uncached_access(mar, size, rw, data)
    <2> DEFINE s == [mem |-> memory, mar |-> mar, mbr |-> data, run |-> 0, cmp |-> 0]
               t == memory_bus(s, size, rw)
               w == WORD_ADDR_CONV(mar)
    <2>1. /\ s \in BusState
          /\ s.mem = memory /\ s.mar = mar /\ s.mbr = data
      BY <1>0 DEF BusState, TypeOK
    <2>2. memory' = t.mem /\ MBR' = t.mbr /\ ~IsDevice(mar)
      BY <1>1 DEF uncached_access, Settle
    <2> HIDE DEF s
    <2>3. CASE rw = READ
      <3>1. t.mem = memory /\ t.mbr = Get(memory[w], mar, size)
        BY <2>1, <2>3, BusStep
      <3> HIDE DEF t
      <3> QED
        BY <2>2, <3>1 DEF FlatStep
    <2>4. CASE rw = WRITE
      <3>1. /\ t \in BusState /\ t.mbr = data
            /\ t.mem[w] = Put(memory[w], mar, size, data)
            /\ \A v \in WordAddr : v # w => t.mem[v] = memory[v]
        BY <2>1, <2>4, BusStep
      <3> HIDE DEF t
      <3>2. t.mem \in [WordAddr -> Word] /\ memory \in [WordAddr -> Word] /\ w \in WordAddr
        BY <1>0, <3>1, BusFields, ByteAddress DEF TypeOK
      <3>3. t.mem = [memory EXCEPT ![w] = Put(@, mar, size, data)]
        BY <3>1, <3>2
      <3> QED
        BY <1>0, <2>2, <2>4, <3>1, <3>3 DEF FlatStep
    <2> QED BY <2>3, <2>4
  <1>2. CASE port_access(mar, size, rw, data)
    <2>1. PICK word \in Data : memory' = [memory EXCEPT ![WORD_ADDR_CONV(mar)] = word]
      BY <1>2 DEF port_access
    <2>2. /\ WORD_ADDR_CONV(mar) \in WordAddr /\ WORD_ADDR_CONV(mar) < DeviceWords
          /\ word \in Word /\ MBR' \in Word
      BY <1>2, ByteAddress, DataAssumption DEF port_access, IsDevice, TypeOK
    <2> QED
      BY <2>1, <2>2 DEF FlatStep
  <1>3. CASE /\ CacheOn /\ ~IsDevice(mar)
             /\ \E D, lines, c, after : Served(D, lines, c, after, mar, size, rw, data)
    BY <1>0, <1>3, ServedIsFlat
  <1>4. ASSUME direct_mapping(mar, size, rw, data) \/ associative_mapping(mar, size, rw, data)
                 \/ hybrid_mapping(mar, size, rw, data)
        PROVE  CacheOn /\ ~IsDevice(mar)
    BY <1>4 DEF direct_mapping, associative_mapping, hybrid_mapping, Cached, CacheOn
  <1> QED
    BY <1>0, <1>1, <1>2, <1>3, <1>4, DirectServes, AssociativeServes, HybridServes DEF bus

LEMMA ServiceIsFlat ==
  ASSUME WriteThroughOnly, Transparent, TypeOK', Service
  PROVE  FlatStep
  <1>1. ASSUME NEW w \in WordAddr, NEW word \in Data, device_update(w, word)
        PROVE  FlatStep
    <2>1. word \in Word /\ MBR' \in Word
      BY DataAssumption DEF TypeOK
    <2> QED
      BY <1>1, <2>1 DEF device_update, FlatStep
  <1>2. ASSUME NEW image \in Images, NEW named \in BOOLEAN, loader(image, named)
        PROVE  FlatStep
    BY <1>2 DEF loader, FlatStep
  <1>3. CASE close_program
    BY <1>3 DEF close_program, FlatStep
  <1>4. ASSUME NEW mar \in ByteAddr, NEW data \in Data, change_mem_content(mar, data)
        PROVE  FALSE
    BY <1>4 DEF change_mem_content, WriteThroughOnly
  <1>5. CASE toggle_cache \/ toggle_policy \/ \E org \in Organisations : change_cache_org(org)
    BY <1>5 DEF toggle_cache, toggle_policy, change_cache_org, FlatStep
  <1> QED
    BY <1>1, <1>2, <1>3, <1>4, <1>5, Zenon DEF Service

\* FlatMemory brings in Words by itself: its words are those of MemoryCache.
LEMMA FlatWords ==
  /\ Flat!Zero = Zero /\ Flat!Word = Word /\ Flat!ByteAddr = ByteAddr /\ Flat!Sizes = Sizes
  /\ \A word, mar, size, data :
       /\ Flat!Get(word, mar, size) = Get(word, mar, size)
       /\ Flat!Put(word, mar, size, data) = Put(word, mar, size, data)
       /\ Flat!IsDevice(mar) <=> IsDevice(mar)
       /\ Flat!WORD_ADDR_CONV(mar) = WORD_ADDR_CONV(mar)
  /\ \A mem, image : Flat!Overlay(mem, image) = Overlay(mem, image)
  BY DEF Zero, Flat!Zero, Word, Flat!Word, ByteAddr, Flat!ByteAddr, Flat!Sizes,
         BYTE_ADDR_CONV, Flat!BYTE_ADDR_CONV, WORD_ADDR_CONV, Flat!WORD_ADDR_CONV,
         Get, Flat!Get, Put, Flat!Put, IsDevice, Flat!IsDevice, Overlay, Flat!Overlay,
         Flat!WORD, Flat!BYTE

\* The machine implements the memory its programs were promised (FlatMemory), with the
\* cache on, off and reconfigured, in direct, associative and hybrid mapping: what a read
\* returns and a write changes is what it would be without a cache
\* (Memory_access_handling.cpp, write_through_policy).
THEOREM FlatMemoryImplemented ==
  ASSUME WriteThroughOnly
  PROVE  Spec => ImplementsFlatMemory
  <1>1. Init => Flat!Init
    <2> SUFFICES ASSUME Init
                 PROVE  Flat!Init
      OBVIOUS
    <2>1. \A i \in Slots : ~Mapped(i)
      BY DEF Init, ResetOptions, Mapped, CacheOn
    <2> QED
      BY <2>1, FlatWords DEF Init, Flat!Init, View
  <1>2. Transparent /\ Transparent' /\ [Next]_vars => [Flat!Next]_<<View, MBR>>
    <2> SUFFICES ASSUME Transparent, Transparent', [Next]_vars
                 PROVE  [Flat!Next]_<<View, MBR>>
      OBVIOUS
    <2>1. View = memory /\ View' = memory'
      BY ViewIsMemory, ViewIsMemoryNext
    <2>2. TypeOK'
      BY DEF Transparent
    <2>3. FlatStep
      <3>1. ASSUME NEW mar \in ByteAddr, NEW size \in Sizes, NEW rw \in Kinds,
                   NEW data \in Inputs(rw), bus(mar, size, rw, data)
            PROVE  FlatStep
        BY <2>2, <3>1, BusIsFlat
      <3>2. CASE Service
        BY <2>2, <3>2, ServiceIsFlat
      <3>3. CASE UNCHANGED vars
        BY <3>3 DEF vars, FlatStep
      <3> QED
        BY <3>1, <3>2, <3>3 DEF Next
    <2>4. ASSUME NEW mar \in ByteAddr, NEW size \in Sizes, ~IsDevice(mar),
                 MBR' = Get(memory[WORD_ADDR_CONV(mar)], mar, size), UNCHANGED memory
          PROVE  Flat!Next
      BY <2>1, <2>4, FlatWords DEF Flat!Next, Flat!Read
    <2>5. ASSUME NEW mar \in ByteAddr, NEW size \in Sizes, NEW data \in Data, ~IsDevice(mar),
                 memory' = [memory EXCEPT ![WORD_ADDR_CONV(mar)] = Put(@, mar, size, data)],
                 MBR' \in {data, memory'[WORD_ADDR_CONV(mar)]}
          PROVE  Flat!Next
      BY <2>1, <2>5, FlatWords DEF Flat!Next, Flat!Write
    <2>6. ASSUME NEW w \in WordAddr, NEW word \in Word, w < DeviceWords,
                 memory' = [memory EXCEPT ![w] = word], MBR' \in Word
          PROVE  Flat!Next
      BY <2>1, <2>6, FlatWords DEF Flat!Next, Flat!Port
    <2>7. ASSUME NEW image \in Images, memory' = Overlay(memory, image), UNCHANGED MBR
          PROVE  Flat!Next
      BY <2>1, <2>7, FlatWords DEF Flat!Next, Flat!Load
    <2>8. CASE memory' = [w \in WordAddr |-> Zero] /\ UNCHANGED MBR
      BY <2>1, <2>8, FlatWords DEF Flat!Next, Flat!Clear
    <2> QED
      BY <2>1, <2>3, <2>4, <2>5, <2>6, <2>7, <2>8 DEF FlatStep
  <1> QED
    BY <1>1, <1>2, TransparentHolds, PTL DEF Spec, ImplementsFlatMemory, Flat!Spec
=============================================================================
