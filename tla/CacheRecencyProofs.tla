-------------------------- MODULE CacheRecencyProofs --------------------------
(***************************************************************************)
(* What the LRU bits stand for: VictimExists and EvictsLeastRecent, for    *)
(* every size of cache, page and memory.  The bits of a group of lines     *)
(* (the whole cache, or one page) are bounded by a ranking of the group,   *)
(* a numbering of its lines from 0 up in which every number is used once.  *)
(***************************************************************************)
EXTENDS CacheRecency, MemoryCacheProofs

USE DEF OFF, ON, DIRECT, ASSOCIATIVE, HYBRID, WRITE_THROUGH, WRITE_BACK,
        HIT, MISS, HIT_READ, HIT_WRITE, MISS_READ, MISS_WRITE,
        READ, WRITE, WORD, BYTE, Kinds, Sizes

-----------------------------------------------------------------------------
(***************************************************************************)
(* Rankings.                                                               *)
(***************************************************************************)

Ranking(S, n) ==
  {r \in [S -> 0..n] : /\ \A i, j \in S : r[i] = r[j] => i = j
                       /\ \A k \in 0..n : \E i \in S : r[i] = k}

\* The ranking after line c is used: it is the most recent, and those above it move down.
Reranked(r, S, c, n) ==
  [j \in S |-> IF j = c THEN n ELSE IF r[j] > r[c] THEN r[j] - 1 ELSE r[j]]

LEMMA RerankedIsRanking ==
  ASSUME NEW S, NEW n \in Nat, NEW r \in Ranking(S, n), NEW c \in S
  PROVE  Reranked(r, S, c, n) \in Ranking(S, n)
  <1> DEFINE q == Reranked(r, S, c, n)
  <1>1. /\ r \in [S -> 0..n]
        /\ \A i, j \in S : r[i] = r[j] => i = j
        /\ \A k \in 0..n : \E i \in S : r[i] = k
    BY DEF Ranking
  <1>2. \A j \in S : /\ r[j] \in 0..n
                     /\ q[j] = IF j = c THEN n ELSE IF r[j] > r[c] THEN r[j] - 1 ELSE r[j]
    BY <1>1 DEF Reranked
  <1>3. \A j \in S : j # c => r[j] # r[c]
    BY <1>1
  <1>4. \A j \in S : q[j] \in 0..n
    BY <1>2
  <1>5. q \in [S -> 0..n]
    BY <1>4 DEF Reranked
  <1> HIDE DEF q
  <1>6. ASSUME NEW i \in S, NEW j \in S, q[i] = q[j]
        PROVE  i = j
    <2>1. r[i] \in 0..n /\ r[j] \in 0..n /\ r[c] \in 0..n
      BY <1>2
    <2>2. CASE i = c \/ j = c
      BY <1>2, <1>3, <1>6, <2>1, <2>2
    <2>3. CASE i # c /\ j # c
      <3>1. r[i] = r[j]
        BY <1>2, <1>3, <1>6, <2>1, <2>3
      <3> QED
        BY <3>1, <1>1
    <2> QED
      BY <2>2, <2>3
  <1>7. ASSUME NEW k \in 0..n
        PROVE  \E i \in S : q[i] = k
    <2>1. CASE k = n
      BY <2>1, <1>2
    <2>2. CASE k < r[c]
      <3>1. PICK i \in S : r[i] = k
        BY <1>1
      <3> QED
        BY <3>1, <2>2, <1>2
    <2>3. CASE k # n /\ ~(k < r[c])
      <3>1. k + 1 \in 0..n
        BY <2>3
      <3>2. PICK i \in S : r[i] = k + 1
        BY <3>1, <1>1
      <3> QED
        BY <3>2, <2>3, <1>2
    <2> QED
      BY <2>1, <2>2, <2>3
  <1> QED
    BY <1>5, <1>6, <1>7 DEF Ranking, q

\* A group of consecutive lines has a ranking.
LEMMA RankingExists ==
  ASSUME NEW a \in Nat, NEW n \in Nat
  PROVE  \E r : r \in Ranking(a..(a + n), n)
  <1> DEFINE r == [i \in a..(a + n) |-> i - a]
  <1>1. r \in [a..(a + n) -> 0..n]
    OBVIOUS
  <1>2. \A i, j \in a..(a + n) : r[i] = r[j] => i = j
    OBVIOUS
  <1>3. ASSUME NEW k \in 0..n
        PROVE  \E i \in a..(a + n) : r[i] = k
    <2>1. a + k \in a..(a + n) /\ r[a + k] = k
      OBVIOUS
    <2> QED BY <2>1
  <1> QED
    BY <1>1, <1>2, <1>3 DEF Ranking

-----------------------------------------------------------------------------
(***************************************************************************)
(* The lines of a page.                                                    *)
(***************************************************************************)

PageSlots(p) == (p * PageLines)..(p * PageLines + PageLines - 1)

LEMMA PageFacts ==
  /\ PageLines \in Nat \ {0} /\ HybridPages \in Nat \ {0}
  /\ CacheSize \in Nat \ {0} /\ CacheSize = PageLines * HybridPages
  /\ MAX_LRU_VALUE \in Nat /\ MAX_LRU_VALUE = CacheSize - 1
  /\ MAX_HYBRID_LRU_VALUE \in Nat /\ MAX_HYBRID_LRU_VALUE = PageLines - 1
  /\ MAX_HYBRID_LRU_VALUE <= MAX_LRU_VALUE
  /\ Slots = 0..MAX_LRU_VALUE
  <1>1. HybridPages \in Nat /\ CacheSize = PageLines * HybridPages
    BY CacheAssumption, Quotient DEF HybridPages
  <1>2. HybridPages # 0
    BY <1>1, CacheAssumption
  <1>3. PageLines <= CacheSize
    BY <1>1, <1>2, CacheAssumption
  <1> QED
    BY <1>1, <1>2, <1>3, CacheAssumption DEF MAX_LRU_VALUE, MAX_HYBRID_LRU_VALUE, Slots

LEMMA PageOf ==
  ASSUME NEW w \in Nat
  PROVE  /\ Page(w) \in 0..(HybridPages - 1)
         /\ OwnSlots(w) = PageSlots(Page(w))
  <1>1. w \div PageLines \in Nat
    BY PageFacts, Quotient
  <1> QED
    BY <1>1, PageFacts, Remainder DEF Page, OwnSlots, PageSlots

\* Pages lie inside the cache and apart from each other; the loop visits one line more.
LEMMA PagesApart ==
  ASSUME NEW p \in 0..(HybridPages - 1)
  PROVE  /\ p * PageLines \in Nat
         /\ PageSlots(p) \subseteq Slots
         /\ \A q \in 0..(HybridPages - 1) : q # p => PageSlots(p) \cap PageSlots(q) = {}
  <1>1. p \in Nat /\ HybridPages \in Nat /\ PageLines \in Nat \ {0}
    BY PageFacts
  <1>2. p * PageLines \in Nat /\ p * PageLines + PageLines <= HybridPages * PageLines
    BY <1>1
  <1>3. CacheSize = HybridPages * PageLines
    BY PageFacts
  <1>4. ASSUME NEW q \in 0..(HybridPages - 1), q # p
        PROVE  PageSlots(p) \cap PageSlots(q) = {}
    <2>1. q \in Nat /\ q * PageLines \in Nat
      BY <1>1
    <2>2. CASE p < q
      <3>1. p * PageLines + PageLines <= q * PageLines
        BY <2>1, <2>2, <1>1
      <3> QED
        BY <3>1, <2>1, <1>1, <1>2 DEF PageSlots
    <2>3. CASE q < p
      <3>1. q * PageLines + PageLines <= p * PageLines
        BY <2>1, <2>3, <1>1
      <3> QED
        BY <3>1, <2>1, <1>1, <1>2 DEF PageSlots
    <2> QED
      BY <2>1, <2>2, <2>3, <1>1, <1>4
  <1> QED
    BY <1>1, <1>2, <1>3, <1>4, PageFacts DEF PageSlots

LEMMA PageSearch ==
  ASSUME NEW w \in Nat
  PROVE  /\ OwnSlots(w) \subseteq HybridSlots(w)
         /\ HybridSlots(w) \subseteq 0..CacheSize
         /\ \A i \in HybridSlots(w), k \in OwnSlots(w) : i <= k => i \in OwnSlots(w)
  <1>1. Page(w) * PageLines \in Nat /\ PageLines \in Nat
    BY PageOf, PagesApart, PageFacts
  <1> QED
    BY <1>1, Pages DEF OwnSlots, HybridSlots

-----------------------------------------------------------------------------
(***************************************************************************)
(* What an access does to the ages.                                        *)
(***************************************************************************)

\* Line c is served with a word: it gets the limit and maps the word; the lines visited
\* and more recent than "age" lose one; the others stay, and map what they mapped.
UsedLine(c, age, slots, limit, w) ==
  /\ UNCHANGED <<cache_options, loaded>>
  /\ \A j \in Slots :
       /\ memory_cache'[j].lru =
            IF j = c THEN limit
            ELSE IF j \in slots /\ memory_cache[j].lru > age THEN memory_cache[j].lru - 1
            ELSE memory_cache[j].lru
       /\ memory_cache'[j].address = IF j = c THEN w ELSE memory_cache[j].address

LEMMA AgingStep ==
  ASSUME TypeOK,
         NEW mar \in ByteAddr, NEW size \in Sizes, NEW rw \in Kinds, NEW data \in Word,
         NEW D, Slots \subseteq D,
         NEW lines \in [D -> Line],
         \A i \in Slots : lines[i] = memory_cache[i],
         NEW slots, NEW limit \in 0..MAX_LRU_VALUE,
         NEW c \in D,
         Settle(Aged([lines EXCEPT ![c] = ApplyPolicy(lines, c, mar, size, rw, data).line],
                     slots, c, limit),
                ApplyPolicy(lines, c, mar, size, rw, data).bus)
  PROVE  UsedLine(c, lines[c].lru, slots, limit, WORD_ADDR_CONV(mar))
  <1> DEFINE r == ApplyPolicy(lines, c, mar, size, rw, data)
             served == [lines EXCEPT ![c] = r.line]
             after == Aged(served, slots, c, limit)
  <1>1. r.line \in Line /\ r.line.address = WORD_ADDR_CONV(mar)
    BY ApplyStep
  <1>2. r.line.lru = lines[c].lru
    BY ApplyStep
  <1>3. /\ UNCHANGED <<cache_options, loaded>>
        /\ \A j \in Slots : memory_cache'[j] = after[j]
    BY DEF Settle
  <1> HIDE DEF r
  <1>4. /\ served \in [D -> Line]
        /\ served[c] = r.line
        /\ \A j \in D \ {c} : served[j] = lines[j]
    BY <1>1
  <1> HIDE DEF served
  <1>5. \A j \in D : after[j].address = served[j].address
    <2>1. served \in [D -> Line] /\ c \in D /\ limit \in 0..MAX_LRU_VALUE
      BY <1>4
    <2> QED
      BY ONLY <2>1, AgedStep
  <1>6. ASSUME NEW j \in D
        PROVE  after[j].lru = IF j = c THEN limit
                              ELSE IF j \in slots /\ served[j].lru > served[c].lru
                                   THEN served[j].lru - 1
                              ELSE served[j].lru
    <2>1. /\ served[j] \in Line
          /\ after[j] = IF j = c THEN [served[j] EXCEPT !.lru = limit]
                        ELSE IF j \in slots /\ served[j].lru > served[c].lru
                             THEN [served[j] EXCEPT !.lru = @ - 1]
                        ELSE served[j]
      BY <1>4 DEF Aged
    <2> HIDE DEF after
    <2>2. /\ [served[j] EXCEPT !.lru = limit].lru = limit
          /\ [served[j] EXCEPT !.lru = @ - 1].lru = served[j].lru - 1
      BY <2>1 DEF Line
    <2> QED
      BY <2>1, <2>2
  <1> HIDE DEF after
  <1> QED
    BY <1>1, <1>2, <1>3, <1>4, <1>5, <1>6 DEF UsedLine

-----------------------------------------------------------------------------
(***************************************************************************)
(* The ages of a group of lines are bounded by a ranking of it.  A search  *)
(* that misses then finds a line of age 0.                                 *)
(***************************************************************************)

Bounded(S, n) == \E r \in Ranking(S, n) : \A i \in S : memory_cache[i].lru <= r[i]

\* The group is searched, and its line c is used.
LEMMA UsedBounded ==
  ASSUME TypeOK, NEW S \in SUBSET Slots, NEW n \in Nat, Bounded(S, n), NEW c \in S,
         \A j \in S : memory_cache'[j].lru =
                        IF j = c THEN n
                        ELSE IF memory_cache[j].lru > memory_cache[c].lru
                             THEN memory_cache[j].lru - 1
                        ELSE memory_cache[j].lru
  PROVE  Bounded(S, n)'
  <1>1. PICK r \in Ranking(S, n) : \A i \in S : memory_cache[i].lru <= r[i]
    BY DEF Bounded
  <1> DEFINE q == Reranked(r, S, c, n)
  <1>2. q \in Ranking(S, n)
    BY RerankedIsRanking
  <1>3. \A j \in S : /\ r[j] \in 0..n
                     /\ j # c => r[j] # r[c]
                     /\ q[j] = IF j = c THEN n ELSE IF r[j] > r[c] THEN r[j] - 1 ELSE r[j]
    BY DEF Ranking, Reranked
  <1> HIDE DEF q
  <1>4. \A j \in S : memory_cache[j].lru \in Nat
    BY PageFacts DEF TypeOK, Line
  <1>5. \A j \in S : memory_cache'[j].lru <= q[j]
    BY <1>1, <1>3, <1>4
  <1> QED
    BY <1>2, <1>5 DEF Bounded

\* No line of the group gets more recent.
LEMMA PassedBounded ==
  ASSUME NEW S \in SUBSET Slots, NEW n \in Nat, Bounded(S, n), TypeOK, TypeOK',
         \A j \in S : memory_cache'[j].lru <= memory_cache[j].lru
  PROVE  Bounded(S, n)'
  <1>1. PICK r \in Ranking(S, n) : \A i \in S : memory_cache[i].lru <= r[i]
    BY DEF Bounded
  <1>2. \A i \in S : /\ r[i] \in 0..n
                     /\ memory_cache[i].lru \in Nat /\ memory_cache'[i].lru \in Nat
    BY PageFacts DEF Ranking, TypeOK, Line
  <1>3. \A i \in S : memory_cache'[i].lru <= r[i]
    BY <1>1, <1>2
  <1> QED
    BY <1>3 DEF Bounded

LEMMA BlankBounded ==
  ASSUME NEW a \in Nat, NEW n \in Nat, a..(a + n) \subseteq Slots,
         \A i \in Slots : memory_cache[i] = Blank
  PROVE  Bounded(a..(a + n), n)
  <1>1. PICK r : r \in Ranking(a..(a + n), n)
    BY RankingExists
  <1>2. \A i \in a..(a + n) : memory_cache[i].lru = 0 /\ r[i] \in 0..n
    BY <1>1 DEF Blank, Ranking
  <1> QED
    BY <1>1, <1>2 DEF Bounded

LEMMA BoundedHasZero ==
  ASSUME TypeOK, NEW S \in SUBSET Slots, NEW n \in Nat, Bounded(S, n)
  PROVE  \E k \in S : memory_cache[k].lru = 0
  <1>1. PICK r \in Ranking(S, n) : \A i \in S : memory_cache[i].lru <= r[i]
    BY DEF Bounded
  <1>2. PICK k \in S : r[k] = 0
    BY DEF Ranking
  <1>3. memory_cache[k].lru \in Nat /\ memory_cache[k].lru <= 0
    BY <1>1, <1>2, PageFacts DEF TypeOK, Line
  <1> QED
    BY <1>3

-----------------------------------------------------------------------------
(***************************************************************************)
(* VictimExists.                                                           *)
(***************************************************************************)

\* The inductive form: in associative mapping the whole cache is one group; in hybrid
\* mapping every page is, although ageing spills over into the next page, and every
\* mapped line lies in the page of its word, although the search looks one line further.
AgesBounded ==
  CacheOn =>
    /\ cache_options.mem_org = ASSOCIATIVE => Bounded(Slots, MAX_LRU_VALUE)
    /\ cache_options.mem_org = HYBRID =>
         /\ \A p \in 0..(HybridPages - 1) : Bounded(PageSlots(p), MAX_HYBRID_LRU_VALUE)
         /\ \A i \in Slots : Mapped(i) => i \in OwnSlots(memory_cache[i].address)

\* The array that hybrid mapping indexes.
Array(behind) == [i \in 0..CacheSize |-> IF i \in Slots THEN memory_cache[i] ELSE behind]

LEMMA ArrayType ==
  ASSUME TypeOK, NEW behind \in Overrun
  PROVE  /\ Slots \subseteq 0..CacheSize
         /\ Array(behind) \in [0..CacheSize -> Line]
         /\ \A i \in Slots : Array(behind)[i] = memory_cache[i]
         /\ \A i \in (0..CacheSize) \ Slots : Array(behind)[i].address < DeviceWords
  <1>1. behind \in Line /\ behind.address < DeviceWords
    BY OverrunAssumption
  <1>2. Slots \subseteq 0..CacheSize
    BY PageFacts
  <1> QED
    BY <1>1, <1>2 DEF TypeOK, Array

\* The search in hybrid mapping never leaves the page.
LEMMA HybridVictim ==
  ASSUME TypeOK, AgesBounded, CacheOn, cache_options.mem_org = HYBRID, PageLines > 1,
         NEW w \in WordAddr, w >= DeviceWords, NEW behind \in Overrun
  PROVE  Candidates(Array(behind), HybridSlots(w), w, MAX_HYBRID_LRU_VALUE) \subseteq OwnSlots(w)
  <1> DEFINE lines == Array(behind)
             slots == HybridSlots(w)
             own   == OwnSlots(w)
             limit == MAX_HYBRID_LRU_VALUE
  <1>1. w \in Nat /\ DeviceWords \in Nat \ {0} /\ w # Unmapped
    BY AddressAssumption DEF Unmapped
  <1>2. /\ own \subseteq slots /\ slots \subseteq 0..CacheSize
        /\ \A i \in slots, k \in own : i <= k => i \in own
    BY <1>1, PageSearch
  <1>3. own \subseteq Slots /\ Bounded(own, limit) /\ limit \in Nat /\ limit > 0
    BY <1>1, PageOf, PagesApart, PageFacts DEF AgesBounded
  <1>4. PICK k \in own : memory_cache[k].lru = 0
    BY <1>3, BoundedHasZero
  <1>5. /\ \A i \in 0..CacheSize : lines[i] \in Line
        /\ \A i \in Slots : lines[i] = memory_cache[i]
        /\ \A i \in (0..CacheSize) \ Slots : lines[i].address < DeviceWords
    BY ArrayType
  <1> HIDE DEF lines, slots, own, limit
  <1>6. ASSUME NEW i \in slots, lines[i].address = w
        PROVE  i \in own
    <2>1. i \in Slots /\ memory_cache[i].address = w
      BY <1>1, <1>2, <1>5, <1>6
    <2> QED
      BY <2>1, <1>1 DEF AgesBounded, Mapped, own
  <1>7. /\ k \in slots /\ lines[k].lru = 0
        /\ \A i \in slots : lines[i].lru \in Nat
    BY <1>2, <1>3, <1>4, <1>5, PageFacts DEF Line
  <1>8. SUFFICES ASSUME NEW c \in Candidates(lines, slots, w, limit)
                 PROVE  c \in own
    BY DEF lines, slots, own, limit
  <1>9. CASE \E i \in slots : lines[i].address = w
    <2>1. c \in slots /\ lines[c].address = w
      BY <1>9, SearchStep
    <2> QED
      BY <2>1, <1>6
  <1>10. CASE ~\E i \in slots : lines[i].address = w
    <2> DEFINE young == {i \in slots : lines[i].lru < limit}
               least == {i \in young : \A j \in young : lines[i].lru <= lines[j].lru}
    <2>1. k \in young /\ k \in least
      BY <1>3, <1>7
    <2>2. c \in First(least)
      BY <1>10, <2>1 DEF Candidates
    <2>3. c \in slots /\ c <= k
      BY <2>1, <2>2 DEF First
    <2> QED
      BY <2>3, <1>2
  <1> QED
    BY <1>9, <1>10

LEMMA AgesVictim ==
  ASSUME TypeOK, AgesBounded, PageLines > 1
  PROVE  VictimExists
  <1>1. ASSUME CacheOn, cache_options.mem_org = ASSOCIATIVE
        PROVE  \E i \in Slots : memory_cache[i].lru < MAX_LRU_VALUE
    <2>1. PICK k \in Slots : memory_cache[k].lru = 0
      BY <1>1, BoundedHasZero, PageFacts DEF AgesBounded
    <2>2. 0 < MAX_LRU_VALUE
      BY PageFacts
    <2> QED
      BY <2>1, <2>2
  <1>2. ASSUME CacheOn, cache_options.mem_org = HYBRID,
               NEW w \in WordAddr, NEW behind \in Overrun, w >= DeviceWords
        PROVE  Candidates(Array(behind), HybridSlots(w), w, MAX_HYBRID_LRU_VALUE)
                 \subseteq OwnSlots(w)
    BY <1>2, HybridVictim
  <1> QED
    BY <1>1, <1>2 DEF VictimExists, Array

LEMMA BlankAges ==
  (CacheOn => \A i \in Slots : memory_cache[i] = Blank) => AgesBounded
  <1> SUFFICES ASSUME CacheOn, \A i \in Slots : memory_cache[i] = Blank
               PROVE  AgesBounded
    BY DEF AgesBounded
  <1>1. Bounded(Slots, MAX_LRU_VALUE)
    <2>1. Slots = 0..(0 + MAX_LRU_VALUE) /\ MAX_LRU_VALUE \in Nat
      BY PageFacts
    <2> QED
      BY <2>1, BlankBounded
  <1>2. ASSUME NEW p \in 0..(HybridPages - 1)
        PROVE  Bounded(PageSlots(p), MAX_HYBRID_LRU_VALUE)
    <2> DEFINE a == p * PageLines
    <2>1. /\ a \in Nat /\ MAX_HYBRID_LRU_VALUE \in Nat
          /\ PageSlots(p) \subseteq Slots
          /\ PageLines \in Nat /\ MAX_HYBRID_LRU_VALUE = PageLines - 1
      BY PagesApart, PageFacts
    <2>2. PageSlots(p) = a..(a + PageLines - 1)
      BY DEF PageSlots
    <2> HIDE DEF a
    <2>3. PageSlots(p) = a..(a + MAX_HYBRID_LRU_VALUE)
      BY <2>1, <2>2
    <2> QED
      BY <2>1, <2>3, BlankBounded
  <1>3. \A i \in Slots : ~Mapped(i)
    BY DEF Mapped, Blank
  <1> QED
    BY <1>1, <1>2, <1>3 DEF AgesBounded

LEMMA BlankAgesNext ==
  (CacheOn => \A i \in Slots : memory_cache[i] = Blank)' => AgesBounded'
  BY BlankAges, PTL

\* The access of associative mapping: the line the search found, and what it leaves.
LEMMA AssociativeAccess ==
  ASSUME TypeOK,
         NEW mar \in ByteAddr, NEW size \in Sizes, NEW rw \in Kinds, NEW data \in Word,
         associative_mapping(mar, size, rw, data)
  PROVE  \E c \in Candidates(memory_cache, Slots, WORD_ADDR_CONV(mar), MAX_LRU_VALUE) :
           c \in Slots /\ UsedLine(c, memory_cache[c].lru, Slots, MAX_LRU_VALUE, WORD_ADDR_CONV(mar))
  <1>1. PICK c \in Candidates(memory_cache, Slots, WORD_ADDR_CONV(mar), MAX_LRU_VALUE) :
          Settle(Aged([memory_cache EXCEPT
                         ![c] = ApplyPolicy(memory_cache, c, mar, size, rw, data).line],
                      Slots, c, MAX_LRU_VALUE),
                 ApplyPolicy(memory_cache, c, mar, size, rw, data).bus)
    BY DEF associative_mapping
  <1>2. c \in Slots
    BY SearchStep
  <1>3. memory_cache \in [Slots -> Line] /\ MAX_LRU_VALUE \in 0..MAX_LRU_VALUE
    BY PageFacts DEF TypeOK
  <1>4. UsedLine(c, memory_cache[c].lru, Slots, MAX_LRU_VALUE, WORD_ADDR_CONV(mar))
    <2>1. /\ TypeOK /\ c \in Slots /\ Slots \subseteq Slots
          /\ mar \in ByteAddr /\ size \in Sizes /\ rw \in Kinds /\ data \in Word
          /\ \A i \in Slots : memory_cache[i] = memory_cache[i]
      BY <1>2
    <2> QED
      BY ONLY <1>1, <1>3, <2>1, AgingStep
  <1> QED
    BY <1>2, <1>4

LEMMA HybridAges ==
  ASSUME TypeOK, TypeOK', AgesBounded, PageLines > 1,
         NEW mar \in ByteAddr, NEW size \in Sizes, NEW rw \in Kinds, NEW data \in Word,
         hybrid_mapping(mar, size, rw, data)
  PROVE  AgesBounded'
  <1> DEFINE w     == WORD_ADDR_CONV(mar)
             slots == HybridSlots(w)
             own   == OwnSlots(w)
             limit == MAX_HYBRID_LRU_VALUE
  <1>1. /\ w \in WordAddr /\ w >= DeviceWords
        /\ CacheOn /\ cache_options.mem_org = HYBRID
    <2>1. w \in Nat /\ w \in WordAddr /\ DeviceWords \in Nat /\ ~(w < DeviceWords)
      BY ByteAddress, AddressAssumption DEF hybrid_mapping, Cached, IsDevice
    <2> HIDE DEF w
    <2> QED
      BY <2>1 DEF hybrid_mapping, Cached, CacheOn
  <1>2. PICK behind \in Overrun :
          \E c \in Candidates(Array(behind), slots, w, limit) :
            Settle(Aged([Array(behind) EXCEPT
                           ![c] = ApplyPolicy(Array(behind), c, mar, size, rw, data).line],
                        slots, c, limit),
                   ApplyPolicy(Array(behind), c, mar, size, rw, data).bus)
    BY DEF hybrid_mapping, Array
  <1> DEFINE lines == Array(behind)
  <1>3. PICK c \in Candidates(lines, slots, w, limit) :
          Settle(Aged([lines EXCEPT ![c] = ApplyPolicy(lines, c, mar, size, rw, data).line],
                      slots, c, limit),
                 ApplyPolicy(lines, c, mar, size, rw, data).bus)
    BY <1>2
  <1>4. c \in own
    BY <1>1, HybridVictim
  <1>5. /\ w \in Nat
        /\ Page(w) \in 0..(HybridPages - 1) /\ own = PageSlots(Page(w))
        /\ own \subseteq slots /\ own \subseteq Slots
        /\ limit \in Nat /\ limit \in 0..MAX_LRU_VALUE
    <2>1. w \in Nat
      BY <1>1, AddressAssumption
    <2>2. /\ Page(w) \in 0..(HybridPages - 1) /\ own = PageSlots(Page(w))
          /\ own \subseteq slots
      BY <2>1, PageOf, PageSearch
    <2>3. PageSlots(Page(w)) \subseteq Slots
      BY <2>2, PagesApart
    <2>4. limit \in Nat /\ limit \in 0..MAX_LRU_VALUE
      BY PageFacts
    <2> QED
      BY <2>1, <2>2, <2>3, <2>4
  <1>6. /\ Slots \subseteq 0..CacheSize
        /\ lines \in [0..CacheSize -> Line]
        /\ \A i \in Slots : lines[i] = memory_cache[i]
        /\ c \in 0..CacheSize /\ c \in Slots
    BY <1>4, <1>5, ArrayType
  <1> HIDE DEF lines, slots, own, limit
  <1>7. UsedLine(c, lines[c].lru, slots, limit, w)
    <2>1. /\ TypeOK
          /\ mar \in ByteAddr /\ size \in Sizes /\ rw \in Kinds /\ data \in Word
      OBVIOUS
    <2>2. limit \in 0..MAX_LRU_VALUE
      BY <1>5
    <2> QED
      BY ONLY <1>3, <1>6, <2>1, <2>2, AgingStep
  <1> HIDE DEF w
  <1>8. \A j \in Slots : memory_cache[j].lru \in Nat
    BY PageFacts DEF TypeOK, Line
  <1>9. ASSUME NEW p \in 0..(HybridPages - 1)
        PROVE  Bounded(PageSlots(p), limit)'
    <2>1. PageSlots(p) \in SUBSET Slots /\ Bounded(PageSlots(p), limit)
      BY <1>1, PagesApart DEF AgesBounded, limit
    <2>2. CASE p = Page(w)
      <3>1. PageSlots(p) = own
        BY <2>2, <1>5
      <3>2. \A j \in PageSlots(p) :
              memory_cache'[j].lru = IF j = c THEN limit
                                     ELSE IF memory_cache[j].lru > memory_cache[c].lru
                                          THEN memory_cache[j].lru - 1
                                     ELSE memory_cache[j].lru
        BY <3>1, <2>1, <1>5, <1>6, <1>7 DEF UsedLine
      <3>3. c \in PageSlots(p)
        BY <3>1, <1>4
      <3> QED
        BY <3>2, <3>3, <2>1, <1>5, UsedBounded
    <2>3. CASE p # Page(w)
      <3>1. c \notin PageSlots(p)
        BY <2>3, <1>4, <1>5, PagesApart
      <3>2. \A j \in PageSlots(p) : memory_cache'[j].lru <= memory_cache[j].lru
        BY <3>1, <2>1, <1>7, <1>8 DEF UsedLine
      <3> QED
        BY <3>2, <2>1, <1>5, PassedBounded
    <2> QED
      BY <2>2, <2>3
  <1>10. ASSUME NEW i \in Slots, Mapped(i)'
         PROVE  i \in OwnSlots(memory_cache'[i].address)
    <2>1. CASE i = c
      BY <2>1, <1>4, <1>7 DEF own, UsedLine
    <2>2. CASE i # c
      BY <2>2, <1>1, <1>7, <1>10 DEF AgesBounded, Mapped, UsedLine, CacheOn
    <2> QED
      BY <2>1, <2>2
  <1> QED
    BY <1>1, <1>7, <1>9, <1>10 DEF AgesBounded, limit, UsedLine

LEMMA BusAges ==
  ASSUME TypeOK, TypeOK', AgesBounded, PageLines > 1,
         NEW mar \in ByteAddr, NEW size \in Sizes, NEW rw \in Kinds, NEW data \in Word,
         bus(mar, size, rw, data)
  PROVE  AgesBounded'
  <1>1. CASE uncached_access(mar, size, rw, data)
    BY <1>1 DEF uncached_access, Settle, AgesBounded, CacheOn
  <1>2. CASE port_access(mar, size, rw, data)
    BY <1>2 DEF port_access, AgesBounded, CacheOn, Bounded, Mapped
  <1>3. CASE direct_mapping(mar, size, rw, data)
    BY <1>3 DEF direct_mapping, Cached, Settle, AgesBounded
  <1>4. CASE associative_mapping(mar, size, rw, data)
    <2>1. PICK c \in Slots :
            UsedLine(c, memory_cache[c].lru, Slots, MAX_LRU_VALUE, WORD_ADDR_CONV(mar))
      BY <1>4, AssociativeAccess
    <2>2. cache_options.mem_org = ASSOCIATIVE /\ Bounded(Slots, MAX_LRU_VALUE)
      BY <1>4 DEF associative_mapping, Cached, AgesBounded, CacheOn
    <2>3. Bounded(Slots, MAX_LRU_VALUE)'
      <3>1. Slots \in SUBSET Slots /\ MAX_LRU_VALUE \in Nat /\ c \in Slots
        BY PageFacts
      <3> QED
        BY <2>1, <2>2, <3>1, UsedBounded DEF UsedLine
    <2> QED
      BY <2>1, <2>2, <2>3 DEF AgesBounded, UsedLine
  <1>5. CASE hybrid_mapping(mar, size, rw, data)
    BY <1>5, HybridAges
  <1> QED
    BY <1>1, <1>2, <1>3, <1>4, <1>5 DEF bus

LEMMA ServiceAges ==
  ASSUME TypeOK, CacheInvariant, AgesBounded, Service
  PROVE  AgesBounded'
  <1>1. ASSUME UNCHANGED <<memory_cache, cache_options>>
        PROVE  AgesBounded'
    BY <1>1 DEF AgesBounded, CacheOn, Bounded, Mapped
  <1>2. ASSUME (CacheOn => \A i \in Slots : memory_cache[i] = Blank)'
        PROVE  AgesBounded'
    BY <1>2, BlankAgesNext
  <1>3. ~loaded /\ CacheOn => \A i \in Slots : memory_cache[i] = Blank
    BY DEF CacheInvariant
  <1>4. ASSUME NEW w \in WordAddr, NEW word \in Data, device_update(w, word)
        PROVE  AgesBounded'
    BY <1>1, <1>4 DEF device_update
  <1>5. CASE toggle_cache
    BY <1>2, <1>5 DEF toggle_cache
  <1>6. ASSUME NEW org \in Organisations, change_cache_org(org)
        PROVE  AgesBounded'
    BY <1>2, <1>3, <1>6 DEF change_cache_org, CacheOn, TypeOK
  <1>7. CASE toggle_policy
    BY <1>2, <1>3, <1>7 DEF toggle_policy, CacheOn, TypeOK
  <1>8. ASSUME NEW image \in Images, NEW named \in BOOLEAN, loader(image, named)
        PROVE  AgesBounded'
    BY <1>1, <1>8 DEF loader
  <1>9. CASE close_program
    BY <1>2, <1>9 DEF close_program, CacheOn, ResetOptions
  <1>10. ASSUME NEW mar \in ByteAddr, NEW data \in Data, change_mem_content(mar, data)
         PROVE  AgesBounded'
    BY <1>1, <1>10 DEF change_mem_content
  <1> QED
    BY <1>4, <1>5, <1>6, <1>7, <1>8, <1>9, <1>10, Zenon DEF Service

THEOREM AgesBoundedHolds ==
  ASSUME "opcode_test" \notin Features, PageLines > 1
  PROVE  Spec => []AgesBounded
  <1>1. Init => AgesBounded
    BY BlankAges DEF Init
  <1>2. TypeOK /\ TypeOK' /\ CacheInvariant /\ AgesBounded /\ [Next]_vars => AgesBounded'
    <2> SUFFICES ASSUME TypeOK, TypeOK', CacheInvariant, AgesBounded, [Next]_vars
                 PROVE  AgesBounded'
      OBVIOUS
    <2>1. ASSUME NEW mar \in ByteAddr, NEW size \in Sizes, NEW rw \in Kinds,
                 NEW data \in Inputs(rw), bus(mar, size, rw, data)
          PROVE  AgesBounded'
      BY <2>1, BusAges, InputsType
    <2>2. CASE Service
      BY <2>2, ServiceAges
    <2>3. CASE UNCHANGED vars
      BY <2>3 DEF vars, AgesBounded, CacheOn, Bounded, Mapped
    <2> QED
      BY <2>1, <2>2, <2>3 DEF Next
  <1> QED
    BY <1>1, <1>2, TypeCorrect, CacheInvariantHolds, PTL DEF Spec

\* A search that misses always finds a line below the limit, and in hybrid mapping one
\* of the page's own, for every cache of more than one line to a page: cache_index is
\* never used uninitialised (associative_mapping and hybrid_mapping).
THEOREM VictimAlwaysExists ==
  ASSUME "opcode_test" \notin Features, PageLines > 1
  PROVE  Spec => []VictimExists
  <1>1. TypeOK /\ AgesBounded => VictimExists
    BY AgesVictim
  <1> QED
    BY <1>1, AgesBoundedHolds, TypeCorrect, PTL

-----------------------------------------------------------------------------
(***************************************************************************)
(* EvictsLeastRecent: in associative mapping the ages are more than        *)
(* bounded.                                                                *)
(***************************************************************************)

\* The history changes nothing of what the cache does.
LEMMA RecencyIsCache == RecencySpec => Spec
  <1>1. RecencyInit => Init
    BY DEF RecencyInit
  <1>2. [RecencyNext]_<<vars, before>> => [Next]_vars
    BY DEF RecencyNext, Next
  <1> QED
    BY <1>1, <1>2, PTL DEF RecencySpec, Spec

\* A ranking that tells all there is to know: a mapped line is as old as its rank, a
\* blank line has age 0 and a rank below every mapped line, and of two mapped lines the
\* word of the lower was accessed before that of the higher.
Tells(r) ==
  /\ \A i \in Slots : memory_cache[i].lru = IF Mapped(i) THEN r[i] ELSE 0
  /\ \A i, j \in Slots : Mapped(i) /\ ~Mapped(j) => r[j] < r[i]
  /\ \A i, j \in Slots : Mapped(i) /\ Mapped(j) /\ r[i] < r[j] =>
       AccessedBefore(memory_cache[i].address, memory_cache[j].address)

AgesTell ==
  CacheOn /\ cache_options.mem_org = ASSOCIATIVE =>
    \E r \in Ranking(Slots, MAX_LRU_VALUE) : Tells(r)

LEMMA BlankTells ==
  (CacheOn => \A i \in Slots : memory_cache[i] = Blank) => AgesTell
  <1> SUFFICES ASSUME \A i \in Slots : memory_cache[i] = Blank
               PROVE  \E r \in Ranking(Slots, MAX_LRU_VALUE) : Tells(r)
    BY DEF AgesTell
  <1>1. Slots = 0..(0 + MAX_LRU_VALUE) /\ MAX_LRU_VALUE \in Nat
    BY PageFacts
  <1>2. PICK r : r \in Ranking(Slots, MAX_LRU_VALUE)
    BY <1>1, RankingExists
  <1>3. Tells(r)
    BY DEF Tells, Mapped, Blank
  <1> QED
    BY <1>2, <1>3

LEMMA BlankTellsNext ==
  (CacheOn => \A i \in Slots : memory_cache[i] = Blank)' => AgesTell'
  BY BlankTells, PTL

\* What the search of associative mapping finds: the line of the word; or, if no line
\* maps it, a blank line of age 0, as long as there is a blank one, and else the line of
\* rank 0.
LEMMA AssociativeVictim ==
  ASSUME TypeOK, CacheOn, CacheSize > 1,
         NEW r \in Ranking(Slots, MAX_LRU_VALUE), Tells(r),
         NEW w \in WordAddr, w # Unmapped,
         NEW c \in Candidates(memory_cache, Slots, w, MAX_LRU_VALUE)
  PROVE  /\ c \in Slots
         /\ \/ memory_cache[c].address = w
            \/ /\ \A i \in Slots : memory_cache[i].address # w
               /\ memory_cache[c].lru = 0
               /\ ~Mapped(c) \/ (r[c] = 0 /\ \A i \in Slots : Mapped(i))
  <1>1. /\ c \in Slots
        /\ memory_cache[c].address = w \/ \A j \in Slots : memory_cache[j].address # w
    BY SearchStep
  <1>2. \A i \in Slots : memory_cache[i].lru \in Nat /\ r[i] \in 0..MAX_LRU_VALUE
    <2>1. r \in [Slots -> 0..MAX_LRU_VALUE]
      BY DEF Ranking
    <2>2. \A i \in Slots : memory_cache[i].lru \in 0..MAX_LRU_VALUE
      BY DEF TypeOK, Line
    <2> QED
      BY <2>1, <2>2, PageFacts
  <1>3. PICK k \in Slots : r[k] = 0
    BY PageFacts DEF Ranking
  <1>4. memory_cache[k].lru = 0
    BY <1>3 DEF Tells
  <1>5. ASSUME \A j \in Slots : memory_cache[j].address # w
        PROVE  memory_cache[c].lru = 0
    <2> DEFINE young == {i \in Slots : memory_cache[i].lru < MAX_LRU_VALUE}
               least == {i \in young : \A j \in young : memory_cache[i].lru <= memory_cache[j].lru}
    <2>1. k \in young
      BY <1>4, PageFacts
    <2>2. c \in First(least)
      BY <1>5, <2>1 DEF Candidates
    <2>3. c \in least
      BY <2>2 DEF First
    <2> QED
      BY <2>1, <2>3, <1>2, <1>4
  <1>6. ASSUME memory_cache[c].lru = 0
        PROVE  ~Mapped(c) \/ (r[c] = 0 /\ \A i \in Slots : Mapped(i))
    <2>1. CASE ~Mapped(c)
      BY <2>1
    <2>2. CASE Mapped(c)
      <3>1. r[c] = 0
        BY <2>2, <1>1, <1>6 DEF Tells
      <3>2. ASSUME NEW i \in Slots, ~Mapped(i)
            PROVE  FALSE
        <4>1. r[i] < r[c]
          BY <1>1, <2>2, <3>2 DEF Tells
        <4> QED
          BY <4>1, <3>1, <1>2
      <3> QED
        BY <3>1, <3>2
    <2> QED
      BY <2>1, <2>2
  <1> QED
    BY <1>1, <1>5, <1>6

LEMMA AssociativeTells ==
  ASSUME TypeOK, CacheInvariant, AgesTell, CacheSize > 1,
         NEW mar \in ByteAddr, NEW size \in Sizes, NEW rw \in Kinds, NEW data \in Word,
         associative_mapping(mar, size, rw, data),
         before' = Accessed(WORD_ADDR_CONV(mar))
  PROVE  /\ AgesTell'
         /\ \A v \in MappedWords \ MappedWords' :
              /\ \A i \in Slots : Mapped(i)
              /\ \A u \in MappedWords \ {v} : AccessedBefore(v, u)
  <1> DEFINE w == WORD_ADDR_CONV(mar)
             n == MAX_LRU_VALUE
  <1>1. /\ w \in WordAddr /\ w # Unmapped
        /\ CacheOn /\ cache_options.mem_org = ASSOCIATIVE
    <2>1. w \in Nat /\ w \in WordAddr /\ DeviceWords \in Nat \ {0} /\ ~(w < DeviceWords)
      BY ByteAddress, AddressAssumption DEF associative_mapping, Cached, IsDevice
    <2> HIDE DEF w
    <2> QED
      BY <2>1 DEF associative_mapping, Cached, CacheOn, Unmapped
  <1>2. PICK c \in Candidates(memory_cache, Slots, w, n) :
          c \in Slots /\ UsedLine(c, memory_cache[c].lru, Slots, n, w)
    BY AssociativeAccess
  <1>3. before' = Accessed(w)
    OBVIOUS
  <1> HIDE DEF w
  <1>4. PICK r \in Ranking(Slots, n) : Tells(r)
    BY <1>1 DEF AgesTell
  <1>5. \/ memory_cache[c].address = w
        \/ /\ \A i \in Slots : memory_cache[i].address # w
           /\ memory_cache[c].lru = 0
           /\ ~Mapped(c) \/ (r[c] = 0 /\ \A i \in Slots : Mapped(i))
    BY <1>1, <1>2, <1>4, AssociativeVictim
  <1>6. /\ n \in Nat
        /\ \A i \in Slots : /\ memory_cache[i].lru \in Nat
                            /\ memory_cache[i].address \in WordAddr
                            /\ r[i] \in 0..n
                            /\ i # c => r[i] # r[c]
    <2>1. r \in [Slots -> 0..n] /\ \A i, j \in Slots : r[i] = r[j] => i = j
      BY DEF Ranking
    <2>2. \A i \in Slots : /\ memory_cache[i].lru \in 0..n
                           /\ memory_cache[i].address \in WordAddr
      BY DEF TypeOK, Line
    <2> QED
      BY <1>2, <2>1, <2>2, PageFacts
  <1>7. \A j \in Slots :
          /\ memory_cache'[j].lru =
               IF j = c THEN n
               ELSE IF memory_cache[j].lru > memory_cache[c].lru THEN memory_cache[j].lru - 1
               ELSE memory_cache[j].lru
          /\ memory_cache'[j].address = IF j = c THEN w ELSE memory_cache[j].address
    BY <1>2 DEF UsedLine
  <1>8. UNCHANGED cache_options
    BY <1>2 DEF UsedLine
  <1> HIDE DEF n
  \* Only the line used maps the word.
  <1>9. \A j \in Slots : j # c => memory_cache[j].address # w
    BY <1>1, <1>2, <1>5 DEF CacheInvariant, UniqueMapping, Mapped
  <1>10. /\ Mapped(c)'
         /\ \A j \in Slots : j # c => (Mapped(j)' <=> Mapped(j))
    BY <1>1, <1>2, <1>7, <1>8 DEF Mapped, CacheOn
  <1> DEFINE q == Reranked(r, Slots, c, n)
  <1>11. q \in Ranking(Slots, n)
    BY <1>2, <1>4, <1>6, RerankedIsRanking
  <1>12. \A j \in Slots : q[j] = IF j = c THEN n ELSE IF r[j] > r[c] THEN r[j] - 1 ELSE r[j]
    BY DEF Reranked
  <1> HIDE DEF q
  <1>13. /\ \A i \in Slots : memory_cache[i].lru = IF Mapped(i) THEN r[i] ELSE 0
         /\ \A i, j \in Slots : Mapped(i) /\ ~Mapped(j) => r[j] < r[i]
    BY <1>4 DEF Tells
  <1>14. ASSUME NEW i \in Slots
         PROVE  memory_cache'[i].lru = IF Mapped(i)' THEN q[i] ELSE 0
    <2>1. CASE i = c
      BY <2>1, <1>7, <1>10, <1>12
    <2>2. CASE i # c /\ ~Mapped(i)
      BY <2>2, <1>2, <1>6, <1>7, <1>10, <1>13
    <2>3. CASE i # c /\ Mapped(i)
      <3>1. memory_cache[i].lru > memory_cache[c].lru <=> r[i] > r[c]
        BY <2>3, <1>2, <1>6, <1>13
      <3> QED
        BY <3>1, <2>3, <1>7, <1>10, <1>12, <1>13
    <2> QED
      BY <2>1, <2>2, <2>3
  <1>15. ASSUME NEW i \in Slots, NEW j \in Slots, Mapped(i)', ~Mapped(j)'
         PROVE  q[j] < q[i]
    <2>1. j # c /\ ~Mapped(j)
      BY <1>15, <1>10
    <2>2. CASE i = c
      BY <2>1, <2>2, <1>2, <1>6, <1>12
    <2>3. CASE i # c
      <3>1. r[j] < r[i]
        BY <2>1, <2>3, <1>10, <1>13, <1>15
      <3> QED
        BY <3>1, <2>1, <2>3, <1>2, <1>6, <1>12
    <2> QED
      BY <2>2, <2>3
  <1>16. ASSUME NEW i \in Slots, NEW j \in Slots, Mapped(i)', Mapped(j)', q[i] < q[j]
         PROVE  AccessedBefore(memory_cache[i].address, memory_cache[j].address)'
    <2>1. i # c
      BY <1>2, <1>6, <1>12, <1>16
    <2>2. memory_cache'[i].address = memory_cache[i].address /\ memory_cache[i].address # w
      BY <2>1, <1>7, <1>9
    <2>3. CASE j = c
      <3>1. <<memory_cache[i].address, w>> \in WordAddr \X {w}
        BY <1>6
      <3>2. <<memory_cache[i].address, w>> \in before'
        BY <3>1, <2>2, <1>3 DEF Accessed
      <3> QED
        BY <3>2, <2>2, <2>3, <1>7 DEF AccessedBefore
    <2>4. CASE j # c
      <3>1. r[i] < r[j]
        BY <2>1, <2>4, <1>2, <1>6, <1>12, <1>16
      <3>2. <<memory_cache[i].address, memory_cache[j].address>> \in before
        BY <3>1, <2>1, <2>4, <1>4, <1>10, <1>16 DEF Tells, AccessedBefore
      <3>3. <<memory_cache[i].address, memory_cache[j].address>> \in before'
        BY <3>2, <2>2, <1>3 DEF Accessed
      <3> QED
        BY <3>3, <2>2, <2>4, <1>7 DEF AccessedBefore
    <2> QED
      BY <2>3, <2>4
  <1>17. AgesTell'
    BY <1>11, <1>14, <1>15, <1>16 DEF AgesTell, Tells, n
  <1>18. ASSUME NEW v \in MappedWords, v \notin MappedWords'
         PROVE  /\ \A i \in Slots : Mapped(i)
                /\ \A u \in MappedWords \ {v} : AccessedBefore(v, u)
    <2>1. PICK k \in Slots : memory_cache[k].address = v /\ v # Unmapped
      BY <1>18 DEF MappedWords
    <2>2. k = c
      <3>1. ASSUME k # c
            PROVE  FALSE
        <4>1. memory_cache'[k].address = v
          BY <3>1, <2>1, <1>7
        <4> QED
          BY <4>1, <2>1, <1>18 DEF MappedWords
      <3> QED BY <3>1
    <2>3. v # w
      <3>1. memory_cache'[c].address = w
        BY <1>2, <1>7
      <3> QED
        BY <3>1, <1>1, <1>2, <1>18 DEF MappedWords
    <2>4. r[c] = 0 /\ \A i \in Slots : Mapped(i)
      BY <2>1, <2>2, <2>3, <1>1, <1>5 DEF Mapped
    <2>5. ASSUME NEW u \in MappedWords, u # v
          PROVE  AccessedBefore(v, u)
      <3>1. PICK j \in Slots : memory_cache[j].address = u
        BY DEF MappedWords
      <3>2. j # c /\ r[c] < r[j]
        BY <3>1, <2>1, <2>2, <2>4, <2>5, <1>2, <1>6
      <3> QED
        BY <3>1, <3>2, <2>1, <2>2, <2>4, <1>2, <1>4 DEF Tells
    <2> QED
      BY <2>4, <2>5
  <1> QED
    BY <1>17, <1>18

\* A step of the cache with its history, whatever it is.
LEMMA RecencyStep ==
  ASSUME "opcode_test" \notin Features, CacheSize > 1,
         TypeOK, CacheInvariant, AgesTell, RecencyNext
  PROVE  /\ AgesTell'
         /\ loaded /\ loaded' /\ CacheOn /\ cache_options.mem_org = ASSOCIATIVE =>
              \A v \in MappedWords \ MappedWords' :
                /\ \A i \in Slots : Mapped(i)
                /\ \A u \in MappedWords \ {v} : AccessedBefore(v, u)
  <1>1. ASSUME UNCHANGED <<memory_cache, cache_options, before>>
        PROVE  AgesTell' /\ MappedWords' = MappedWords
    BY <1>1 DEF AgesTell, CacheOn, Tells, Mapped, AccessedBefore, MappedWords
  <1>2. ASSUME NEW mar \in ByteAddr, NEW size \in Sizes, NEW rw \in Kinds,
               NEW data \in Inputs(rw), bus(mar, size, rw, data),
               before' = IF CacheOn /\ ~IsDevice(mar) THEN Accessed(WORD_ADDR_CONV(mar))
                                                      ELSE before
        PROVE  /\ AgesTell'
               /\ CacheOn /\ cache_options.mem_org = ASSOCIATIVE =>
                    \A v \in MappedWords \ MappedWords' :
                      /\ \A i \in Slots : Mapped(i)
                      /\ \A u \in MappedWords \ {v} : AccessedBefore(v, u)
    <2>0. data \in Word
      BY InputsType
    <2>1. CASE uncached_access(mar, size, rw, data)
      BY <2>1 DEF uncached_access, Settle, AgesTell, CacheOn
    <2>2. CASE port_access(mar, size, rw, data)
      <3>1. UNCHANGED <<memory_cache, cache_options, before>>
        BY <1>2, <2>2 DEF port_access
      <3> QED
        BY <3>1, <1>1
    <2>3. CASE direct_mapping(mar, size, rw, data)
      BY <2>3 DEF direct_mapping, Cached, Settle, AgesTell
    <2>4. CASE associative_mapping(mar, size, rw, data)
      <3>1. before' = Accessed(WORD_ADDR_CONV(mar))
        BY <1>2, <2>4 DEF associative_mapping, Cached, CacheOn
      <3> QED
        BY <2>0, <2>4, <3>1, AssociativeTells
    <2>5. CASE hybrid_mapping(mar, size, rw, data)
      BY <2>5 DEF hybrid_mapping, Cached, Settle, AgesTell
    <2> QED
      BY <1>2, <2>1, <2>2, <2>3, <2>4, <2>5 DEF bus
  <1>3. CASE Service /\ before' = IF loaded /\ loaded' THEN before ELSE {}
    <2>1. ASSUME (CacheOn => \A i \in Slots : memory_cache[i] = Blank)'
          PROVE  AgesTell'
      BY <2>1, BlankTellsNext
    <2>2. ~loaded /\ CacheOn => \A i \in Slots : memory_cache[i] = Blank
      BY DEF CacheInvariant
    \* Behind a cache that keeps its lines: with a program loaded the history stays, and
    \* without one the lines are blank.
    <2>3. ASSUME UNCHANGED <<memory_cache, cache_options>>, loaded => loaded'
          PROVE  AgesTell' /\ MappedWords' = MappedWords
      <3>1. CASE loaded
        BY <1>1, <1>3, <2>3, <3>1
      <3>2. CASE ~loaded
        BY <2>1, <2>2, <2>3, <3>2 DEF CacheOn, MappedWords
      <3> QED
        BY <3>1, <3>2
    <2>4. ASSUME NEW w \in WordAddr, NEW word \in Data, device_update(w, word)
          PROVE  AgesTell' /\ MappedWords' = MappedWords
      BY <2>3, <2>4 DEF device_update
    <2>5. CASE toggle_cache
      BY <2>1, <2>5 DEF toggle_cache
    <2>6. ASSUME NEW org \in Organisations, change_cache_org(org)
          PROVE  AgesTell' /\ ~loaded
      BY <2>1, <2>2, <2>6 DEF change_cache_org, CacheOn, TypeOK
    <2>7. CASE toggle_policy
      BY <2>1, <2>2, <2>7 DEF toggle_policy, CacheOn, TypeOK
    <2>8. ASSUME NEW image \in Images, NEW named \in BOOLEAN, loader(image, named)
          PROVE  AgesTell' /\ MappedWords' = MappedWords
      BY <2>3, <2>8 DEF loader
    <2>9. CASE close_program
      BY <2>1, <2>9 DEF close_program, CacheOn, ResetOptions
    <2>10. ASSUME NEW mar \in ByteAddr, NEW data \in Data, change_mem_content(mar, data)
           PROVE  AgesTell' /\ MappedWords' = MappedWords
      BY <2>3, <2>10 DEF change_mem_content
    <2>11. toggle_cache \/ toggle_policy => ~loaded
      BY DEF toggle_cache, toggle_policy
    <2>12. close_program => ~loaded'
      BY DEF close_program
    <2> QED
      BY <1>3, <2>4, <2>5, <2>6, <2>7, <2>8, <2>9, <2>10, <2>11, <2>12, Zenon DEF Service
  <1> QED
    BY <1>2, <1>3 DEF RecencyNext

\* In associative mapping the ages order the mapped words as they were last accessed.
THEOREM AgesTellHolds ==
  ASSUME "opcode_test" \notin Features, CacheSize > 1
  PROVE  RecencySpec => []AgesTell
  <1>1. RecencyInit => AgesTell
    BY BlankTells DEF RecencyInit, Init
  <1>2. TypeOK /\ CacheInvariant /\ AgesTell /\ [RecencyNext]_<<vars, before>> => AgesTell'
    <2> SUFFICES ASSUME TypeOK, CacheInvariant, AgesTell, [RecencyNext]_<<vars, before>>
                 PROVE  AgesTell'
      OBVIOUS
    <2>1. CASE RecencyNext
      BY <2>1, RecencyStep
    <2>2. CASE UNCHANGED <<vars, before>>
      BY <2>2 DEF vars, AgesTell, CacheOn, Tells, Mapped, AccessedBefore
    <2> QED
      BY <2>1, <2>2
  <1> QED
    BY <1>1, <1>2, RecencyIsCache, TypeCorrect, CacheInvariantHolds, PTL DEF RecencySpec

\* The associative cache replaces a mapped word only when no line is blank, and then the
\* one whose last access is the longest ago, for every size of cache and memory
\* (associative_mapping).
THEOREM EvictionCorrect ==
  ASSUME "opcode_test" \notin Features, CacheSize > 1
  PROVE  RecencySpec => EvictsLeastRecent
  <1>1. TypeOK /\ CacheInvariant /\ AgesTell /\ [RecencyNext]_<<vars, before>> =>
          [loaded /\ loaded' /\ CacheOn /\ cache_options.mem_org = ASSOCIATIVE =>
             \A w \in MappedWords \ MappedWords' :
               /\ \A i \in Slots : Mapped(i)
               /\ \A v \in MappedWords \ {w} : AccessedBefore(w, v)]_<<vars, before>>
    BY RecencyStep
  <1> QED
    BY <1>1, AgesTellHolds, RecencyIsCache, TypeCorrect, CacheInvariantHolds, PTL
       DEF RecencySpec, EvictsLeastRecent
=============================================================================
