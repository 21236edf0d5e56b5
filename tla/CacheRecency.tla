---------------------------- MODULE CacheRecency ----------------------------
(***************************************************************************)
(* The cache with a memory of its own history: "before" holds <<v, w>>     *)
(* when word w was accessed through the cache since it was last reset, and *)
(* word v was not accessed since.  The code keeps no such record; the five *)
(* LRU bits of every line are meant to stand for it.                       *)
(***************************************************************************)
EXTENDS MemoryCache

VARIABLE before

RecencyInit == Init /\ before = {}

\* Every other word was last accessed before w, and w before no other word.
Accessed(w) == {p \in before \cup (WordAddr \X {w}) : p[1] # w}

RecencyNext ==
  \/ \E mar \in ByteAddr, size \in Sizes, rw \in Kinds :
       \E data \in Inputs(rw) :
         /\ bus(mar, size, rw, data)
         /\ before' = IF CacheOn /\ ~IsDevice(mar) THEN Accessed(WORD_ADDR_CONV(mar))
                                                   ELSE before
  \/ /\ Service
     /\ before' = IF loaded /\ loaded' THEN before ELSE {}

RecencySpec == RecencyInit /\ [][RecencyNext]_<<vars, before>>

AccessedBefore(v, w) == <<v, w>> \in before

\* The LRU bits tell the truth: the associative cache replaces a mapped word
\* only when no line is blank, and then the one whose last access is the
\* longest ago (associative_mapping, lines 171-193).
EvictsLeastRecent ==
  [][loaded /\ loaded' /\ CacheOn /\ cache_options.mem_org = ASSOCIATIVE =>
       \A w \in MappedWords \ MappedWords' :
         /\ \A i \in Slots : Mapped(i)
         /\ \A v \in MappedWords \ {w} : AccessedBefore(w, v)]_<<vars, before>>
=============================================================================
