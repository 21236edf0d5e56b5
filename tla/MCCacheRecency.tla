--------------------------- MODULE MCCacheRecency ---------------------------
(***************************************************************************)
(* A small instance of CacheRecency: two pages of two lines, three words   *)
(* for each page, and no data.                                             *)
(***************************************************************************)
EXTENDS CacheRecency

MCZero   == {[b \in 0..1 |-> 0]}
MCNoData == {[w \in {} |-> [b \in 0..1 |-> 0]]}

\* The bytes behind the cache array are the cache settings: small numbers, so
\* the address they spell is a device word.  It is as young or as old as
\* a line can be.
MCOverrun == {[address |-> 0, contents |-> [b \in 0..1 |-> 0], dirty |-> 0, lru |-> l] :
                l \in {0, MAX_LRU_VALUE}}
=============================================================================
