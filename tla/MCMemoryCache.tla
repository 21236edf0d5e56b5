--------------------------- MODULE MCMemoryCache ---------------------------
(***************************************************************************)
(* Small instances of MemoryCache.  Word 0 stands for the device ports.    *)
(***************************************************************************)
EXTENDS MemoryCache, TLC

\* A word of two bytes, low byte first.
W(low, high) == [b \in 0..1 |-> IF b = 0 THEN low ELSE high]

\* A word whose bytes differ; together with byte writes and zeroed memory it
\* reaches all four words over {0, 1}.
MCData == {W(1, 0)}
MCZero == {W(0, 0)}

\* One image that sets a cached word and leaves the others alone, and none.
MCImages == {w :> W(1, 1) : w \in {1}}
MCNoData == {[w \in {} |-> W(0, 0)]}

\* The bytes behind the cache array are the cache settings: small numbers, so
\* the address they spell is a device word.  Every age is tried.
MCOverrun == {[address |-> 0, contents |-> W(0, 0), dirty |-> 0, lru |-> l] :
                l \in 0..MAX_LRU_VALUE}
=============================================================================
