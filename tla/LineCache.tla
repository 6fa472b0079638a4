----------------------------- MODULE LineCache -----------------------------
(***************************************************************************)
(* Little64V3LineCache (the V2 cache holds the same logic): a direct-      *)
(* mapped, write-through cache of bus words in front of the LSU.  A line   *)
(* is <<>> or <<[tag, data]>> with its bytes.                              *)
(***************************************************************************)
EXTENDS L64

CONSTANTS CacheLines    \* lines, 0 when the cache is not built

ASSUME LineCacheAssumption == CacheLines \in Nat

CacheReset == [i \in 0 .. (CacheLines - 1) |-> <<>>]

LineIndex(a) == LineOf(a) % CacheLines

CacheHit(c, a) ==
    /\ CacheLines > 0
    /\ c[LineIndex(a)] # <<>>
    /\ c[LineIndex(a)][1].tag = LineOf(a)

\* the bytes from a on, as many as width: dcache_load_result
CacheLoad(c, a, width) ==
    LET data == c[LineIndex(a)][1].data IN
    WordOf([i \in 0 .. 3 |-> IF i < width THEN ByteOf(data, (a % WordBytes) + i) ELSE 0])

\* store_update: the selected bytes of a line that is present
CacheUpdated(c, a, width, value) ==
    LET o == a % WordBytes
        old == c[LineIndex(a)][1].data
    IN [c EXCEPT ![LineIndex(a)][1].data =
          WordOf([i \in 0 .. 3 |-> IF i - o \in 0 .. (width - 1) THEN ByteOf(value, i - o)
                                   ELSE ByteOf(old, i)])]

\* One edge: flush_all over invalidate over store_update over fill.  update
\* is <<>> or <<a, width, value>>, fill is <<>> or <<a, value>>.
CacheClock(c, flush, invalidate, update, fill) ==
    IF flush THEN CacheReset
    ELSE IF invalidate # <<>>
         THEN IF CacheHit(c, invalidate[1]) THEN [c EXCEPT ![LineIndex(invalidate[1])] = <<>>] ELSE c
    ELSE IF update # <<>>
         THEN IF CacheHit(c, update[1]) THEN CacheUpdated(c, update[1], update[2], update[3]) ELSE c
    ELSE IF fill # <<>> /\ CacheLines > 0
         THEN [c EXCEPT ![LineIndex(fill[1])] = <<[tag |-> LineOf(fill[1]), data |-> fill[2]]>>]
    ELSE c
=============================================================================
