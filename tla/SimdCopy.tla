------------------------------ MODULE SimdCopy ------------------------------
(***************************************************************************)
(* memcpy_dispatch (simd.rs): blocks of the width of the CPU's vectors,    *)
(* for AVX2 one narrower block, then single bytes.  Bytes are not          *)
(* modelled; `stored` records for every offset of the destination written  *)
(* the offset of the source it was read from.                              *)
(***************************************************************************)
EXTENDS Integers

VARIABLES
    cpc,             \* where the copy is: "idle", "blocks", "tail", "bytes", "done"
    level,           \* "avx2" (and above), "sse2", or "scalar" off x86_64
    length,          \* src.len()
    dst, src, left,  \* the two pointers, as offsets, and len
    stored

copyVars == <<cpc, level, length, dst, src, left, stored>>

Levels == {"avx2", "sse2", "scalar"}

CopyInit ==
    /\ cpc = "idle" /\ level = "sse2" /\ length = 0
    /\ dst = 0 /\ src = 0 /\ left = 0 /\ stored = {}

\* memcpy_dispatch is called for n bytes on a CPU of level l.
CopyStart(n, l) ==
    /\ cpc' = IF l = "scalar" THEN "bytes" ELSE "blocks"
    /\ level' = l /\ length' = n
    /\ dst' = 0 /\ src' = 0 /\ left' = n /\ stored' = {}

Width == IF level = "avx2" THEN 32 ELSE 16

\* A vector load and store of n bytes; the pointers advance.
Block(n) ==
    /\ stored' = stored \cup {<<dst + i, src + i>> : i \in 0 .. n - 1}
    /\ dst' = dst + n /\ src' = src + n /\ left' = left - n
    /\ UNCHANGED <<level, length>>

CopyBlock == cpc = "blocks" /\ left >= Width /\ Block(Width) /\ UNCHANGED cpc

CopyBlocksEnd ==
    /\ cpc = "blocks" /\ left < Width
    /\ cpc' = IF level = "avx2" THEN "tail" ELSE "bytes"
    /\ UNCHANGED <<level, length, dst, src, left, stored>>

\* A slip: the narrower block is taken for any rest.
CopyTailSlip == cpc = "tail" /\ left > 0 /\ Block(16) /\ cpc' = "bytes"

\* AVX2's 16-byte tail, taken at most once.
CopyTail == cpc = "tail" /\ left >= 16 /\ Block(16) /\ cpc' = "bytes"

CopyNoTail ==
    /\ cpc = "tail" /\ left < 16
    /\ cpc' = "bytes"
    /\ UNCHANGED <<level, length, dst, src, left, stored>>

\* The byte loop, in one step.
CopyBytes ==
    /\ cpc = "bytes"
    /\ stored' = stored \cup {<<dst + i, src + i>> : i \in 0 .. left - 1}
    /\ cpc' = "done"
    /\ UNCHANGED <<level, length, dst, src, left>>

CopyStep == CopyBlock \/ CopyBlocksEnd \/ CopyTail \/ CopyNoTail \/ CopyBytes

\* The copy by itself, for every length.
CopyBegin == \E n \in Nat, l \in Levels : cpc \in {"idle", "done"} /\ CopyStart(n, l)
CopySpec == CopyInit /\ [][CopyBegin \/ CopyStep]_copyVars

-----------------------------------------------------------------------------
\* When the copy is done every byte of the source is at its own offset of the
\* destination, whatever the length leaves for the tails; nothing beyond the
\* source has been read and nothing beyond its length written
\* (simd.rs:73-150).
CopyExact ==
    /\ stored \subseteq {<<i, i>> : i \in 0 .. length - 1}
    /\ cpc = "done" => stored = {<<i, i>> : i \in 0 .. length - 1}
=============================================================================
