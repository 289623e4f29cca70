----------------------------- MODULE FastWrite ------------------------------
(***************************************************************************)
(* The streaming writer of the internal flash driver                       *)
(* (Platform/Drivers/internalflash/wm_internal_fls.c): data is collected   *)
(* in a one sector RAM cache (gsflscache) and a sector is erased and       *)
(* programmed when it is full, when another sector is addressed, or when   *)
(* the writer is destroyed.  gsSector says which sector the cache is for;  *)
(* it outlives the cache.  Addresses count cells, SectorSize to a sector.  *)
(*                                                                         *)
(* The module has no specification of its own: FwUp, its one user,         *)
(* composes these actions with the firmware update task.  fls_lock is held *)
(* through one call and no other caller shares this state, so a call is    *)
(* the atomic steps below: the first part, then one step per loop turn.    *)
(***************************************************************************)
EXTENDS Integers, FiniteSets, FiniteSetsExt

CONSTANTS
    SectorSize,   \* cells per sector, INSIDE_FLS_SECTOR_SIZE
    SectorCount,  \* sectors of the chip, getFlashDensity() / sector size
    NoCache,      \* gsflscache == NULL
    Junk          \* contents of fresh heap memory, or read through NULL

ASSUME FlashAssumption ==
    /\ SectorSize \in Nat \ {0}
    /\ SectorCount \in Nat \ {0, 1}

Addr == 0 .. SectorSize * SectorCount - 1
Offset == 0 .. SectorSize - 1
SectorOf(a) == a \div SectorSize
OffsetOf(a) == a % SectorSize

VARIABLES
    nor,       \* the flash array
    cache,     \* *gsflscache
    gsSector,
    todo       \* the rest of the tls_fls_fast_write call in progress

flashVars == <<nor, cache, gsSector, todo>>

NoWrite == [offset |-> 0, src |-> Junk, pos |-> 0, len |-> 0]

FlashInit ==
    /\ nor = [a \in Addr |-> Junk]
    /\ cache = NoCache
    /\ gsSector = 0
    /\ todo = NoWrite

CacheAt(o) == IF cache = NoCache THEN Junk ELSE cache[o]

(* tls_fls_flush_sector: erase and program sector s from contents c; a     *)
(* sector past the end of the chip is refused.                             *)
Flushed(s, c) == [a \in Addr |-> IF SectorOf(a) = s THEN c[OffsetOf(a)] ELSE nor[a]]
Cached == [o \in Offset |-> CacheAt(o)]

(* tls_fls_fast_write_init: an existing cache is kept.                     *)
FastInit ==
    /\ cache' = IF cache = NoCache THEN [o \in Offset |-> Junk] ELSE cache
    /\ UNCHANGED <<nor, gsSector, todo>>

(* The same when the allocation fails: the -1 is the only trace of it.     *)
FastInitNoMem == cache = NoCache /\ UNCHANGED flashVars

(* tls_fls_fast_write(addr, buf, len), up to the loop.  The buffer holds   *)
(* cells pos .. pos + len - 1 of file src.                                 *)
FastBegin(addr, src, pos, len) ==
    /\ nor' = IF SectorOf(addr) # gsSector /\ gsSector # 0
              THEN Flushed(gsSector, Cached) ELSE nor
    /\ gsSector' = SectorOf(addr)
    /\ todo' = [offset |-> OffsetOf(addr), src |-> src, pos |-> pos, len |-> len]
    /\ UNCHANGED cache

(* One turn of the loop: what fits into the sector is copied to the cache, *)
(* a full sector is flushed.                                               *)
WholeSector == SectorSize - todo.offset                              \* mutant
PieceLen == Min({todo.len, SectorSize - todo.offset})
Merged == [o \in Offset |->
             IF o \in todo.offset .. todo.offset + PieceLen - 1
             THEN <<todo.src, todo.pos + o - todo.offset>> ELSE CacheAt(o)]
FullEarly == todo.offset + PieceLen >= SectorSize - 1                \* mutant
SectorFull == todo.offset + PieceLen >= SectorSize
FastPiece ==
    /\ todo.len > 0
    /\ cache' = IF cache = NoCache THEN NoCache ELSE Merged
    /\ nor' = IF ~SectorFull THEN nor
              ELSE Flushed(gsSector, IF cache = NoCache THEN Cached ELSE Merged)
    /\ gsSector' = IF SectorFull THEN gsSector + 1 ELSE gsSector
    /\ todo' = [todo EXCEPT !.offset = 0, !.pos = @ + PieceLen, !.len = @ - PieceLen]

(* tls_fls_fast_write_destroy: flushes the cache to gsSector, whatever it  *)
(* holds, and frees it; gsSector is not reset.                             *)
FastDestroy ==
    /\ nor' = IF cache = NoCache THEN nor ELSE Flushed(gsSector, Cached)
    /\ cache' = NoCache
    /\ UNCHANGED <<gsSector, todo>>
=============================================================================
