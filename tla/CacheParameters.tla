--------------------------- MODULE CacheParameters ---------------------------
(***************************************************************************)
(* What LFU_Cache.h and LRU_Cache.h are parameterised by.  A capacity of 0 *)
(* is excluded: the first put would evict from an empty list, which is     *)
(* undefined behaviour in both.                                            *)
(***************************************************************************)
EXTENDS Integers, FiniteSets

CONSTANTS Keys,       \* the keys a program uses
          Values,     \* the values it stores
          Capacity,   \* maxsize (LFU), the size of m_size (LRU)
          MISSING     \* a search that found nothing

ASSUME KeysAssumption == IsFiniteSet(Keys)
ASSUME SizeAssumption == Capacity \in Nat \ {0}
ASSUME MissingAssumption == MISSING \notin Values
=============================================================================
