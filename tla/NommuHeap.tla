------------------------------ MODULE NommuHeap ------------------------------
(***************************************************************************)
(* The allocator of C++ cores, src/src/nommu_new.cpp: every block is an    *)
(* anonymous mapping of whole pages, with a header that says how long the  *)
(* mapping and the request are.  Sizes are of type size_t and wrap.        *)
(*                                                                         *)
(* mmap() is external: it fails for a length of 0, and whenever it likes.  *)
(***************************************************************************)
EXTENDS Integers

CONSTANTS Word,     \* 2^32
          Page,     \* 4096
          Header,   \* sizeof(allocation_header): 16
          Sizes,    \* the sizes programs ask for
          Pointers  \* bound: blocks alive at a time

ASSUME HeapAssumption ==
  /\ Page \in Nat \ {0} /\ Header \in 1 .. Page /\ Word \in Nat /\ Word % Page = 0
  /\ Word >= 2 * Page /\ Sizes \subseteq 0 .. Word - 1

VARIABLE block   \* the block at each pointer; kept is history: the length of
                 \* the prefix that still holds what the program put there

Free == [mapping_bytes |-> 0, requested_bytes |-> 0, kept |-> 0]
Live == {p \in Pointers : block[p].mapping_bytes # 0}

HeapInit == block = [p \in Pointers |-> Free]
-----------------------------------------------------------------------------
Least(a, b) == IF a < b THEN a ELSE b

(* mapping_allocate(): the length asked of mmap(), or 0 when the sum wraps.*)
Total(bytes) == (bytes + Header) % Word
Rounded(total) == (((total + (Page - 1)) % Word) \div Page) * Page
MappingBytes_Unchecked(bytes) == Rounded(Total(bytes))
MappingBytes(bytes) == IF Total(bytes) < bytes THEN 0 ELSE Rounded(Total(bytes))

(* A new block of which the first kept bytes are filled at once.           *)
Mapped(bytes, kept) ==
  [mapping_bytes |-> MappingBytes(bytes), requested_bytes |-> bytes, kept |-> kept]
Mappable(bytes) == MappingBytes(bytes) > 0

(* malloc() and operator new; a malloc of nothing is one of a byte.        *)
Allocate ==
  \E p \in Pointers \ Live, bytes \in Sizes \union {1} :
    Mappable(bytes) /\ block' = [block EXCEPT ![p] = Mapped(bytes, 0)]

(* calloc(): the product is checked before it is formed.                   *)
Overflows_Unchecked(count, bytes) == FALSE
Overflows(count, bytes) == bytes # 0 /\ count > (Word - 1) \div bytes

AllocateZeroed ==
  \E p \in Pointers \ Live, count, bytes \in Sizes :
    /\ ~Overflows(count, bytes)
    /\ LET product == (count * bytes) % Word IN
       /\ Mappable(product)
       /\ block' = [block EXCEPT ![p] = Mapped(product, count * bytes)]

Fill ==   \* the program writes its block
  \E p \in Live : block' = [block EXCEPT ![p].kept = block[p].requested_bytes]

Release ==   \* free(), delete and realloc(p, 0)
  \E p \in Live : block' = [block EXCEPT ![p] = Free]

(* realloc() within the mapping, which may be a size of Header less than.  *)
Fits_WholeMapping(p, bytes) == bytes <= block[p].mapping_bytes
Fits(p, bytes) == bytes <= block[p].mapping_bytes - Header

ReallocInPlace ==
  \E p \in Live, bytes \in Sizes \ {0} :
    /\ Fits(p, bytes)
    /\ block' = [block EXCEPT ![p].requested_bytes = bytes,
                              ![p].kept = Least(block[p].kept, bytes)]

(* realloc() into a new mapping, the old one released after the copy.      *)
Copied(p, bytes) == Least(bytes, block[p].requested_bytes)

ReallocMoves ==
  \E p \in Live, q \in Pointers \ Live, bytes \in Sizes \ {0} :
    /\ ~Fits(p, bytes) /\ Mappable(bytes)
    /\ block' = [block EXCEPT ![p] = Free,
                              ![q] = Mapped(bytes, Least(block[p].kept, Copied(p, bytes)))]

HeapNext == \/ Allocate \/ AllocateZeroed \/ Fill \/ Release
            \/ ReallocInPlace \/ ReallocMoves

HeapSpec == HeapInit /\ [][HeapNext]_block
-----------------------------------------------------------------------------
(* Whatever sizes are asked for, however close to the end of the address   *)
(* space, a block lies in its mapping behind its header, and what the      *)
(* allocator clears or copies lies in the block.                           *)
BlocksFit ==
  \A p \in Live :
    /\ block[p].mapping_bytes % Page = 0 /\ block[p].mapping_bytes < Word
    /\ Header + block[p].requested_bytes <= block[p].mapping_bytes
    /\ block[p].kept <= block[p].requested_bytes
=============================================================================
