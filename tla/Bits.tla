-------------------------------- MODULE Bits --------------------------------
(***************************************************************************)
(* Bit arrays (std_bit_masks.c) in the hands of a caller that keeps free   *)
(* numbers in one: it creates the array, sets and clears bits, and asks    *)
(* for the first or last set bit.  An array is whole bytes; an array value *)
(* is its set of set bits.  Bits of the last byte past the length are the  *)
(* array's, too.                                                           *)
(***************************************************************************)
EXTENDS Integers, FiniteSetsExt

CONSTANTS
    Byte,       \* BITS_PER_BYTE, eight in the code
    Lengths     \* lengths of arrays, in bits

VARIABLE b      \* [len: length, on: set bits]

\* STD_BYTES_FOR_BITS, bittobytelen
Bytes(len) == len \div Byte + (IF len % Byte = 0 THEN 0 ELSE 1)
All(len) == 0..(Bytes(len) * Byte - 1)

\* std_bitmap_create_array_clear_bits, std_bitmap_create_array
Init == \E len \in Lengths : \E on \in {{}, All(len)} : b = [len |-> len, on |-> on]

\* STD_BIT_ARRAY_SET, STD_BIT_ARRAY_CLR, std_complement_bitmaparray
Set(i) == b' = [b EXCEPT !.on = @ \cup {i}]
Clear(i) == b' = [b EXCEPT !.on = @ \ {i}]
Complement == b' = [b EXCEPT !.on = All(b.len) \ @]

Next == Complement \/ \E i \in 0..(b.len - 1) : Set(i) \/ Clear(i)

Spec == Init /\ [][Next]_b

\* The bits of byte ix, by their place in it.
ByteAt(ix) == {i - ix * Byte : i \in {j \in b.on : j \div Byte = ix}}

\* lowest_bit and highest_bit: places from one, zero for no bit.
Lowest(bits) == IF bits = {} THEN 0 ELSE Min(bits) + 1
Highest(bits) == IF bits = {} THEN 0 ELSE Max(bits) + 1

\* std_find_first_bit8 masks the places below from.  The mask of
\* std_find_last_bit8, all ones shifted right in 32 bits, keeps the whole byte.
first_bit8(bits, from) == Lowest({i \in bits : i >= from})
last_bit8(bits, from) == Highest(bits)

NonZero(ixs) == {ix \in ixs : ByteAt(ix) # {}}

\* Mutant: the byte the search begins in is looked at whole.
find_first_bit_Whole(from) ==
    IF from >= b.len THEN -1
    ELSE LET later == NonZero((from \div Byte)..(Bytes(b.len) - 1))
         IN  IF later = {} THEN -1
             ELSE first_bit8(ByteAt(Min(later)), 0) - 1 + Min(later) * Byte

\* std_find_first_bit
find_first_bit(from) ==
    IF from >= b.len THEN -1
    ELSE LET ix == from \div Byte
             pos == first_bit8(ByteAt(ix), from % Byte)
             later == NonZero((IF from % Byte = 0 THEN ix ELSE ix + 1)..(Bytes(b.len) - 1))
         IN  IF from % Byte # 0 /\ pos # 0 THEN pos - 1 + ix * Byte
             ELSE IF later = {} THEN -1
             ELSE first_bit8(ByteAt(Min(later)), 0) - 1 + Min(later) * Byte

\* Mutant: the byte index is one too small after the odd byte.
find_last_bit_Skips(from) ==
    IF from >= b.len THEN -1
    ELSE LET end == b.len - from
             mx == Bytes(end) - 1
             pos == last_bit8(ByteAt(mx), end % Byte)
             before == NonZero(0..(IF end % Byte = 0 THEN mx ELSE mx - 2))
         IN  IF end % Byte # 0 /\ pos # 0 THEN pos - 1 + mx * Byte
             ELSE IF before = {} THEN -1
             ELSE last_bit8(ByteAt(Max(before)), 0) - 1 + Max(before) * Byte

\* std_find_last_bit counts from back from the length.
find_last_bit(from) ==
    IF from >= b.len THEN -1
    ELSE LET end == b.len - from
             mx == Bytes(end) - 1
             pos == last_bit8(ByteAt(mx), end % Byte)
             before == NonZero(0..(IF end % Byte = 0 THEN mx ELSE mx - 1))
         IN  IF end % Byte # 0 /\ pos # 0 THEN pos - 1 + mx * Byte
             ELSE IF before = {} THEN -1
             ELSE last_bit8(ByteAt(Max(before)), 0) - 1 + Max(before) * Byte
-----------------------------------------------------------------------------
(* Properties.                                                             *)

\* From any bit, the first search gives the nearest set bit at or after it, so
\* that a caller that goes on behind each answer meets every set bit once, and
\* last those past the length, which are set since the array was created full
\* or complemented.
FirstIsNearest ==
    \A from \in 0..(b.len - 1) :
        LET later == {i \in b.on : i >= from}
        IN  find_first_bit(from) = IF later = {} THEN -1 ELSE Min(later)

\* The last search, from so many bits before the end as the unit test has it
\* (std_bit_mask_ut.cpp:52; the position itself by std_bit_masks.h:151), passes
\* over no set bit below its start, and gives one that is there.  Begun inside
\* a byte it may give a later bit of that byte, for the mask takes none away:
\* it is the nearest one below only from a byte boundary, or from the end of an
\* array with clear padding.
LastIsNearest ==
    \A from \in 0..(b.len - 1) :
        LET end == b.len - from
            found == find_last_bit(from)
            below == {i \in b.on : i < end}
        IN  /\ found \in b.on \cup {-1}
            /\ \A i \in below : i <= found
            /\ end % Byte = 0 \/ (from = 0 /\ \A i \in b.on : i < b.len) =>
                 found = IF below = {} THEN -1 ELSE Max(below)
=============================================================================
