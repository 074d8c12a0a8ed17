------------------------------- MODULE IpMask -------------------------------
(***************************************************************************)
(* std_ip_utils.c: prefix lengths and masks of both address families.  A   *)
(* mask is its set of set bits; bit 0 is the first one of an address on    *)
(* the wire, which in the IPv4 word in host order is the highest.          *)
(***************************************************************************)
EXTENDS Integers, FiniteSets

CONSTANTS
    Byte,       \* NBBY, eight in the code
    V4Len, V6Len    \* bytes of an address

VARIABLE a      \* [family, prefix: the length asked for, mask: std_ip_get_mask_from_prefix_len]

Bits(family) == (IF family = 4 THEN V4Len ELSE V6Len) * Byte
Width == V4Len * Byte
Word == 0..(Width - 1)

\* The low n bits of the word: (1 << n) - 1.
Low(n) == {i \in Word : i >= Width - n}

\* Mutant: it is not, and the machine shifts by nothing.
v4_prefix_len_to_mask_NoZero(n) ==
    IF n > Width THEN {}
    ELSE Word \ Low((Width - n) % Width)

\* std_ip_v4_prefix_len_to_mask; a shift by the whole width is kept apart.
v4_prefix_len_to_mask(n) ==
    IF n > Width THEN {}
    ELSE Word \ (IF n = 0 THEN Word ELSE Low(Width - n))

\* std_ip_v6_prefix_len_to_mask into a mask of zeros: a prefix of zero writes
\* nothing, one of all bits no odd byte.
v6_prefix_len_to_mask(n) ==
    LET nbytes == n \div Byte
        odd == {nbytes * Byte + i : i \in 0..((n % Byte) - 1)}
    IN  IF n = 0 THEN {}
        ELSE 0..(nbytes * Byte - 1) \cup (IF nbytes = V6Len THEN {} ELSE odd)

\* std_ip_get_mask_from_prefix_len
get_mask(family, n) == IF family = 4 THEN v4_prefix_len_to_mask(n) ELSE v6_prefix_len_to_mask(n)

\* bit_pos: a byte of ones and then zeros counts its ones, others nothing.
bit_pos(bits) == IF bits = 0..(Cardinality(bits) - 1) THEN Cardinality(bits) ELSE 0

ByteAt(mask, ix) == {i - ix * Byte : i \in {j \in mask : j \div Byte = ix}}

Sum(f, n) == LET to[i \in 0..n] == IF i = 0 THEN 0 ELSE f[i] + to[i - 1] IN to[n]

\* std_ip_v4_mask_to_prefix_len, which turns the word to the wire's order, and
\* std_ip_v6_mask_to_prefix_len
mask_to_prefix_len(family, mask) ==
    LET bytes == Bits(family) \div Byte
    IN  Sum([i \in 1..bytes |-> bit_pos(ByteAt(mask, i - 1))], bytes)

Families == {4, 6}

Init == \E family \in Families : a = [family |-> family, prefix |-> 0, mask |-> get_mask(family, 0)]

\* The caller asks for another length; of more bits than an IPv6 address has,
\* which would be written past the mask, it does not.
Ask(n) == /\ a.family = 6 => n <= Bits(6)
          /\ a' = [a EXCEPT !.prefix = n, !.mask = get_mask(a.family, n)]

Next == \E n \in 0..(Bits(6) + 1) : Ask(n)

Spec == Init /\ [][Next]_a
-----------------------------------------------------------------------------
(* Properties.                                                             *)

\* The mask of a length has that many leading bits, also none and all of them,
\* and gives the length back; IPv4 lengths past 32 give no mask.
MaskOfPrefix ==
    LET n == IF a.prefix > Bits(a.family) THEN 0 ELSE a.prefix
    IN  a.mask = 0..(n - 1) /\ mask_to_prefix_len(a.family, a.mask) = n
=============================================================================
