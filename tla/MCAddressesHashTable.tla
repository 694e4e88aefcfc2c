------------------------- MODULE MCAddressesHashTable -------------------------
(* XorFold, for an array whose size is a power of two. *)
EXTENDS AddressesHashTable, Bitwise

MCFold(h, n) == ((h \div n) ^^ h) % n
===============================================================================
