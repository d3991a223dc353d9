-------------------------- MODULE MCAddressSpaces --------------------------
(***************************************************************************)
(* Small instances of AddressSpaces for TLC.                               *)
(***************************************************************************)
EXTENDS AddressSpaces

\* Page 1 is the program, page 2 its heap and page 3 the mmap area, which
\* shares a table with the program.
MCTableOf == <<1, 2, 1>>
MCImage == <<1>>
============================================================================
