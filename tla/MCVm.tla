-------------------------------- MODULE MCVm --------------------------------
(* An instance of Vm for TLC.  A page has three bytes, so that the pages 0, 1 *)
(* and 2 share a table and page 3 needs another, as page 512 does in the code *)
(* and an int has three bits.  The addresses are on the first and third page  *)
(* of the program, on USYSCALL and past MAXVA; the strings reach over the end *)
(* of a page.  Memory is enough for two processes of three pages.             *)
EXTENDS Vm

SomeAddrs == {1, 8, 45, 54}
SomeData  == {<<1>>, <<2, 2, 2>>}
=============================================================================
