------------------------------ MODULE MCShell ------------------------------
(***************************************************************************)
(* A small disk and screen: a directory "a" with an ELF program "a", and   *)
(* a binary program "aa".                                                  *)
(***************************************************************************)
EXTENDS Shell

a == <<"a">>
aa == <<"a", "a">>

MCDisk == (<<a>> :> "directory") @@ (<<a, a>> :> "elf") @@ (<<aa>> :> "binary")

==============================================================================
