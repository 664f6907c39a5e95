------------------------------- MODULE MCCache ------------------------------
(* Cache for TLC.                                                          *)
EXTENDS Cache, TLC

\* Keys, buffers and callers are only compared.
Symmetric == Permutations(Keys) \cup Permutations(Buffers) \cup Permutations(Callers)
=============================================================================
