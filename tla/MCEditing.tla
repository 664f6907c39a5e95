------------------------------ MODULE MCEditing -----------------------------
(* Editing for TLC.                                                        *)
EXTENDS Editing, TLC

\* Images and tags are only compared.
Symmetric == Permutations(Imgs) \cup Permutations(Tags)
=============================================================================
