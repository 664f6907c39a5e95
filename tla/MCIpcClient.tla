---------------------------- MODULE MCIpcClient ----------------------------
(***************************************************************************)
(* Instances of IpcClient for TLC.                                         *)
(***************************************************************************)
EXTENDS IpcClient, TLC

\* One command with arguments and no payload, and one with a payload and its size.
MCCommands == {"UPDP", "SRLZ"}

\* The callers of one instance do the same things.
Symmetric == Permutations(Callers)
=============================================================================
