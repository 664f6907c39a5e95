----------------------------- MODULE RemoteCall -----------------------------
(***************************************************************************)
(* What c/ipc.c promises to the code that calls an ipc_* function: a call  *)
(* of another process.  One call is inside at a time, the other process    *)
(* carries a command out at most once and only while its call is inside,   *)
(* and a call that returns success has been carried out.  The two last     *)
(* promises end when something has gone wrong that nobody can repair.      *)
(***************************************************************************)
EXTENDS Naturals

CONSTANT Callers

VARIABLES
  state,  \* of each caller: "idle", "waiting" or "inside"
  id,     \* the number of its command
  result, \* of its last call: "none" while there is none, "success" or "error"
  done,   \* the commands that were carried out
  broken  \* the promise is off

vars == <<state, id, result, done, broken>>

Init ==
  /\ state = [c \in Callers |-> "idle"] /\ id = [c \in Callers |-> 0]
  /\ result = [c \in Callers |-> "none"]
  /\ done = {} /\ broken = FALSE

\* The number of a call is that of no call before it.
Call(c) ==
  /\ state[c] = "idle" /\ state' = [state EXCEPT ![c] = "waiting"]
  /\ id'[c] \in Nat \ done /\ \A d \in Callers : id[d] < id'[c]
  /\ id' = [id EXCEPT ![c] = id'[c]]
  /\ result' = [result EXCEPT ![c] = "none"]
  /\ UNCHANGED <<done, broken>>

Enter(c) ==
  /\ state[c] = "waiting" /\ \A d \in Callers : state[d] # "inside"
  /\ state' = [state EXCEPT ![c] = "inside"]
  /\ UNCHANGED <<id, result, done, broken>>

Serve ==
  /\ \E c \in Callers : state[c] = "inside" /\ id[c] \notin done /\ done' = done \cup {id[c]}
  /\ UNCHANGED <<state, id, result, broken>>

\* A command of a call that has returned with an error.
ServeLate ==
  /\ broken
  /\ done \subseteq done' /\ \A n \in done' \ done : \E c \in Callers : n <= id[c]
  /\ UNCHANGED <<state, id, result, broken>>

Return(c) ==
  /\ state[c] = "inside" /\ state' = [state EXCEPT ![c] = "idle"]
  /\ \E r \in {"success", "error"} :
       /\ r = "success" => id[c] \in done \/ broken
       /\ result' = [result EXCEPT ![c] = r]
  /\ UNCHANGED <<id, done, broken>>

Break == broken' = TRUE /\ UNCHANGED <<state, id, result, done>>

Next == Serve \/ ServeLate \/ Break \/ \E c \in Callers : Call(c) \/ Enter(c) \/ Return(c)

Spec == Init /\ [][Next]_vars
=============================================================================
