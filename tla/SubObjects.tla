----------------------------- MODULE SubObjects -----------------------------
(***************************************************************************)
(* What one object of the timeline leaves for another: the value holders   *)
(* of PSDToolKit.lua.  Objects are evaluated in the order of their layers, *)
(* once or several times in a frame.  A prep object puts values into the   *)
(* slot of its layer; a PSD object reads slots.  A holder is dead when it  *)
(* has been read in an earlier frame.                                      *)
(***************************************************************************)
EXTENDS Integers, SequencesExt

CONSTANTS
  Slots,   \* the slots a PSD object reads, in the order of its list
  Effects, \* effects of the PSD object that take their value from a holder
  MaxPuts  \* bound: values put into one slot in a frame

SlotSet == {Slots[i] : i \in DOMAIN Slots}
ASSUME SubObjectsAssumption == Slots \in Seq(SlotSet) /\ Effects \in Nat /\ MaxPuts \in Nat

Unused == 0
Values == {Unused, 1}

\* No holder reads like a dead one.
NoHolder == [created |-> "never", used |-> "before", values |-> <<>>]

VARIABLES
  states, \* ValueHolderStates.states; render indices only as "now", "before", "never"
  puts    \* history: what was put into each slot in this frame

Holders == [created : {"now", "before"}, used : {"never", "now", "before"},
            values : UNION {[1 .. n -> Values] : n \in 1 .. MaxPuts}]

SubTypeOK == /\ states \in [SlotSet -> Holders \cup {NoHolder}]
             /\ puts \in [SlotSet -> UNION {[1 .. n -> Values] : n \in 0 .. MaxPuts}]

SubInit == states = [s \in SlotSet |-> NoHolder] /\ puts = [s \in SlotSet |-> <<>>]

\* Mistake: the next evaluation of the same frame has the same index.
AgedNot(x) == x

\* filter_proc: the next render index.  A holder that has been read is dead from then on;
\* its values are never looked at again.
Aged(x) == IF x = "now" THEN "before" ELSE x
NextIndex ==
  /\ states' = [s \in SlotSet |-> IF Aged(states[s].used) = "before" THEN NoHolder
                                  ELSE [states[s] EXCEPT !.created = Aged(@)]]
  /\ puts' = [s \in SlotSet |-> <<>>]

\* ValueHolderStates:set
Put(s, v) ==
  /\ Len(puts[s]) < MaxPuts
  /\ states' = [states EXCEPT ![s] =
       IF states[s].created # "now"
       THEN [created |-> "now", used |-> "never", values |-> <<v>>]
       ELSE [states[s] EXCEPT !.values = Append(@, v)]]
  /\ puts' = [puts EXCEPT ![s] = Append(@, v)]

\* isdead
Alive(s) == states[s].used # "before"

\* ValueHolderStates:get marks the holders that are alive.
Marked == [s \in SlotSet |-> IF Alive(s) THEN [states[s] EXCEPT !.used = "now"] ELSE states[s]]

\* MultipleValueHolder:get: the k-th value of the first holder that has one.
Given(lists, k) ==
  LET has == {i \in DOMAIN lists : k \in DOMAIN lists[i] /\ lists[i][k] # Unused}
  IN IF has = {} THEN Unused ELSE lists[Min(has)][k]

\* addstate for each of the effects.
Asked == LET lists == [i \in DOMAIN Slots |-> IF Alive(Slots[i]) THEN states[Slots[i]].values ELSE <<>>]
         IN [k \in 1 .. Effects |-> Given(lists, k)]

\* What the objects of this frame ask for, whatever was left by earlier frames.
Expected == [k \in 1 .. Effects |-> Given([i \in DOMAIN Slots |-> puts[Slots[i]]], k)]

\* A holder that an earlier frame has left and nobody has read.
LeftOver == {s \in SlotSet : states[s].created = "before" /\ states[s].used = "never"}
=============================================================================
