-------------------------------- MODULE Cache -------------------------------
(***************************************************************************)
(* c/cache.c and its two users in c/luafuncs.c: rendered images that are   *)
(* kept for a while after their last use.  cache_get hands out a pointer   *)
(* to the value that the entry owns, and luafn_getcache copies from it     *)
(* after the mutex has been left.  What happens under the mutex is one     *)
(* step here.                                                              *)
(***************************************************************************)
EXTENDS Collector, FiniteSets

CONSTANTS
  Keys,    \* keys of images
  Buffers, \* addresses that mem can return
  Callers, \* threads that call getcache and putcache
  MaxHold  \* bound: seconds a call takes

\* A copy of an image takes less than the minute an image is kept.
ASSUME CacheAssumption == MaxHold \in Nat /\ MaxHold < Lifetime

NoBuffer == "NULL"
NoKey == "none"
ASSUME CacheNames ==
  /\ NoBuffer \notin Buffers
  /\ Keys \cap {NoKey, "free", "own", "replaced"} = {}

VARIABLES
  store,     \* the entry of each key: value and age (now minus used_at)
  spare,     \* the value of the item the map keeps aside: what hmset has replaced is left there
  heap,      \* history: what each buffer holds
  pc,        \* where each caller is
  call,      \* its arguments and locals
  clobbered  \* history: a replaced item was overwritten before the caller had freed it

vars == <<collectorVars, store, spare, heap, pc, call, clobbered>>
entryVars == <<store, spare, heap, clobbered>>

EntryAges == 0 .. LongestAge + MaxHold
Entry == [value : Buffers \cup {NoBuffer}, age : EntryAges]
Absent == [value |-> NoBuffer, age |-> 0]

\* value is the buffer to put or the pointer got, held the seconds since the
\* call has read the clock, stale a history flag: another thread has put the key.
Call == [key : Keys \cup {NoKey}, value : Buffers \cup {NoBuffer},
         held : 0 .. MaxHold, stale : BOOLEAN]
NoCall == [key |-> NoKey, value |-> NoBuffer, held |-> 0, stale |-> FALSE]

\* A buffer is free, of a caller that has yet to put it, the newest image of a
\* key, or an image that has been replaced.
Contents == Keys \cup {"free", "own", "replaced"}

TypeOK ==
  /\ CollectorTypes
  /\ store \in [Keys -> Entry]
  /\ spare \in Buffers \cup {NoBuffer}
  /\ heap \in [Buffers -> Contents]
  /\ pc \in [Callers -> {"out", "put", "drop", "copy"}]
  /\ call \in [Callers -> Call]
  /\ clobbered \in BOOLEAN

Init ==
  /\ CollectorInit
  /\ store = [k \in Keys |-> Absent]
  /\ spare = NoBuffer
  /\ heap = [b \in Buffers |-> "free"]
  /\ pc = [c \in Callers |-> "out"]
  /\ call = [c \in Callers |-> NoCall]
  /\ clobbered = FALSE

Present == {k \in Keys : store[k].value # NoBuffer}

\* The callers that have yet to free the item they have replaced.
Dropping == {c \in Callers : pc[c] = "drop"}

\* A change of the map may overwrite the item.
Clobbers == clobbered' = (clobbered \/ (Dropping # {} /\ spare' # spare))

Leave(c) ==
  /\ pc' = [pc EXCEPT ![c] = "out"]
  /\ call' = [call EXCEPT ![c] = NoCall]

-----------------------------------------------------------------------------
(* luafn_putcache and cache_put.                                           *)

\* mem(&v), the copy into it and the clock.
PutBegin(c, k) ==
  /\ pc[c] = "out" /\ exiting = "no"
  /\ \E b \in Buffers :
       /\ heap[b] = "free"
       /\ heap' = [heap EXCEPT ![b] = "own"]
       /\ call' = [call EXCEPT ![c] = [NoCall EXCEPT !.key = k, !.value = b]]
  /\ pc' = [pc EXCEPT ![c] = "put"]
  /\ UNCHANGED <<collectorVars, store, spare, clobbered>>

\* Mistake: v is not freed when cache_put fails.
PutFailsLeaks(c) ==
  /\ pc[c] = "put"
  /\ Leave(c)
  /\ UNCHANGED <<collectorVars, entryVars>>

\* No memory for the key, for the time or in the map: luafn_putcache frees v.
PutFails(c) ==
  /\ pc[c] = "put"
  /\ heap' = [heap EXCEPT ![call[c].value] = "free"]
  /\ Leave(c)
  /\ UNCHANGED <<collectorVars, store, spare, clobbered>>

\* hmset.  The item replaced is in the map's storage (nobody frees the item itself).  A new key may
\* displace items, and those go through the same place.
PutStore(c) ==
  LET k == call[c].key
      b == call[c].value
      old == store[k].value IN
  /\ pc[c] = "put"
  /\ store' = [store EXCEPT ![k] = [value |-> b, age |-> call[c].held]]
  /\ IF old = NoBuffer
     THEN /\ heap' = [heap EXCEPT ![b] = k]
          /\ pc' = [pc EXCEPT ![c] = "out"]
          /\ spare' \in {spare} \cup {store[l].value : l \in Present}
     ELSE /\ heap' = [heap EXCEPT ![b] = k, ![old] = "replaced"]
          /\ pc' = [pc EXCEPT ![c] = "drop"]
          /\ spare' = old
  /\ Clobbers
  /\ call' = [d \in Callers |->
                IF d = c THEN NoCall
                ELSE [call[d] EXCEPT !.stale = @ \/ (pc[d] = "copy" /\ call[d].key = k)]]
  /\ UNCHANGED collectorVars

\* The item replaced is freed when the mutex has been left.
DropOld(c) ==
  /\ pc[c] = "drop"
  /\ heap' = [b \in Buffers |-> IF b = spare THEN "free" ELSE heap[b]]
  /\ spare' = NoBuffer
  /\ Leave(c)
  /\ UNCHANGED <<collectorVars, store, clobbered>>

-----------------------------------------------------------------------------
(* luafn_getcache and cache_get.                                           *)

\* Mistake: cache_get does not refresh used_at.
GetNoRefresh(c, k) ==
  /\ pc[c] = "out" /\ exiting = "no"
  /\ k \in Present
  /\ call' = [call EXCEPT ![c] = [NoCall EXCEPT !.key = k, !.value = store[k].value]]
  /\ pc' = [pc EXCEPT ![c] = "copy"]
  /\ UNCHANGED <<collectorVars, entryVars>>

\* cache_get finds the key.  (If it does not, nothing changes.)
Get(c, k) ==
  /\ pc[c] = "out" /\ exiting = "no"
  /\ k \in Present
  /\ call' = [call EXCEPT ![c] = [NoCall EXCEPT !.key = k, !.value = store[k].value]]
  /\ store' = [store EXCEPT ![k].age = 0]
  /\ pc' = [pc EXCEPT ![c] = "copy"]
  /\ UNCHANGED <<collectorVars, spare, heap, clobbered>>

\* memcpy, or an error if the destination is too small.
Copy(c) ==
  /\ pc[c] = "copy"
  /\ Leave(c)
  /\ UNCHANGED <<collectorVars, entryVars>>

-----------------------------------------------------------------------------
(* gc and cache_exit.                                                      *)

\* Removes the entries of a set of keys and frees their values.  hmdelete puts
\* the item it deletes where hmset puts the one it replaces.
Remove(old) ==
  /\ store' = [k \in Keys |-> IF k \in old THEN Absent ELSE store[k]]
  /\ heap' = [b \in Buffers |-> IF \E k \in old : store[k].value = b THEN "free" ELSE heap[b]]
  /\ spare' = IF old = {} THEN spare ELSE NoBuffer
  /\ Clobbers

\* One round of gc.
Scan ==
  /\ NextRound
  /\ Remove({k \in Present : TooOld(store[k].age)})
  /\ UNCHANGED <<pc, call>>

\* AviUtl calls filter_exit when no script runs.
ExitSignal ==
  /\ \A c \in Callers : pc[c] = "out"
  /\ Signal
  /\ UNCHANGED <<entryVars, pc, call>>

ExitJoin == Join /\ UNCHANGED <<entryVars, pc, call>>

\* The rest of cache_exit.
Free ==
  /\ exiting = "joined"
  /\ exiting' = "freed"
  /\ Remove(Present)
  /\ UNCHANGED <<gc, cvvar, due, lost, pc, call>>

Gc == (GcSignalled \/ GcTimeout \/ GcTimedOut \/ GcFails) /\ UNCHANGED <<entryVars, pc, call>>

GrowOlder(age) == IF age < LongestAge + MaxHold THEN age + 1 ELSE age

\* A second passes.
Tick ==
  /\ exiting # "freed"
  /\ \A c \in Callers : pc[c] \in {"put", "copy"} => call[c].held < MaxHold
  /\ CollectorTick
  /\ store' = [k \in Keys |-> [store[k] EXCEPT !.age = GrowOlder(store[k].age)]]
  /\ call' = [c \in Callers |->
                IF pc[c] \in {"put", "copy"} THEN [call[c] EXCEPT !.held = @ + 1] ELSE call[c]]
  /\ UNCHANGED <<spare, heap, clobbered, pc>>

Access(c) ==
  \/ \E k \in Keys : PutBegin(c, k) \/ Get(c, k)
  \/ PutFails(c) \/ PutStore(c) \/ DropOld(c) \/ Copy(c)

Next ==
  \/ \E c \in Callers : Access(c)
  \/ Gc \/ Scan \/ Tick
  \/ ExitSignal \/ ExitJoin \/ Free

Spec == Init /\ [][Next]_vars

-----------------------------------------------------------------------------
(* Properties.                                                             *)

\* What luafn_getcache copies is the newest image of its key, not freed memory,
\* although it copies without the mutex: only another thread that has put the
\* same key meanwhile can have taken it away, or one that has freed the wrong item.
BorrowedIsKept ==
  \A c \in Callers : pc[c] = "copy" =>
    heap[call[c].value] = call[c].key \/ call[c].stale \/ clobbered

\* Every buffer has one owner: an entry, a caller that has yet to put it, or the
\* item that a caller has yet to free.  So nothing leaks, nothing is freed twice and
\* cache_exit leaves nothing, until the item that a caller has yet to free is overwritten.
OneOwner ==
  /\ TypeOK
  /\ ~clobbered =>
       /\ \A k \in Present : heap[store[k].value] = k
       /\ \A b \in Buffers :
            \/ heap[b] = "free"
            \/ \E k \in Present : store[k].value = b
            \/ \E c \in Callers : pc[c] = "put" /\ call[c].value = b
            \/ spare = b /\ Dropping # {}
=============================================================================
