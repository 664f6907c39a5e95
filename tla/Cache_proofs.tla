---------------------------- MODULE Cache_proofs ----------------------------
(***************************************************************************)
(* Who owns the images of c/cache.c, and that what luafn_getcache copies   *)
(* outside the mutex stays: for any number of keys, buffers and callers,   *)
(* any interval and lifetime, any delay of the gc thread, and copies that  *)
(* take less time than an image is kept.                                   *)
(***************************************************************************)
EXTENDS Cache, TLAPS

-----------------------------------------------------------------------------
(* The types of the gc thread and the clock.                               *)

\* A round is scanned when it is due.
RoundDue == gc \in {"late", "scan"} => due <= 0

\* A step of the thread itself, of the exit function, of the clock, or of nobody.
GcStep == GcSignalled \/ GcTimeout \/ GcTimedOut \/ GcFails
Freed == exiting = "joined" /\ exiting' = "freed" /\ UNCHANGED <<gc, cvvar, due, lost>>
CollectorStep == GcStep \/ NextRound \/ Signal \/ Join \/ CollectorTick \/ Freed \/ UNCHANGED collectorVars

\* The thread starts in the wait, with its types.
LEMMA CollectorStarts ==
  ASSUME CollectorInit
  PROVE  CollectorTypes /\ RoundDue
<1>1. Interval \in Nat /\ MaxLag \in Nat
  BY CollectorAssumption
<1>2. 2 * Interval \in -MaxLag .. 2 * Interval
  BY <1>1
<1> QED BY <1>2 DEF CollectorInit, CollectorTypes, RoundDue

\* The types of the thread, and that it scans when a round is due, are inductive.
LEMMA CollectorKeeps ==
  ASSUME CollectorTypes, RoundDue, CollectorStep
  PROVE  CollectorTypes' /\ RoundDue'
<1>1. /\ Interval \in Nat /\ MaxLag \in Nat /\ Interval > 0
      /\ due \in Int /\ -MaxLag <= due /\ due <= 2 * Interval
  BY CollectorAssumption DEF CollectorTypes
<1>2. CASE GcStep
  <2>1. CollectorTypes'
    BY <1>2 DEF GcStep, GcSignalled, GcTimeout, GcTimedOut, GcFails, CollectorTypes
  <2>2. RoundDue'
    BY <1>1, <1>2 DEF GcStep, GcSignalled, GcTimeout, GcTimedOut, GcFails, RoundDue
  <2> QED BY <2>1, <2>2
<1>3. CASE NextRound
  <2>1. due <= 0
    BY <1>3 DEF NextRound, RoundDue
  <2>2. due + Interval \in -MaxLag .. 2 * Interval
    BY <1>1, <2>1
  <2> QED BY <1>3, <2>2 DEF NextRound, CollectorTypes, RoundDue
<1>4. CASE Signal \/ Join \/ Freed \/ UNCHANGED collectorVars
  BY <1>4 DEF Signal, Join, Freed, collectorVars, CollectorTypes, RoundDue
<1>5. CASE CollectorTick
  <2>1. due' = due \/ (due > -MaxLag /\ due' = due - 1)
    BY <1>5 DEF CollectorTick
  <2>2. due' \in -MaxLag .. 2 * Interval /\ due' <= due
    BY <1>1, <2>1
  <2>3. CollectorTypes'
    BY <1>5, <2>2 DEF CollectorTick, CollectorTypes
  <2>4. RoundDue'
    BY <1>1, <1>5, <2>2 DEF CollectorTick, RoundDue
  <2> QED BY <2>3, <2>4
<1> QED BY <1>2, <1>3, <1>4, <1>5 DEF CollectorStep

-----------------------------------------------------------------------------
(* The inductive invariant.                                                *)

\* No script runs any more when cache_exit begins.
QuietAtExit == exiting # "no" => \A c \in Callers : pc[c] = "out"

\* A caller that puts has a key and a buffer.
Putting == \A c \in Callers : pc[c] = "put" => call[c].key \in Keys /\ call[c].value \in Buffers

\* The value of an entry holds the newest image of its key, a value to be freed is not
\* that of an entry, and nobody else has what a caller is about to put.
Owners ==
  /\ \A k \in Present : heap[store[k].value] = k
  /\ Dropping # {} /\ spare # NoBuffer => heap[spare] = "replaced"
  /\ \A c \in Callers : pc[c] = "put" => heap[call[c].value] = "own"
  /\ \A c, d \in Callers :
       pc[c] = "put" /\ pc[d] = "put" /\ call[c].value = call[d].value => c = d

\* A borrowed value is that of its entry, used last when it was borrowed or later.
Borrowed ==
  \A c \in Callers : pc[c] = "copy" =>
    /\ call[c].key \in Keys
    /\ call[c].stale \/ /\ call[c].key \in Present
                        /\ store[call[c].key].value = call[c].value
                        /\ store[call[c].key].age <= call[c].held

NothingLeaks ==
  \A b \in Buffers :
    \/ heap[b] = "free"
    \/ \E k \in Present : store[k].value = b
    \/ \E c \in Callers : pc[c] = "put" /\ call[c].value = b
    \/ spare = b /\ Dropping # {}

\* The inductive invariant.
Inv ==
  /\ TypeOK /\ RoundDue
  /\ QuietAtExit /\ Putting /\ Borrowed
  /\ ~clobbered => Owners /\ NothingLeaks

-----------------------------------------------------------------------------
(* Types.                                                                  *)

\* Every step is one of the gc thread, of the exit function, of the clock or of none of them.
LEMMA NextIsCollectorStep ==
  ASSUME [Next]_vars
  PROVE  CollectorStep
BY DEF Next, vars, Access, PutBegin, PutFails, PutStore, DropOld, Get, Copy, Gc, Scan, Tick, ExitSignal,
       ExitJoin, Free, CollectorStep, GcStep, Freed, collectorVars

\* What time does to ages, and that 0 and the time of a call are ages.
LEMMA AgesOfEntries ==
  /\ EntryAges \subseteq Nat
  /\ 0 .. MaxHold \subseteq EntryAges /\ 0 \in 0 .. MaxHold
  /\ \A age \in EntryAges : GrowOlder(age) \in EntryAges /\ GrowOlder(age) <= age + 1
<1>1. Interval \in Nat /\ Lifetime \in Nat /\ MaxLag \in Nat /\ MaxHold \in Nat
  BY CollectorAssumption, CacheAssumption
<1> QED BY <1>1 DEF EntryAges, LongestAge, GrowOlder

\* An absent entry and a call that has not begun have their types.
LEMMA NothingIsTyped ==
  /\ Absent \in Entry
  /\ NoCall \in Call
  /\ \A k \in Keys, b \in Buffers : [NoCall EXCEPT !.key = k, !.value = b] \in Call
BY AgesOfEntries DEF Absent, Entry, NoCall, Call

\* A step keeps the types of the entries, ...
LEMMA StoreKept ==
  ASSUME TypeOK, Putting, [Next]_vars
  PROVE  store' \in [Keys -> Entry]
<1>1. store \in [Keys -> Entry] /\ call \in [Callers -> Call]
  BY DEF TypeOK
<1>2. ASSUME NEW c \in Callers, PutStore(c)
      PROVE  store' \in [Keys -> Entry]
  <2>1. call[c].value \in Buffers /\ call[c].held \in EntryAges
    BY <1>1, <1>2, AgesOfEntries DEF PutStore, Putting, Call
  <2>2. [value |-> call[c].value, age |-> call[c].held] \in Entry
    BY <2>1 DEF Entry
  <2>3. store' = [store EXCEPT ![call[c].key] = [value |-> call[c].value, age |-> call[c].held]]
    BY <1>2 DEF PutStore
  <2> QED BY <1>1, <2>2, <2>3
<1>3. ASSUME NEW c \in Callers, NEW k \in Keys, Get(c, k)
      PROVE  store' \in [Keys -> Entry]
  <2>1. [store[k] EXCEPT !.age = 0] \in Entry
    BY <1>1, AgesOfEntries DEF Entry
  <2> QED BY <1>1, <1>3, <2>1 DEF Get
<1>4. ASSUME Scan \/ Free
      PROVE  store' \in [Keys -> Entry]
  BY <1>1, <1>4, NothingIsTyped DEF Scan, Free, Remove
<1>5. ASSUME Tick
      PROVE  store' \in [Keys -> Entry]
  <2>1. \A k \in Keys : [store[k] EXCEPT !.age = GrowOlder(store[k].age)] \in Entry
    BY <1>1, AgesOfEntries DEF Entry
  <2> QED BY <1>5, <2>1 DEF Tick
<1> QED BY <1>1, <1>2, <1>3, <1>4, <1>5
        DEF Next, vars, Access, PutBegin, PutFails, DropOld, Copy, Gc, ExitSignal, ExitJoin, entryVars

\* ... of the heap ...
LEMMA HeapKept ==
  ASSUME TypeOK, Putting, [Next]_vars
  PROVE  /\ heap' \in [Buffers -> Contents]
         /\ spare' \in Buffers \cup {NoBuffer}
         /\ clobbered' \in BOOLEAN
<1>1. /\ store \in [Keys -> Entry] /\ call \in [Callers -> Call] /\ heap \in [Buffers -> Contents]
      /\ spare \in Buffers \cup {NoBuffer} /\ clobbered \in BOOLEAN
  BY DEF TypeOK
<1>2. ASSUME NEW c \in Callers, PutStore(c)
      PROVE  /\ heap' \in [Buffers -> Contents] /\ spare' \in Buffers \cup {NoBuffer}
             /\ clobbered' \in BOOLEAN
  <2>1. call[c].key \in Keys
    BY <1>2 DEF PutStore, Putting
  <2>2. store[call[c].key].value \in Buffers \cup {NoBuffer} /\ call[c].key \in Contents
        /\ "replaced" \in Contents
    BY <1>1, <2>1 DEF Entry, Contents
  <2>3. \A l \in Present : store[l].value \in Buffers
    BY <1>1 DEF Present, Entry
  <2>4. spare' \in Buffers \cup {NoBuffer}
    BY <1>1, <1>2, <2>2, <2>3 DEF PutStore
  <2> QED BY <1>1, <1>2, <2>2, <2>4 DEF PutStore, Clobbers
<1>3. ASSUME NEW c \in Callers, NEW k \in Keys, PutBegin(c, k)
      PROVE  /\ heap' \in [Buffers -> Contents] /\ spare' \in Buffers \cup {NoBuffer}
             /\ clobbered' \in BOOLEAN
  BY <1>1, <1>3 DEF PutBegin, Contents
<1>4. ASSUME NEW c \in Callers, PutFails(c) \/ DropOld(c)
      PROVE  /\ heap' \in [Buffers -> Contents] /\ spare' \in Buffers \cup {NoBuffer}
             /\ clobbered' \in BOOLEAN
  BY <1>1, <1>4 DEF PutFails, DropOld, Contents
<1>5. ASSUME NEW old, Remove(old)
      PROVE  /\ heap' \in [Buffers -> Contents] /\ spare' \in Buffers \cup {NoBuffer}
             /\ clobbered' \in BOOLEAN
  BY <1>1, <1>5 DEF Remove, Clobbers, Contents
<1> QED BY <1>1, <1>2, <1>3, <1>4, <1>5
        DEF Next, vars, Access, Get, Copy, Gc, Scan, Free, Tick, ExitSignal, ExitJoin, entryVars

\* ... and of the callers.
LEMMA CallersKept ==
  ASSUME TypeOK, [Next]_vars
  PROVE  /\ pc' \in [Callers -> {"out", "put", "drop", "copy"}]
         /\ call' \in [Callers -> Call]
<1>1. /\ store \in [Keys -> Entry] /\ call \in [Callers -> Call]
      /\ pc \in [Callers -> {"out", "put", "drop", "copy"}]
  BY DEF TypeOK
<1>2. ASSUME NEW c \in Callers, PutStore(c)
      PROVE  call' \in [Callers -> Call]
  <2>1. \A d \in Callers : \A b \in BOOLEAN : [call[d] EXCEPT !.stale = b] \in Call
    BY <1>1 DEF Call
  <2>2. \A d \in Callers : call[d].stale \in BOOLEAN
    BY <1>1 DEF Call
  <2>3. \A d \in Callers : (call[d].stale \/ (pc[d] = "copy" /\ call[d].key = call[c].key)) \in BOOLEAN
    BY <2>2
  <2>4. call' = [d \in Callers |->
                  IF d = c THEN NoCall
                  ELSE [call[d] EXCEPT !.stale = call[d].stale \/ (pc[d] = "copy" /\ call[d].key = call[c].key)]]
    BY <1>1, <1>2 DEF PutStore, Call
  <2> QED BY <2>1, <2>3, <2>4, NothingIsTyped
<1>3. ASSUME NEW c \in Callers, NEW k \in Keys, PutBegin(c, k) \/ Get(c, k)
      PROVE  call' \in [Callers -> Call]
  <2>1. \A b \in Buffers : [NoCall EXCEPT !.key = k, !.value = b] \in Call
    BY NothingIsTyped
  <2>2. k \in Present => store[k].value \in Buffers
    BY <1>1 DEF Present, Entry
  <2> QED BY <1>1, <1>3, <2>1, <2>2 DEF PutBegin, Get
<1>4. ASSUME NEW c \in Callers, PutFails(c) \/ DropOld(c) \/ Copy(c)
      PROVE  call' \in [Callers -> Call]
  BY <1>1, <1>4, NothingIsTyped DEF PutFails, DropOld, Copy, Leave
<1>5. ASSUME Tick
      PROVE  call' \in [Callers -> Call]
  <2>1. ASSUME NEW c \in Callers, call[c].held < MaxHold
        PROVE  [call[c] EXCEPT !.held = call[c].held + 1] \in Call
    BY <1>1, <2>1, CacheAssumption DEF Call
  <2>2. \A c \in Callers : [call[c] EXCEPT !.held = @ + 1] = [call[c] EXCEPT !.held = call[c].held + 1]
    BY <1>1 DEF Call
  <2> QED BY <1>1, <1>5, <2>1, <2>2 DEF Tick
<1>6. pc' \in [Callers -> {"out", "put", "drop", "copy"}]
  BY <1>1 DEF Next, vars, Access, PutBegin, PutFails, PutStore, DropOld, Get, Copy, Leave, Gc, Scan, Tick,
              ExitSignal, ExitJoin, Free
<1>7. call' \in [Callers -> Call]
  BY <1>1, <1>2, <1>3, <1>4, <1>5 DEF Next, vars, Access, Gc, Scan, ExitSignal, ExitJoin, Free
<1> QED BY <1>6, <1>7

LEMMA TypesKept ==
  ASSUME TypeOK, RoundDue, Putting, [Next]_vars
  PROVE  TypeOK' /\ RoundDue'
<1>1. CollectorTypes' /\ RoundDue'
  BY NextIsCollectorStep, CollectorKeeps DEF TypeOK
<1> QED BY <1>1, StoreKept, HeapKept, CallersKept DEF TypeOK

-----------------------------------------------------------------------------
(* What the steps that change the map or the heap do.                      *)

\* A step that leaves every value and every buffer alone.
Keeps ==
  /\ \A k \in Keys : store'[k].value = store[k].value
  /\ heap' = heap /\ spare' = spare /\ clobbered' = clobbered

LEMMA OtherSteps ==
  ASSUME TypeOK, [Next]_vars
  PROVE  \/ \E c \in Callers : \/ PutFails(c) \/ PutStore(c) \/ DropOld(c)
                               \/ \E k \in Keys : PutBegin(c, k)
         \/ \E old \in SUBSET Present : Remove(old) /\ UNCHANGED <<pc, call>>
         \/ /\ Keeps
            /\ \A d \in Callers : \/ pc'[d] = pc[d] /\ call'[d].key = call[d].key /\ call'[d].value = call[d].value
                                  \/ pc[d] \in {"out", "copy"} /\ pc'[d] \in {"out", "copy"}
<1>1. /\ store \in [Keys -> Entry] /\ call \in [Callers -> Call]
      /\ pc \in [Callers -> {"out", "put", "drop", "copy"}]
  BY DEF TypeOK
<1>2. ASSUME NEW c \in Callers, NEW k \in Keys, Get(c, k)
      PROVE  /\ Keeps
             /\ \A d \in Callers : \/ pc'[d] = pc[d] /\ call'[d].key = call[d].key /\ call'[d].value = call[d].value
                                   \/ pc[d] \in {"out", "copy"} /\ pc'[d] \in {"out", "copy"}
  <2>1. Keeps
    BY <1>1, <1>2 DEF Get, Keeps, Entry
  <2>2. \A d \in Callers \ {c} : pc'[d] = pc[d] /\ call'[d] = call[d]
    BY <1>1, <1>2 DEF Get
  <2>3. pc[c] = "out" /\ pc'[c] = "copy"
    BY <1>1, <1>2 DEF Get
  <2> QED BY <2>1, <2>2, <2>3
<1>3. ASSUME NEW c \in Callers, Copy(c)
      PROVE  /\ Keeps
             /\ \A d \in Callers : \/ pc'[d] = pc[d] /\ call'[d].key = call[d].key /\ call'[d].value = call[d].value
                                   \/ pc[d] \in {"out", "copy"} /\ pc'[d] \in {"out", "copy"}
  <2>1. Keeps
    BY <1>3 DEF Copy, Keeps, entryVars
  <2>2. \A d \in Callers \ {c} : pc'[d] = pc[d] /\ call'[d] = call[d]
    BY <1>1, <1>3 DEF Copy, Leave
  <2>3. pc[c] = "copy" /\ pc'[c] = "out"
    BY <1>1, <1>3 DEF Copy, Leave
  <2> QED BY <2>1, <2>2, <2>3
<1>4. ASSUME Tick
      PROVE  /\ Keeps
             /\ \A d \in Callers : pc'[d] = pc[d] /\ call'[d].key = call[d].key /\ call'[d].value = call[d].value
  <2>1. Keeps
    BY <1>1, <1>4 DEF Tick, Keeps, Entry
  <2>2. \A d \in Callers : call'[d].key = call[d].key /\ call'[d].value = call[d].value
    BY <1>1, <1>4 DEF Tick, Call
  <2> QED BY <1>4, <2>1, <2>2 DEF Tick
<1>5. ASSUME Scan \/ Free
      PROVE  \E old \in SUBSET Present : Remove(old) /\ UNCHANGED <<pc, call>>
  <2>1. {k \in Present : TooOld(store[k].age)} \in SUBSET Present /\ Present \in SUBSET Present
    OBVIOUS
  <2> QED BY <1>5, <2>1 DEF Scan, Free
<1>6. ASSUME UNCHANGED vars \/ Gc \/ ExitSignal \/ ExitJoin
      PROVE  Keeps /\ UNCHANGED <<pc, call>>
  BY <1>6 DEF vars, Gc, ExitSignal, ExitJoin, Keeps, entryVars
<1> QED BY <1>2, <1>3, <1>4, <1>5, <1>6 DEF Next, Access

\* The map can only lose what it has kept aside for a caller once it has overwritten it.
LEMMA ClobberedStays ==
  ASSUME TypeOK, [Next]_vars, ~clobbered'
  PROVE  ~clobbered
BY DEF Next, vars, Access, PutBegin, PutFails, PutStore, DropOld, Get, Copy, Gc, Scan, Remove, Clobbers, Tick,
       ExitSignal, ExitJoin, Free, entryVars

\* Removing entries: the others stay ...
LEMMA EntriesAfterRemove ==
  ASSUME TypeOK, NEW old \in SUBSET Present, Remove(old)
  PROVE  Present' = Present \ old /\ \A k \in Present' : store'[k] = store[k]
<1>1. store \in [Keys -> Entry]
  BY DEF TypeOK
<1> QED BY <1>1 DEF Remove, Present, Absent

\* ... and what they have is not freed.
LEMMA AfterRemove ==
  ASSUME TypeOK, Owners, NEW old \in SUBSET Present, Remove(old)
  PROVE  /\ \A k \in Present' : heap'[store[k].value] = k
         /\ \A b \in Buffers : heap[b] \notin Keys => heap'[b] = heap[b]
         /\ \A b \in Buffers : heap'[b] = "free" \/ (heap'[b] = heap[b] /\ \A k \in old : store[k].value # b)
         /\ spare' \in {spare, NoBuffer}
<1>1. store \in [Keys -> Entry] /\ heap \in [Buffers -> Contents]
  BY DEF TypeOK
<1>2. Present' = Present \ old
  BY EntriesAfterRemove
<1>3. \A k \in Present : k \in Keys /\ store[k].value \in Buffers /\ heap[store[k].value] = k
  BY <1>1 DEF Present, Entry, Owners
<1>4. \A b \in Buffers : heap'[b] = IF \E k \in old : store[k].value = b THEN "free" ELSE heap[b]
  BY DEF Remove
<1>5. \A k \in Present' : heap'[store[k].value] = k
  BY <1>2, <1>3, <1>4
<1>6. \A b \in Buffers : heap[b] \notin Keys => heap'[b] = heap[b]
  BY <1>3, <1>4
<1> QED BY <1>4, <1>5, <1>6 DEF Remove

\* Putting an image: its key has it ...
LEMMA EntriesAfterPut ==
  ASSUME TypeOK, Putting, NEW c \in Callers, PutStore(c)
  PROVE  LET k == call[c].key
         IN  /\ k \in Keys /\ Present' = Present \cup {k}
             /\ store'[k].value = call[c].value /\ call[c].value \in Buffers
             /\ \A l \in Keys \ {k} : store'[l] = store[l]
             /\ pc'[c] = IF k \in Present THEN "drop" ELSE "out"
             /\ \A d \in Callers \ {c} : pc'[d] = pc[d]
<1> DEFINE k == call[c].key
<1>1. store \in [Keys -> Entry] /\ pc \in [Callers -> {"out", "put", "drop", "copy"}]
  BY DEF TypeOK
<1>2. k \in Keys /\ call[c].value \in Buffers
  BY DEF PutStore, Putting
<1>3. store' = [store EXCEPT ![k] = [value |-> call[c].value, age |-> call[c].held]]
  BY DEF PutStore
<1>4. /\ store'[k].value = call[c].value /\ \A l \in Keys \ {k} : store'[l] = store[l]
  BY <1>1, <1>2, <1>3
<1>5. Present' = Present \cup {k}
  BY <1>2, <1>4, CacheNames DEF Present
<1>6. pc' = [pc EXCEPT ![c] = IF k \in Present THEN "drop" ELSE "out"]
  BY <1>2 DEF PutStore, Present
<1> QED BY <1>1, <1>2, <1>4, <1>5, <1>6

\* ... and what the key had before is set aside, unless that overwrites what another caller has yet to free.
LEMMA AfterPut ==
  ASSUME TypeOK, Putting, Owners, NEW c \in Callers, PutStore(c), ~clobbered'
  PROVE  LET k == call[c].key
             old == store[k].value
         IN  /\ heap'[call[c].value] = k
             /\ k \in Present => /\ spare' = old /\ heap'[old] = "replaced" /\ old \in Buffers
                                 /\ Dropping = {} \/ spare = old
             /\ k \notin Present => Dropping = {} \/ spare' = spare
             /\ \A b \in Buffers \ {call[c].value} : heap'[b] = heap[b] \/ (k \in Present /\ b = old)
<1> DEFINE k == call[c].key
           old == store[k].value
<1>1. store \in [Keys -> Entry] /\ heap \in [Buffers -> Contents]
  BY DEF TypeOK
<1>2. k \in Keys /\ call[c].value \in Buffers /\ heap[call[c].value] = "own"
  BY DEF PutStore, Putting, Owners
<1>3. k \in Present => old \in Buffers /\ old # call[c].value
  <2>1. "own" \notin Keys
    BY CacheNames
  <2> QED BY <1>1, <1>2, <2>1 DEF Present, Owners, Entry
<1>4. Dropping = {} \/ spare' = spare
  BY DEF PutStore, Clobbers
<1>5. CASE k \in Present
  <2>1. heap' = [heap EXCEPT ![call[c].value] = k, ![old] = "replaced"] /\ spare' = old
    BY <1>5 DEF PutStore, Present
  <2> QED BY <1>1, <1>2, <1>3, <1>4, <1>5, <2>1
<1>6. CASE k \notin Present
  <2>1. heap' = [heap EXCEPT ![call[c].value] = k]
    BY <1>2, <1>6 DEF PutStore, Present
  <2> QED BY <1>1, <1>2, <1>4, <1>6, <2>1
<1> QED BY <1>5, <1>6

\* The calls of the others go on, and those that copy the image replaced learn of it.
LEMMA CallsAfterPut ==
  ASSUME TypeOK, NEW c \in Callers, PutStore(c), NEW d \in Callers \ {c}
  PROVE  /\ call'[d].key = call[d].key /\ call'[d].value = call[d].value /\ call'[d].held = call[d].held
         /\ call'[d].stale <=> call[d].stale \/ (pc[d] = "copy" /\ call[d].key = call[c].key)
<1>1. call[d] \in Call
  BY DEF TypeOK
<1>2. call'[d] = [call[d] EXCEPT !.stale = call[d].stale \/ (pc[d] = "copy" /\ call[d].key = call[c].key)]
  BY <1>1 DEF PutStore, Call
<1> QED BY <1>1, <1>2 DEF Call

-----------------------------------------------------------------------------
(* The owners.                                                             *)

LEMMA QuietKept ==
  ASSUME TypeOK, QuietAtExit, [Next]_vars
  PROVE  QuietAtExit'
<1>1. pc \in [Callers -> {"out", "put", "drop", "copy"}]
  BY DEF TypeOK
<1>2. ASSUME NEW c \in Callers, Access(c)
      PROVE  exiting' = exiting /\ exiting = "no"
  BY <1>2 DEF Access, PutBegin, PutFails, PutStore, DropOld, Get, Copy, collectorVars, QuietAtExit
<1>3. ASSUME Gc \/ Scan \/ Tick \/ ExitSignal \/ ExitJoin \/ Free \/ UNCHANGED vars
      PROVE  QuietAtExit'
  BY <1>3 DEF Gc, GcSignalled, GcTimeout, GcTimedOut, GcFails, Scan, NextRound, Tick, CollectorTick, ExitSignal,
              Signal, ExitJoin, Join, Free, vars, collectorVars, QuietAtExit
<1> QED BY <1>2, <1>3 DEF Next, QuietAtExit

\* A caller that puts keeps its key and its buffer.
LEMMA PuttingKept ==
  ASSUME TypeOK, Putting, [Next]_vars
  PROVE  Putting'
<1>1. /\ call \in [Callers -> Call] /\ pc \in [Callers -> {"out", "put", "drop", "copy"}]
  BY DEF TypeOK
<1>2. ASSUME NEW c \in Callers, NEW k \in Keys, PutBegin(c, k)
      PROVE  Putting'
  <2>1. PICK b \in Buffers : call' = [call EXCEPT ![c] = [NoCall EXCEPT !.key = k, !.value = b]]
    BY <1>2 DEF PutBegin
  <2>2. call'[c].key = k /\ call'[c].value = b
    BY <1>1, <2>1 DEF NoCall
  <2>3. \A d \in Callers \ {c} : call'[d] = call[d] /\ pc'[d] = pc[d]
    BY <1>1, <1>2, <2>1 DEF PutBegin
  <2> QED BY <2>2, <2>3 DEF Putting
<1>3. ASSUME NEW c \in Callers, PutStore(c)
      PROVE  Putting'
  <2>1. pc'[c] # "put" /\ \A d \in Callers \ {c} : pc'[d] = pc[d]
    BY <1>3, EntriesAfterPut
  <2>2. \A d \in Callers \ {c} : call'[d].key = call[d].key /\ call'[d].value = call[d].value
    BY <1>3, CallsAfterPut
  <2> QED BY <2>1, <2>2 DEF Putting
<1>4. ASSUME NEW c \in Callers, PutFails(c) \/ DropOld(c)
      PROVE  Putting'
  <2>1. pc'[c] = "out" /\ \A d \in Callers \ {c} : call'[d] = call[d] /\ pc'[d] = pc[d]
    BY <1>1, <1>4 DEF PutFails, DropOld, Leave
  <2> QED BY <2>1 DEF Putting
<1>5. ASSUME \A d \in Callers : \/ pc'[d] = pc[d] /\ call'[d].key = call[d].key /\ call'[d].value = call[d].value
                                \/ pc[d] \in {"out", "copy"} /\ pc'[d] \in {"out", "copy"}
      PROVE  Putting'
  BY <1>5 DEF Putting
<1> QED BY <1>2, <1>3, <1>4, <1>5, OtherSteps

LEMMA OwnersKept ==
  ASSUME TypeOK, Putting, Owners, [Next]_vars, ~clobbered'
  PROVE  Owners'
<1>1. /\ store \in [Keys -> Entry] /\ heap \in [Buffers -> Contents] /\ spare \in Buffers \cup {NoBuffer}
      /\ call \in [Callers -> Call] /\ pc \in [Callers -> {"out", "put", "drop", "copy"}]
  BY DEF TypeOK
<1>2. /\ "own" \notin Keys /\ "free" \notin Keys /\ "replaced" \notin Keys /\ NoBuffer \notin Buffers
  BY CacheNames
<1>3. \A k \in Present : k \in Keys /\ store[k].value \in Buffers /\ heap[store[k].value] = k
  BY <1>1 DEF Present, Entry, Owners
<1>4. ASSUME NEW c \in Callers, NEW k \in Keys, PutBegin(c, k)
      PROVE  Owners'
  <2>1. PICK b \in Buffers : /\ heap[b] = "free" /\ heap' = [heap EXCEPT ![b] = "own"]
                             /\ call' = [call EXCEPT ![c] = [NoCall EXCEPT !.key = k, !.value = b]]
    BY <1>4 DEF PutBegin
  <2>2. call'[c].key = k /\ call'[c].value = b
    BY <1>1, <2>1 DEF NoCall
  <2>3. \A d \in Callers \ {c} : call'[d] = call[d] /\ pc'[d] = pc[d]
    BY <1>1, <1>4, <2>1 DEF PutBegin
  <2>4. store' = store /\ spare' = spare /\ Dropping' = Dropping
    <3>1. pc[c] = "out" /\ pc'[c] = "put"
      BY <1>1, <1>4 DEF PutBegin
    <3> QED BY <1>4, <2>3, <3>1 DEF PutBegin, Dropping
  <2>5. (\A l \in Present : heap[store[l].value] = l)'
    BY <1>1, <1>2, <1>3, <2>1, <2>4 DEF Present
  <2>6. Dropping' # {} /\ spare' # NoBuffer => heap'[spare'] = "replaced"
    BY <1>1, <1>2, <2>1, <2>4 DEF Owners
  <2>7. \A d \in Callers : pc'[d] = "put" => call'[d].value \in Buffers /\ heap'[call'[d].value] = "own"
    BY <1>1, <2>1, <2>2, <2>3 DEF Putting, Owners
  <2>8. \A d, e \in Callers : pc'[d] = "put" /\ pc'[e] = "put" /\ call'[d].value = call'[e].value => d = e
    BY <1>1, <2>1, <2>2, <2>3 DEF Owners
  <2> QED BY <2>5, <2>6, <2>7, <2>8 DEF Owners
<1>5. ASSUME NEW c \in Callers, PutFails(c)
      PROVE  Owners'
  <2>1. /\ pc[c] = "put" /\ heap' = [heap EXCEPT ![call[c].value] = "free"] /\ store' = store /\ spare' = spare
        /\ pc' = [pc EXCEPT ![c] = "out"] /\ \A d \in Callers \ {c} : call'[d] = call[d]
    BY <1>1, <1>5 DEF PutFails, Leave
  <2>2. heap[call[c].value] = "own" /\ call[c].value \in Buffers
    BY <2>1 DEF Putting, Owners
  <2>7. Dropping' = Dropping
    BY <1>1, <2>1 DEF Dropping
  <2>3. (\A l \in Present : heap[store[l].value] = l)'
    BY <1>1, <1>2, <1>3, <2>1, <2>2 DEF Present
  <2>4. Dropping' # {} /\ spare' # NoBuffer => heap'[spare'] = "replaced"
    BY <1>1, <2>1, <2>2, <2>7 DEF Owners
  <2>5. \A d \in Callers : pc'[d] = "put" => d # c /\ pc[d] = "put" /\ call'[d] = call[d]
    BY <1>1, <2>1
  <2>6. \A d \in Callers : pc'[d] = "put" => call[d].value # call[c].value
    BY <2>1, <2>5 DEF Owners
  <2> QED BY <1>1, <2>1, <2>3, <2>4, <2>5, <2>6 DEF Putting, Owners
<1>6. ASSUME NEW c \in Callers, PutStore(c)
      PROVE  Owners'
  <2> DEFINE k == call[c].key
             old == store[k].value
  <2>1. /\ k \in Keys /\ Present' = Present \cup {k}
        /\ store'[k].value = call[c].value /\ call[c].value \in Buffers
        /\ \A l \in Keys \ {k} : store'[l] = store[l]
        /\ heap'[call[c].value] = k
        /\ k \in Present => spare' = old /\ heap'[old] = "replaced"
        /\ k \notin Present => Dropping = {} \/ spare' = spare
        /\ pc'[c] = IF k \in Present THEN "drop" ELSE "out"
        /\ \A b \in Buffers \ {call[c].value} : heap'[b] = heap[b] \/ (k \in Present /\ b = old)
        /\ \A d \in Callers \ {c} : pc'[d] = pc[d]
    BY <1>6, AfterPut, EntriesAfterPut
  <2>2. pc[c] = "put" /\ heap[call[c].value] = "own"
    BY <1>6 DEF PutStore, Owners
  <2>3. \A l \in Present' : heap'[store'[l].value] = l
    <3>1. \A l \in Present \ {k} : store[l].value # call[c].value
      BY <1>2, <1>3, <2>2
    <3>2. \A l \in Present \ {k} : k \in Present => store[l].value # old
      BY <1>3
    <3> QED BY <1>3, <2>1, <3>1, <3>2
  <2>4. Dropping' # {} /\ spare' # NoBuffer => heap'[spare'] = "replaced"
    <3>1. CASE k \in Present
      BY <2>1, <3>1
    <3>2. CASE k \notin Present
      <4>1. Dropping' = Dropping
        BY <2>1, <2>2, <3>2 DEF Dropping
      <4> QED BY <1>1, <2>1, <2>2, <3>2, <4>1 DEF Owners
    <3> QED BY <3>1, <3>2
  <2>5. \A d \in Callers : pc'[d] = "put" =>
          /\ d # c /\ pc[d] = "put" /\ call'[d].key = call[d].key /\ call'[d].value = call[d].value
          /\ call[d].value # call[c].value
    <3>1. \A d \in Callers : pc'[d] = "put" => d # c /\ pc[d] = "put"
      BY <2>1
    <3>2. \A d \in Callers \ {c} : call'[d].key = call[d].key /\ call'[d].value = call[d].value
      BY <1>6, CallsAfterPut
    <3> QED BY <2>2, <3>1, <3>2 DEF Owners
  <2>6. \A d \in Callers : pc'[d] = "put" => heap'[call'[d].value] = "own" /\ call'[d].value \in Buffers
    <3>1. \A d \in Callers : pc'[d] = "put" => heap[call[d].value] = "own" /\ call[d].value \in Buffers
      BY <2>5 DEF Putting, Owners
    <3>2. k \in Present => heap[old] = k
      BY <1>3
    <3> QED BY <1>2, <2>1, <2>5, <3>1, <3>2
  <2> QED BY <2>3, <2>4, <2>5, <2>6 DEF Owners
<1>7. ASSUME NEW c \in Callers, DropOld(c)
      PROVE  Owners'
  <2>1. /\ heap' = [b \in Buffers |-> IF b = spare THEN "free" ELSE heap[b]] /\ spare' = NoBuffer /\ store' = store
        /\ pc' = [pc EXCEPT ![c] = "out"] /\ \A d \in Callers \ {c} : call'[d] = call[d]
    BY <1>1, <1>7 DEF DropOld, Leave
  <2>6. c \in Dropping
    BY <1>7 DEF DropOld, Dropping
  <2>2. \A b \in Buffers : heap[b] # "replaced" => heap'[b] = heap[b]
    BY <1>2, <2>1, <2>6 DEF Owners
  <2>3. (\A l \in Present : heap[store[l].value] = l)'
    BY <1>2, <1>3, <2>1, <2>2 DEF Present
  <2>4. \A d \in Callers : pc'[d] = "put" => pc[d] = "put" /\ call'[d] = call[d]
    BY <1>1, <2>1
  <2> QED BY <1>2, <2>1, <2>2, <2>3, <2>4 DEF Putting, Owners
<1>8. ASSUME NEW old \in SUBSET Present, Remove(old), UNCHANGED <<pc, call>>
      PROVE  Owners'
  <2>1. /\ \A k \in Present' : store'[k] = store[k] /\ heap'[store[k].value] = k
        /\ \A b \in Buffers : heap[b] \notin Keys => heap'[b] = heap[b]
        /\ spare' \in {spare, NoBuffer}
    BY <1>8, AfterRemove, EntriesAfterRemove
  <2>2. \A k \in Present' : heap'[store'[k].value] = k
    BY <2>1
  <2>3. Dropping' # {} /\ spare' # NoBuffer => heap'[spare'] = "replaced"
    BY <1>1, <1>2, <1>8, <2>1 DEF Owners, Dropping
  <2> QED BY <1>2, <1>8, <2>1, <2>2, <2>3 DEF Putting, Owners
<1>9. ASSUME Keeps,
             \A d \in Callers : \/ pc'[d] = pc[d] /\ call'[d].key = call[d].key /\ call'[d].value = call[d].value
                                \/ pc[d] \in {"out", "copy"} /\ pc'[d] \in {"out", "copy"}
      PROVE  Owners'
  <2>1. Present' = Present /\ \A k \in Present' : store'[k].value = store[k].value
    BY <1>9 DEF Keeps, Present
  <2>2. \A d \in Callers : pc'[d] = "put" =>
          pc[d] = "put" /\ call'[d].key = call[d].key /\ call'[d].value = call[d].value
    BY <1>9
  <2>3. Dropping' = Dropping
    BY <1>9 DEF Dropping
  <2> QED BY <1>9, <2>1, <2>2, <2>3 DEF Keeps, Owners
<1> QED BY <1>4, <1>5, <1>6, <1>7, <1>8, <1>9, OtherSteps

-----------------------------------------------------------------------------
(* The borrowed values.                                                    *)

\* What the thread of gc finds too old in a due round is older than any call.
LEMMA OldIsNotHeld ==
  ASSUME TypeOK, RoundDue, NextRound, NEW age \in EntryAges, TooOld(age)
  PROVE  MaxHold < age
<1>1. due \in Int /\ due <= 0 /\ Lifetime \in Nat /\ MaxHold \in Nat /\ MaxHold < Lifetime /\ age \in Nat
  BY CollectorAssumption, CacheAssumption, AgesOfEntries DEF TypeOK, CollectorTypes, NextRound, RoundDue
<1>2. due + age >= Lifetime
  BY DEF TooOld
<1> QED BY <1>1, <1>2

\* Only a put of the same key takes away what a caller copies: the gc thread would have to find the
\* entry older than the call, and cache_exit does not begin while a caller copies.
LEMMA BorrowedKept ==
  ASSUME TypeOK, RoundDue, QuietAtExit, Putting, Borrowed, [Next]_vars
  PROVE  Borrowed'
<1>1. /\ store \in [Keys -> Entry] /\ call \in [Callers -> Call]
      /\ pc \in [Callers -> {"out", "put", "drop", "copy"}]
  BY DEF TypeOK
<1>2. ASSUME NEW c \in Callers, NEW k \in Keys, Get(c, k)
      PROVE  Borrowed'
  <2>1. /\ call'[c].key = k /\ call'[c].value = store[k].value /\ call'[c].held = 0
    BY <1>1, <1>2 DEF Get, NoCall
  <2>2. \A d \in Callers \ {c} : pc'[d] = pc[d] /\ call'[d] = call[d]
    BY <1>1, <1>2 DEF Get
  <2>3. /\ \A l \in Keys : store'[l].value = store[l].value
        /\ \A l \in Keys : l # k => store'[l].age = store[l].age
        /\ store'[k].age = 0
    BY <1>1, <1>2 DEF Get, Entry
  <2>4. Present' = Present
    BY <2>3 DEF Present
  <2>5. k \in Present
    BY <1>2 DEF Get
  <2>6. \A d \in Callers : call[d].held \in Nat
    BY <1>1, AgesOfEntries DEF Call
  <2>7. ASSUME NEW d \in Callers \ {c}, pc'[d] = "copy"
        PROVE  /\ call'[d].key \in Keys
               /\ call'[d].stale \/ /\ call'[d].key \in Present'
                                    /\ store'[call'[d].key].value = call'[d].value
                                    /\ store'[call'[d].key].age <= call'[d].held
    BY <2>2, <2>3, <2>4, <2>6, <2>7 DEF Borrowed
  <2>8. store'[k].age <= call'[c].held
    BY <2>1, <2>3
  <2> QED BY <2>1, <2>3, <2>4, <2>5, <2>7, <2>8 DEF Borrowed
<1>3. ASSUME NEW c \in Callers, PutStore(c)
      PROVE  Borrowed'
  <2>1. \A d \in Callers : pc'[d] = "copy" => d # c /\ pc[d] = "copy"
    <3>1. pc'[c] # "copy" /\ \A d \in Callers \ {c} : pc'[d] = pc[d]
      BY <1>1, <1>3, EntriesAfterPut
    <3> QED BY <3>1
  <2>2. \A l \in Keys \ {call[c].key} : store'[l] = store[l] /\ (l \in Present => l \in Present')
    BY <1>3, EntriesAfterPut
  <2>3. \A d \in Callers : pc'[d] = "copy" =>
          /\ call'[d].key = call[d].key /\ call'[d].value = call[d].value /\ call'[d].held = call[d].held
          /\ call'[d].stale <=> call[d].stale \/ call[d].key = call[c].key
    BY <1>3, <2>1, CallsAfterPut
  <2> QED BY <2>1, <2>2, <2>3 DEF Borrowed
<1>4. ASSUME NEW old \in SUBSET Present, Remove(old), UNCHANGED <<pc, call>>,
             \A d \in Callers : pc[d] = "copy" /\ ~call[d].stale => call[d].key \notin old
      PROVE  Borrowed'
  <2>1. Present' = Present \ old /\ \A k \in Present' : store'[k] = store[k]
    BY <1>4, EntriesAfterRemove
  <2> QED BY <1>4, <2>1 DEF Borrowed
<1>5. ASSUME Scan
      PROVE  Borrowed'
  <2> DEFINE old == {k \in Present : TooOld(store[k].age)}
  <2>1. Remove(old) /\ UNCHANGED <<pc, call>> /\ old \in SUBSET Present
    BY <1>5 DEF Scan
  <2>2. ASSUME NEW d \in Callers, pc[d] = "copy", ~call[d].stale
        PROVE  call[d].key \notin old
    <3>1. store[call[d].key].age <= call[d].held /\ call[d].key \in Keys
      BY <2>2 DEF Borrowed
    <3>2. store[call[d].key].age \in EntryAges /\ call[d].held \in 0 .. MaxHold
      BY <1>1, <3>1 DEF Entry, Call
    <3>3. ~(MaxHold < store[call[d].key].age)
      <4>1. store[call[d].key].age \in Nat /\ MaxHold \in Nat
        BY <3>2, AgesOfEntries, CacheAssumption
      <4> QED BY <3>1, <3>2, <4>1
    <3> QED BY <1>5, <3>2, <3>3, OldIsNotHeld DEF Scan
  <2> QED BY <1>4, <2>1, <2>2
<1>6. ASSUME Free
      PROVE  Borrowed'
  <2>1. \A d \in Callers : pc[d] # "copy"
    BY <1>6 DEF Free, QuietAtExit
  <2> QED BY <1>6, <2>1 DEF Free, Borrowed
<1>7. ASSUME Tick
      PROVE  Borrowed'
  <2>1. \A k \in Keys : store'[k].value = store[k].value /\ store'[k].age <= store[k].age + 1
    BY <1>1, <1>7, AgesOfEntries DEF Tick, Entry
  <2>2. Present' = Present /\ pc' = pc
    BY <1>7, <2>1 DEF Tick, Present
  <2>3. \A d \in Callers : pc[d] = "copy" =>
          /\ call'[d].key = call[d].key /\ call'[d].value = call[d].value /\ call'[d].stale = call[d].stale
          /\ call'[d].held = call[d].held + 1
    BY <1>1, <1>7 DEF Tick, Call
  <2>4. \A k \in Keys : store[k].age \in Nat /\ store'[k].age \in Nat
    <3>1. store' \in [Keys -> Entry]
      BY StoreKept
    <3> QED BY <1>1, <3>1, AgesOfEntries DEF Entry
  <2>5. \A d \in Callers : call[d].held \in Nat
    BY <1>1, CacheAssumption DEF Call
  <2>6. \A x, y, h \in Nat : x <= y + 1 /\ y <= h => x <= h + 1
    OBVIOUS
  <2> QED BY <2>1, <2>2, <2>3, <2>4, <2>5, <2>6 DEF Borrowed
<1>8. ASSUME NEW c \in Callers, PutFails(c) \/ DropOld(c) \/ Copy(c) \/ \E k \in Keys : PutBegin(c, k)
      PROVE  Borrowed'
  <2>1. store' = store
    BY <1>8 DEF PutFails, DropOld, Copy, PutBegin, entryVars
  <2>2. \A d \in Callers : pc'[d] = "copy" => pc[d] = "copy" /\ call'[d] = call[d]
    BY <1>1, <1>8 DEF PutFails, DropOld, Copy, PutBegin, Leave
  <2> QED BY <2>1, <2>2 DEF Borrowed, Present
<1>9. ASSUME UNCHANGED vars \/ Gc \/ ExitSignal \/ ExitJoin
      PROVE  Borrowed'
  BY <1>9 DEF vars, Gc, ExitSignal, ExitJoin, entryVars, Borrowed, Present
<1> QED BY <1>2, <1>3, <1>5, <1>6, <1>7, <1>8, <1>9 DEF Next, Access

-----------------------------------------------------------------------------
(* Leaks.                                                                  *)

\* A buffer that is not free has an owner after the step as well, unless the map is changed while
\* a caller has a replaced item in hand.
LEMMA LeaksKept ==
  ASSUME TypeOK, Putting, ~clobbered => Owners /\ NothingLeaks, [Next]_vars
  PROVE  ~clobbered' => NothingLeaks'
<1>1. /\ store \in [Keys -> Entry] /\ heap \in [Buffers -> Contents] /\ spare \in Buffers \cup {NoBuffer}
      /\ call \in [Callers -> Call] /\ pc \in [Callers -> {"out", "put", "drop", "copy"}]
  BY DEF TypeOK
<1>2. ASSUME NEW c \in Callers, NEW k \in Keys, PutBegin(c, k), ~clobbered'
      PROVE  NothingLeaks'
  <2>1. PICK b \in Buffers : /\ heap[b] = "free" /\ heap' = [heap EXCEPT ![b] = "own"]
                             /\ call' = [call EXCEPT ![c] = [NoCall EXCEPT !.key = k, !.value = b]]
    BY <1>2 DEF PutBegin
  <2>2. call'[c].value = b /\ pc'[c] = "put" /\ pc[c] = "out"
    BY <1>1, <1>2, <2>1 DEF PutBegin, NoCall
  <2>3. \A d \in Callers \ {c} : call'[d] = call[d] /\ pc'[d] = pc[d]
    BY <1>1, <1>2, <2>1 DEF PutBegin
  <2>4. store' = store /\ spare' = spare /\ ~clobbered /\ Dropping' = Dropping
    BY <1>2, <2>2, <2>3 DEF PutBegin, Dropping
  <2> QED BY <1>1, <2>1, <2>2, <2>3, <2>4 DEF NothingLeaks, Present
<1>3. ASSUME NEW c \in Callers, PutFails(c), ~clobbered'
      PROVE  NothingLeaks'
  <2>1. /\ pc[c] = "put" /\ heap' = [heap EXCEPT ![call[c].value] = "free"]
        /\ store' = store /\ spare' = spare /\ ~clobbered
        /\ pc' = [pc EXCEPT ![c] = "out"] /\ \A d \in Callers \ {c} : call'[d] = call[d]
    BY <1>1, <1>3 DEF PutFails, Leave
  <2>2. Dropping' = Dropping
    BY <1>1, <2>1 DEF Dropping
  <2> QED BY <1>1, <2>1, <2>2 DEF NothingLeaks, Present
<1>4. ASSUME NEW c \in Callers, PutStore(c), ~clobbered'
      PROVE  NothingLeaks'
  <2> DEFINE k == call[c].key
             old == store[k].value
  <2>0. ~clobbered /\ Owners
    BY <1>4, ClobberedStays
  <2>1. /\ k \in Keys /\ Present' = Present \cup {k}
        /\ store'[k].value = call[c].value /\ call[c].value \in Buffers
        /\ \A l \in Keys \ {k} : store'[l] = store[l]
        /\ k \in Present => spare' = old /\ (Dropping = {} \/ spare = old)
        /\ k \notin Present => Dropping = {} \/ spare' = spare
        /\ pc'[c] = IF k \in Present THEN "drop" ELSE "out"
        /\ \A b \in Buffers \ {call[c].value} : heap'[b] = heap[b] \/ (k \in Present /\ b = old)
        /\ \A d \in Callers \ {c} : pc'[d] = pc[d]
    BY <1>4, <2>0, AfterPut, EntriesAfterPut
  <2>2. \A d \in Callers \ {c} : call'[d].value = call[d].value
    BY <1>4, CallsAfterPut
  <2>4. pc[c] = "put"
    BY <1>4 DEF PutStore
  <2>5. k \in Present => c \in Dropping'
    BY <2>1 DEF Dropping
  <2>6. k \notin Present => Dropping' = Dropping
    BY <2>1, <2>4 DEF Dropping
  <2>7. ASSUME NEW b \in Buffers
        PROVE  \/ heap'[b] = "free"
               \/ \E l \in Present' : store'[l].value = b
               \/ \E d \in Callers : pc'[d] = "put" /\ call'[d].value = b
               \/ spare' = b /\ Dropping' # {}
    <3>1. CASE b = call[c].value
      BY <2>1, <3>1
    <3>2. CASE k \in Present /\ b = old
      BY <2>1, <2>5, <3>2
    <3>3. CASE b # call[c].value /\ ~(k \in Present /\ b = old)
      <4>1. heap'[b] = heap[b]
        BY <2>1, <3>3
      <4>2. \/ heap[b] = "free"
            \/ \E l \in Present : store[l].value = b
            \/ \E d \in Callers : pc[d] = "put" /\ call[d].value = b
            \/ spare = b /\ Dropping # {}
        BY <2>0 DEF NothingLeaks
      <4>3. \A l \in Present : store[l].value = b => l # k /\ l \in Present' /\ store'[l].value = b
        BY <2>1, <3>3 DEF Present
      <4>4. \A d \in Callers : pc[d] = "put" /\ call[d].value = b => pc'[d] = "put" /\ call'[d].value = b
        BY <2>1, <2>2, <3>3
      <4>5. spare = b /\ Dropping # {} => spare' = b /\ Dropping' # {}
        BY <2>1, <2>5, <2>6
      <4> QED BY <4>1, <4>2, <4>3, <4>4, <4>5
    <3> QED BY <3>1, <3>2, <3>3
  <2> QED BY <2>7 DEF NothingLeaks
<1>5. ASSUME NEW c \in Callers, DropOld(c), ~clobbered'
      PROVE  NothingLeaks'
  <2>1. /\ pc[c] = "drop" /\ heap' = [b \in Buffers |-> IF b = spare THEN "free" ELSE heap[b]]
        /\ store' = store /\ ~clobbered
        /\ pc' = [pc EXCEPT ![c] = "out"] /\ \A d \in Callers \ {c} : call'[d] = call[d]
    BY <1>1, <1>5 DEF DropOld, Leave
  <2>2. Present' = Present /\ \A d \in Callers : pc[d] = "put" => pc'[d] = "put" /\ call'[d] = call[d]
    BY <1>1, <2>1 DEF Present
  <2> QED BY <2>1, <2>2 DEF NothingLeaks
<1>6. ASSUME NEW old \in SUBSET Present, Remove(old), UNCHANGED <<pc, call>>, ~clobbered'
      PROVE  NothingLeaks'
  <2>0. ~clobbered /\ Owners
    BY <1>6, ClobberedStays
  <2>1. /\ Present' = Present \ old
        /\ \A k \in Present' : store'[k] = store[k]
        /\ \A b \in Buffers : heap'[b] = "free" \/ (heap'[b] = heap[b] /\ \A k \in old : store[k].value # b)
    BY <1>6, <2>0, AfterRemove, EntriesAfterRemove
  <2>2. Dropping = {} \/ spare' = spare
    BY <1>1, <1>6 DEF Remove, Clobbers
  <2>3. Dropping' = Dropping
    BY <1>6 DEF Dropping
  <2> QED BY <1>6, <2>0, <2>1, <2>2, <2>3 DEF NothingLeaks
<1>7. ASSUME Keeps, ~clobbered',
             \A d \in Callers : \/ pc'[d] = pc[d] /\ call'[d].key = call[d].key /\ call'[d].value = call[d].value
                                \/ pc[d] \in {"out", "copy"} /\ pc'[d] \in {"out", "copy"}
      PROVE  NothingLeaks'
  <2>1. Present' = Present /\ \A k \in Present : store'[k].value = store[k].value
    BY <1>7 DEF Keeps, Present
  <2>2. \A d \in Callers : pc[d] = "put" => pc'[d] = "put" /\ call'[d].value = call[d].value
    BY <1>7
  <2>3. Dropping' = Dropping
    BY <1>7 DEF Dropping
  <2> QED BY <1>7, <2>1, <2>2, <2>3 DEF Keeps, NothingLeaks
<1> QED BY <1>2, <1>3, <1>4, <1>5, <1>6, <1>7, OtherSteps

-----------------------------------------------------------------------------
(* The theorems.                                                           *)

LEMMA InvStarts ==
  ASSUME Init
  PROVE  Inv
<1>1. TypeOK /\ RoundDue
  <2>1. CollectorTypes /\ RoundDue
    BY CollectorStarts DEF Init
  <2> QED BY <2>1, NothingIsTyped DEF Init, TypeOK, Contents
<1>2. Present = {}
  BY DEF Init, Present, Absent
<1> QED BY <1>1, <1>2 DEF Inv, Init, CollectorInit, QuietAtExit, Putting, Owners, Borrowed, NothingLeaks

LEMMA InvKept ==
  ASSUME Inv, [Next]_vars
  PROVE  Inv'
<1>1. TypeOK' /\ RoundDue' /\ QuietAtExit' /\ Putting' /\ Borrowed'
  BY TypesKept, QuietKept, PuttingKept, BorrowedKept DEF Inv
<1>2. ~clobbered' => Owners' /\ NothingLeaks'
  BY ClobberedStays, OwnersKept, LeaksKept DEF Inv
<1> QED BY <1>1, <1>2 DEF Inv

LEMMA InvAlways == Spec => []Inv
BY InvStarts, InvKept, PTL DEF Spec

\* Whatever luafn_getcache copies outside the mutex is the newest image of its key, unless another
\* thread has put that key meanwhile or a replaced item was overwritten before it was freed.
THEOREM BorrowedStays == Spec => []BorrowedIsKept
<1>1. Inv => BorrowedIsKept
  BY DEF Inv, Borrowed, Owners, BorrowedIsKept
<1> QED BY <1>1, InvAlways, PTL

\* Every buffer has one owner or is free, until the map overwrites a replaced item that a caller has
\* yet to free: a put that replaces, one that inserts a new key, or the gc thread that deletes.
THEOREM OneOwnerAlways == Spec => []OneOwner
<1>1. Inv => OneOwner
  BY DEF Inv, Owners, NothingLeaks, OneOwner
<1> QED BY <1>1, InvAlways, PTL
=============================================================================
