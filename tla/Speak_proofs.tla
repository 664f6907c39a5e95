---------------------------- MODULE Speak_proofs ----------------------------
(***************************************************************************)
(* The slots of c/speak.c own the files open in AviUtl, for any number of  *)
(* slots, files, handles and callers, any interval and lifetime, and any   *)
(* delay of the gc thread.                                                 *)
(***************************************************************************)
EXTENDS Speak, TLAPS

-----------------------------------------------------------------------------
(* The gc thread and the clock, for any interval, lifetime and delay.      *)

\* A round is scanned when it is due.
RoundDue == gc \in {"late", "scan"} => due <= 0

\* A step of the thread itself, of the exit function, of the clock, or of nobody.
GcStep == GcSignalled \/ GcTimeout \/ GcTimedOut \/ GcFails
Freed == exiting = "joined" /\ exiting' = "freed" /\ UNCHANGED <<gc, cvvar, due, lost>>
CollectorStep == GcStep \/ NextRound \/ Signal \/ Join \/ CollectorTick \/ Freed \/ UNCHANGED collectorVars

\* The thread starts in the wait, with its types.
LEMMA CollectorStarts ==
  ASSUME CollectorInit
  PROVE  CollectorTypes /\ RoundDue
<1>1. Interval \in Nat /\ MaxLag \in Nat
  BY CollectorAssumption
<1>2. 2 * Interval \in -MaxLag .. 2 * Interval
  BY <1>1
<1> QED BY <1>2 DEF CollectorInit, CollectorTypes, RoundDue

\* The types of the thread, and that it scans when a round is due, are inductive.
LEMMA CollectorKeeps ==
  ASSUME CollectorTypes, RoundDue, CollectorStep
  PROVE  CollectorTypes' /\ RoundDue'
<1>1. /\ Interval \in Nat /\ MaxLag \in Nat /\ Interval > 0
      /\ due \in Int /\ -MaxLag <= due /\ due <= 2 * Interval
  BY CollectorAssumption DEF CollectorTypes
<1>2. CASE GcStep
  <2>1. CollectorTypes'
    BY <1>2 DEF GcStep, GcSignalled, GcTimeout, GcTimedOut, GcFails, CollectorTypes
  <2>2. RoundDue'
    BY <1>1, <1>2 DEF GcStep, GcSignalled, GcTimeout, GcTimedOut, GcFails, RoundDue
  <2> QED BY <2>1, <2>2
<1>3. CASE NextRound
  <2>1. due <= 0
    BY <1>3 DEF NextRound, RoundDue
  <2>2. due + Interval \in -MaxLag .. 2 * Interval
    BY <1>1, <2>1
  <2> QED BY <1>3, <2>2 DEF NextRound, CollectorTypes, RoundDue
<1>4. CASE Signal \/ Join \/ Freed \/ UNCHANGED collectorVars
  BY <1>4 DEF Signal, Join, Freed, collectorVars, CollectorTypes, RoundDue
<1>5. CASE CollectorTick
  <2>1. due' = due \/ (due > -MaxLag /\ due' = due - 1)
    BY <1>5 DEF CollectorTick
  <2>2. due' \in -MaxLag .. 2 * Interval /\ due' <= due
    BY <1>1, <2>1
  <2>3. CollectorTypes'
    BY <1>5, <2>2 DEF CollectorTick, CollectorTypes
  <2>4. RoundDue'
    BY <1>1, <1>5, <2>2 DEF CollectorTick, RoundDue
  <2> QED BY <2>3, <2>4
<1> QED BY <1>2, <1>3, <1>4, <1>5 DEF CollectorStep

\* A step that leaves the thread alone is neither its scan nor the clock's.
LEMMA StandsStill ==
  ASSUME CollectorTypes, gc # "gone", UNCHANGED collectorVars
  PROVE  ~CollectorTick /\ ~NextRound
<1>1. due \in Int /\ due' = due /\ gc' = gc
  BY CollectorAssumption DEF CollectorTypes, collectorVars
<1> QED BY <1>1 DEF CollectorTick, NextRound

-----------------------------------------------------------------------------
(* Ages.                                                                   *)

\* An entry in use is never older than a round that is due allows.
InTime(age) == due + age < Lifetime + Interval

\* Neither a second that passes nor a scan that keeps the entry makes it too old.
LEMMA StaysInTime ==
  ASSUME CollectorTypes, CollectorStep, gc' # "gone", NEW age \in Nat, InTime(age)
  PROVE  /\ ~CollectorTick /\ ~NextRound => InTime(age)'
         /\ CollectorTick => due' + age + 1 < Lifetime + Interval /\ InTime(age)'
         /\ NextRound /\ ~TooOld(age) => InTime(age)'
<1>1. /\ Interval \in Nat /\ MaxLag \in Nat /\ Lifetime \in Nat /\ due \in Int
      /\ due + age < Lifetime + Interval
  BY CollectorAssumption DEF CollectorTypes, InTime
<1>2. ASSUME ~CollectorTick, ~NextRound
      PROVE  due' = due
  BY <1>2 DEF CollectorStep, GcStep, GcSignalled, GcTimeout, GcTimedOut, GcFails, Signal, Join, Freed, collectorVars
<1>3. ASSUME CollectorTick
      PROVE  due' = due - 1
  BY <1>3 DEF CollectorTick
<1>4. ASSUME NextRound, ~TooOld(age)
      PROVE  due' = due + Interval /\ due + age < Lifetime
  BY <1>1, <1>4 DEF NextRound, TooOld
<1> QED BY <1>1, <1>2, <1>3, <1>4 DEF InTime

\* An entry in time has not reached the age at which it must be gone.
LEMMA InTimeIsYoung ==
  ASSUME CollectorTypes, NEW age \in Ages, InTime(age)
  PROVE  age < LongestAge
<1>1. Interval \in Nat /\ MaxLag \in Nat /\ Lifetime \in Nat /\ due \in Int /\ age \in Nat /\ -MaxLag <= due
  BY CollectorAssumption DEF CollectorTypes, Ages, LongestAge
<1> QED BY <1>1 DEF InTime, LongestAge

\* A new entry is in time.
LEMMA NewIsInTime ==
  ASSUME CollectorTypes'
  PROVE  InTime(0)'
<1>1. due' \in -MaxLag .. 2 * Interval
  BY DEF CollectorTypes
<1>2. \A d \in -MaxLag .. 2 * Interval : d + 0 < Lifetime + Interval
  BY CollectorAssumption
<1> QED BY <1>1, <1>2 DEF InTime

\* A second more is still an age.
LEMMA OlderIsAge ==
  ASSUME NEW age \in Ages
  PROVE  Older(age) \in Ages
<1>1. Interval \in Nat /\ MaxLag \in Nat /\ Lifetime \in Nat
  BY CollectorAssumption
<1> QED BY <1>1 DEF Ages, LongestAge, Older

-----------------------------------------------------------------------------
(* The inductive invariant.                                                *)

\* A caller in speak_get_level holds the mutex, and none is in it any more when
\* speak_exit begins.
Locked ==
  /\ \A c \in Callers : pc[c] # "out" => lock = c
  /\ exiting # "no" => lock = Nobody

\* The handles of the slots and those that AviUtl has open, as in HandlesAreOwned.
Owned ==
  /\ \A i \in Used : host[items[i].h] = items[i].file /\ items[i].file # NoFile
  /\ \A i, j \in Used : items[i].h = items[j].h => i = j
  /\ \A h \in Handles : host[h] # NoFile => \E i \in Used : items[i].h = h

NothingLeft == exiting = "freed" => Used = {}

\* A scan that is due leaves nothing that is too old.
Timely == gc # "gone" => \A i \in Used : InTime(items[i].age)

\* The call of a caller: open is called with index 0 and read with the index of an
\* open file, its own unless open has opened it.
Progress ==
  \A c \in Callers :
    /\ pc[c] = "open" => call[c] = [NoCall EXCEPT !.file = call[c].file] /\ call[c].file # NoFile
    /\ pc[c] = "read" => /\ call[c].idx \in Used /\ call[c].from = NoFile
                         /\ call[c].fresh \/ HasFile(call[c].idx, call[c].file)

\* The inductive invariant.
Inv ==
  /\ TypeOK /\ RoundDue
  /\ Locked /\ Owned /\ NothingLeft /\ Timely /\ Progress /\ KnownFileIsRead

-----------------------------------------------------------------------------
(* Types.                                                                  *)

\* Every step is one of the gc thread, of the exit function, of the clock or of none of them.
LEMMA NextIsCollectorStep ==
  ASSUME [Next]_vars
  PROVE  CollectorStep
BY DEF Next, vars, GetLevel, Acquire, OpenFound, OpenNew, OpenFails, OpenFailsLate, Read, ReadFails, Return,
       Gc, Scan, Tick, ExitSignal, ExitJoin, Free, CollectorStep, GcStep, Freed, collectorVars

\* An empty slot and a call that has not begun have their types.
LEMMA NothingIsTyped ==
  /\ Empty \in Item
  /\ NoCall \in Call
  /\ \A f \in Files : [NoCall EXCEPT !.file = f] \in Call
<1>1. 0 \in Ages
  BY CollectorAssumption DEF Ages, LongestAge
<1>2. 0 \in Slots
  BY SpeakAssumption DEF Slots
<1> QED BY <1>1, <1>2 DEF Empty, Item, NoCall, Call

\* A step keeps the types of the slots, ...
LEMMA ItemsKept ==
  ASSUME TypeOK, [Next]_vars
  PROVE  items' \in [Slots -> Item] /\ host' \in [Handles -> Files \cup {NoFile}]
<1>1. 0 \in Ages
  BY CollectorAssumption DEF Ages, LongestAge
<1>2. /\ items \in [Slots -> Item] /\ host \in [Handles -> Files \cup {NoFile}]
      /\ call \in [Callers -> Call]
  BY DEF TypeOK
<1>3. ASSUME NEW c \in Callers, OpenNew(c)
      PROVE  items' \in [Slots -> Item] /\ host' \in [Handles -> Files \cup {NoFile}]
  <2>1. PICK i \in Slots, h \in Handles :
          /\ host' = [Closed(i) EXCEPT ![h] = call[c].file]
          /\ items' = [items EXCEPT ![i] = [h |-> h, file |-> call[c].file, age |-> 0]]
    BY <1>3 DEF OpenNew
  <2>2. call[c].file \in Files \cup {NoFile}
    BY <1>2 DEF Call
  <2>3. [h |-> h, file |-> call[c].file, age |-> 0] \in Item
    BY <1>1, <2>2 DEF Item
  <2> QED BY <1>2, <2>1, <2>2, <2>3 DEF Closed
<1>4. ASSUME NEW c \in Callers, OpenFailsLate(c)
      PROVE  items' \in [Slots -> Item] /\ host' \in [Handles -> Files \cup {NoFile}]
  BY <1>2, <1>4, NothingIsTyped DEF OpenFailsLate, Closed
<1>5. ASSUME NEW c \in Callers, Read(c)
      PROVE  items' \in [Slots -> Item] /\ host' \in [Handles -> Files \cup {NoFile}]
  <2>1. call[c].idx \in Slots
    BY <1>2 DEF Call
  <2>2. [items[call[c].idx] EXCEPT !.age = 0] \in Item
    BY <1>1, <1>2, <2>1 DEF Item
  <2> QED BY <1>2, <1>5, <2>1, <2>2 DEF Read
<1>6. ASSUME Scan \/ Free
      PROVE  items' \in [Slots -> Item] /\ host' \in [Handles -> Files \cup {NoFile}]
  BY <1>2, <1>6, NothingIsTyped DEF Scan, Free
<1>7. ASSUME Tick
      PROVE  items' \in [Slots -> Item] /\ host' \in [Handles -> Files \cup {NoFile}]
  <2>1. \A i \in Slots : [items[i] EXCEPT !.age = Older(items[i].age)] \in Item
    BY <1>2, OlderIsAge DEF Item
  <2> QED BY <1>2, <1>7, <2>1 DEF Tick
<1> QED BY <1>2, <1>3, <1>4, <1>5, <1>6, <1>7
        DEF Next, vars, GetLevel, Acquire, OpenFound, OpenFails, ReadFails, Return, Gc, ExitSignal, ExitJoin

\* ... and those of the callers.
LEMMA CallersKept ==
  ASSUME TypeOK, [Next]_vars
  PROVE  /\ lock' \in Callers \cup {Nobody}
         /\ pc' \in [Callers -> {"out", "open", "read", "unlock"}]
         /\ call' \in [Callers -> Call]
<1>1. /\ lock \in Callers \cup {Nobody} /\ pc \in [Callers -> {"out", "open", "read", "unlock"}]
      /\ call \in [Callers -> Call] /\ host \in [Handles -> Files \cup {NoFile}]
      /\ items \in [Slots -> Item]
  BY DEF TypeOK
<1>2. ASSUME NEW c \in Callers, NEW f \in Files, Acquire(c, f)
      PROVE  call' \in [Callers -> Call]
  BY <1>1, <1>2, NothingIsTyped DEF Acquire
<1>3. ASSUME NEW c \in Callers, OpenFound(c) \/ OpenNew(c) \/ Read(c)
      PROVE  call' \in [Callers -> Call]
  <2>1. \A i \in Slots : [call[c] EXCEPT !.idx = i] \in Call
    BY <1>1 DEF Call
  <2>2. [call[c] EXCEPT !.fresh = TRUE] \in Call
    BY <1>1 DEF Call
  <2>3. Source(call[c].idx) \in Files \cup {NoFile}
    BY <1>1 DEF Source, Used, Item, Call
  <2>4. [call[c] EXCEPT !.from = Source(call[c].idx)] \in Call
    BY <1>1, <2>3 DEF Call
  <2> QED BY <1>1, <1>3, <2>1, <2>2, <2>4 DEF OpenFound, OpenNew, Read
<1>4. ASSUME NEW c \in Callers, Return(c)
      PROVE  call' \in [Callers -> Call]
  BY <1>1, <1>4, NothingIsTyped DEF Return
<1>5. call' \in [Callers -> Call]
  BY <1>1, <1>2, <1>3, <1>4
     DEF Next, vars, GetLevel, OpenFails, OpenFailsLate, ReadFails, Gc, Scan, Tick, ExitSignal, ExitJoin, Free
<1>6. lock' \in Callers \cup {Nobody} /\ pc' \in [Callers -> {"out", "open", "read", "unlock"}]
  BY <1>1 DEF Next, vars, GetLevel, Acquire, OpenFound, OpenNew, OpenFails, OpenFailsLate, Read, ReadFails,
              Return, Gc, Scan, Tick, ExitSignal, ExitJoin, Free
<1> QED BY <1>5, <1>6

LEMMA TypesKept ==
  ASSUME TypeOK, RoundDue, [Next]_vars
  PROVE  TypeOK' /\ RoundDue'
<1>1. CollectorTypes
  BY DEF TypeOK
<1>2. CollectorTypes' /\ RoundDue'
  BY <1>1, NextIsCollectorStep, CollectorKeeps
<1> QED BY <1>2, ItemsKept, CallersKept DEF TypeOK

-----------------------------------------------------------------------------
(* What a step does to the files.                                          *)

\* The slots in old are emptied and their files closed.
Closes(old) ==
  /\ items' = [i \in Slots |-> IF i \in old THEN Empty ELSE items[i]]
  /\ host' = [h \in Handles |-> IF \E i \in old : items[i].h = h THEN NoFile ELSE host[h]]

\* Every slot keeps its handle and its file.
Keeps ==
  /\ host' = host
  /\ \A i \in Slots : items'[i].h = items[i].h /\ items'[i].file = items[i].file

LEMMA FileSteps ==
  ASSUME TypeOK, [Next]_vars
  PROVE  \/ Keeps
         \/ \E old \in SUBSET Slots : Closes(old)
         \/ \E c \in Callers : OpenNew(c)
<1>1. items \in [Slots -> Item] /\ call \in [Callers -> Call]
  BY DEF TypeOK
<1>2. ASSUME NEW c \in Callers, OpenFailsLate(c)
      PROVE  \E old \in SUBSET Slots : Closes(old)
  <2>1. PICK i \in Slots : host' = Closed(i) /\ items' = [items EXCEPT ![i] = Empty]
    BY <1>2 DEF OpenFailsLate
  <2>2. Closes({i})
    BY <1>1, <2>1 DEF Closes, Closed
  <2> QED BY <2>2
<1>3. ASSUME NEW c \in Callers, Read(c)
      PROVE  Keeps
  BY <1>1, <1>3 DEF Read, Keeps, Item
<1>4. ASSUME Tick
      PROVE  Keeps
  BY <1>1, <1>4 DEF Tick, Keeps, Item
<1>5. ASSUME Scan
      PROVE  \E old \in SUBSET Slots : Closes(old)
  <2> DEFINE old == {i \in Used : TooOld(items[i].age)}
  <2>1. old \in SUBSET Slots
    BY DEF Used
  <2>2. Closes(old)
    BY <1>5 DEF Scan, Closes
  <2> QED BY <2>1, <2>2
<1>6. ASSUME Free
      PROVE  \E old \in SUBSET Slots : Closes(old)
  <2>1. Closes(Slots)
    <3>1. items' = [i \in Slots |-> IF i \in Slots THEN Empty ELSE items[i]]
      BY <1>6 DEF Free
    <3>2. \A h \in Handles : (\E i \in Used : items[i].h = h) <=> (\E i \in Slots : items[i].h = h)
      BY SpeakNames DEF Used
    <3>3. host' = [h \in Handles |-> IF \E i \in Slots : items[i].h = h THEN NoFile ELSE host[h]]
      BY <1>6, <3>2 DEF Free
    <3> QED BY <3>1, <3>3 DEF Closes
  <2> QED BY <2>1
<1> QED BY <1>2, <1>3, <1>4, <1>5, <1>6
        DEF Next, vars, GetLevel, Acquire, OpenFound, OpenFails, ReadFails, Return, Gc, ExitSignal, ExitJoin, Keeps

\* A slot that keeps its handle and file is in use as before; one that is emptied is not.
LEMMA UsedAfter ==
  ASSUME TypeOK
  PROVE  /\ Keeps => Used' = Used
         /\ \A old \in SUBSET Slots : Closes(old) =>
              /\ Used' = Used \ old
              /\ \A i \in Used' : items'[i] = items[i]
BY DEF Used, Keeps, Closes, Empty

\* The slot i has been taken for the file f, opened as h.
Takes(i, h, f) ==
  /\ Chosen(i) /\ host[h] = NoFile
  /\ host' = [Closed(i) EXCEPT ![h] = f]
  /\ items' = [items EXCEPT ![i] = [h |-> h, file |-> f, age |-> 0]]

LEMMA UsedAfterTaking ==
  ASSUME TypeOK, NEW i \in Slots, NEW h \in Handles, NEW f, Takes(i, h, f)
  PROVE  /\ Used' = Used \cup {i}
         /\ items'[i] = [h |-> h, file |-> f, age |-> 0]
         /\ \A j \in Slots \ {i} : items'[j] = items[j]
         /\ 0 \in Used'
<1>1. items \in [Slots -> Item]
  BY DEF TypeOK
<1>2. /\ items'[i] = [h |-> h, file |-> f, age |-> 0]
      /\ \A j \in Slots \ {i} : items'[j] = items[j]
  BY <1>1 DEF Takes
<1>3. Used' = Used \cup {i}
  BY <1>2, SpeakNames DEF Used
<1>4. 0 \in Slots /\ (i = 0 \/ 0 \in 0 .. i - 1)
  BY SpeakAssumption DEF Slots
<1>5. 0 \in Used'
  BY <1>3, <1>4 DEF Takes, Chosen
<1> QED BY <1>2, <1>3, <1>5

-----------------------------------------------------------------------------
(* The handles.                                                            *)

\* No step leaks a file or leaves a slot with a closed one.
LEMMA OwnedKept ==
  ASSUME TypeOK, Owned, Progress, [Next]_vars
  PROVE  Owned'
<1>1. items \in [Slots -> Item] /\ host \in [Handles -> Files \cup {NoFile}]
  BY DEF TypeOK
<1>2. \A i \in Used : i \in Slots /\ items[i].h \in Handles
  BY <1>1 DEF Used, Item
<1>3. ASSUME Keeps
      PROVE  Owned'
  BY <1>2, <1>3, UsedAfter DEF Keeps, Owned
<1>4. ASSUME NEW old \in SUBSET Slots, Closes(old)
      PROVE  Owned'
  <2>1. Used' = Used \ old /\ \A i \in Used' : items'[i] = items[i]
    BY <1>4, UsedAfter
  <2>2. \A i \in Used' : \A j \in old : items[j].h # items[i].h
    BY <1>2, <2>1 DEF Owned, Used
  <2>3. \A i \in Used' : host'[items'[i].h] = items'[i].file /\ items'[i].file # NoFile
    BY <1>2, <1>4, <2>1, <2>2 DEF Closes, Owned
  <2>4. \A h \in Handles : host'[h] # NoFile => \E i \in Used' : items'[i].h = h
    BY <1>4, <2>1 DEF Closes, Owned
  <2> QED BY <2>1, <2>3, <2>4 DEF Owned
<1>5. ASSUME NEW c \in Callers, OpenNew(c)
      PROVE  Owned'
  <2>1. PICK i \in Slots, h \in Handles : Takes(i, h, call[c].file)
    BY <1>5 DEF OpenNew, Takes
  <2>2. call[c].file # NoFile
    BY <1>5 DEF OpenNew, Progress
  <2>3. /\ Used' = Used \cup {i} /\ items'[i] = [h |-> h, file |-> call[c].file, age |-> 0]
        /\ \A j \in Slots \ {i} : items'[j] = items[j]
    BY <2>1, UsedAfterTaking
  <2>4. \A g \in Handles : host'[g] = IF g = h THEN call[c].file ELSE IF g = items[i].h THEN NoFile ELSE host[g]
    BY <2>1 DEF Takes, Closed
  <2>5. \A j \in Used : items[j].h # h
    BY <2>1 DEF Takes, Owned
  <2>6. \A j \in Used : j # i => items[j].h # items[i].h
    BY DEF Owned, Used
  <2>7. \A j \in Used' : host'[items'[j].h] = items'[j].file /\ items'[j].file # NoFile
    BY <1>2, <2>2, <2>3, <2>4, <2>5, <2>6 DEF Owned
  <2>8. \A j, k \in Used' : items'[j].h = items'[k].h => j = k
    BY <1>2, <2>3, <2>5 DEF Owned
  <2>9. \A g \in Handles : host'[g] # NoFile => \E j \in Used' : items'[j].h = g
    BY <1>2, <2>3, <2>4 DEF Owned
  <2> QED BY <2>7, <2>8, <2>9 DEF Owned
<1> QED BY <1>3, <1>4, <1>5, FileSteps

\* Between speak_exit and the end nobody opens a file.
LEMMA NothingLeftKept ==
  ASSUME TypeOK, Locked, NothingLeft, [Next]_vars
  PROVE  NothingLeft'
<1>1. CASE exiting = "freed"
  <2>1. ~\E c \in Callers : OpenNew(c)
    BY <1>1, SpeakNames DEF OpenNew, Locked
  <2>2. Used' = {}
    BY <1>1, <2>1, FileSteps, UsedAfter DEF NothingLeft
  <2> QED BY <2>2 DEF NothingLeft
<1>2. CASE exiting # "freed" /\ exiting' = "freed"
  <2>1. Free
    BY <1>2 DEF Next, vars, GetLevel, Acquire, OpenFound, OpenNew, OpenFails, OpenFailsLate, Read, ReadFails,
                Return, Gc, GcSignalled, GcTimeout, GcTimedOut, GcFails, Scan, NextRound, Tick, CollectorTick,
                ExitSignal, Signal, ExitJoin, Join, collectorVars
  <2> QED BY <2>1 DEF Free, Used, Empty, NothingLeft
<1> QED BY <1>1, <1>2 DEF NothingLeft

\* The mutex keeps the callers and speak_exit apart.
LEMMA LockedKept ==
  ASSUME TypeOK, Locked, [Next]_vars
  PROVE  Locked'
<1>1. pc \in [Callers -> {"out", "open", "read", "unlock"}]
  BY DEF TypeOK
<1>2. ASSUME NEW c \in Callers, GetLevel(c)
      PROVE  Locked'
  BY <1>1, <1>2, SpeakNames
     DEF GetLevel, OpenFound, OpenNew, OpenFails, OpenFailsLate, Read, ReadFails, Return, Locked, collectorVars
<1>3. ASSUME NEW c \in Callers, NEW f \in Files, Acquire(c, f)
      PROVE  Locked'
  BY <1>1, <1>3, SpeakNames DEF Acquire, Locked, collectorVars
<1>4. ASSUME Gc \/ Scan \/ Tick \/ ExitSignal \/ ExitJoin \/ Free \/ UNCHANGED vars
      PROVE  Locked'
  BY <1>4 DEF Gc, GcSignalled, GcTimeout, GcTimedOut, GcFails, Scan, NextRound, Tick, CollectorTick,
              ExitSignal, Signal, ExitJoin, Join, Free, vars, collectorVars, Locked
<1> QED BY <1>2, <1>3, <1>4 DEF Next

-----------------------------------------------------------------------------
(* Ages.                                                                   *)

\* While the gc thread lives no open file gets older than a due round allows: a scan closes
\* those it finds too old, and neither a call nor the clock makes one too old for the next.
LEMMA TimelyKept ==
  ASSUME TypeOK, RoundDue, Timely, Progress, [Next]_vars
  PROVE  Timely'
<1>1. /\ items \in [Slots -> Item] /\ CollectorTypes
      /\ \A i \in Slots : items[i].age \in Nat /\ items[i].age \in Ages
  <2>1. Ages \subseteq Nat
    BY CollectorAssumption DEF Ages, LongestAge
  <2> QED BY <2>1 DEF TypeOK, Item
<1>2. SUFFICES ASSUME gc' # "gone", NEW i \in Used'
               PROVE  InTime(items[i].age)'
  BY DEF Timely
<1>3. CollectorStep /\ CollectorTypes' /\ i \in Slots
  BY <1>1, NextIsCollectorStep, CollectorKeeps DEF Used
<1>4. gc # "gone"
  BY <1>2, <1>3 DEF CollectorStep, GcStep, GcSignalled, GcTimeout, GcTimedOut, GcFails, NextRound,
                    Signal, Join, CollectorTick, Freed, collectorVars
<1>5. \A j \in Used : InTime(items[j].age)
  BY <1>4 DEF Timely
<1>6. CASE items'[i].age = 0
  BY <1>3, <1>6, NewIsInTime DEF InTime
<1>7. ASSUME i \in Used, items'[i].age = items[i].age, ~CollectorTick, ~NextRound
      PROVE  InTime(items[i].age)'
  BY <1>1, <1>2, <1>3, <1>5, <1>7, StaysInTime DEF InTime
<1>8. ASSUME NEW c \in Callers, OpenNew(c)
      PROVE  InTime(items[i].age)'
  <2>1. PICK j \in Slots, h \in Handles : Takes(j, h, call[c].file)
    BY <1>8 DEF OpenNew, Takes
  <2>2. i = j \/ (i \in Used /\ items'[i] = items[i])
    BY <1>3, <2>1, UsedAfterTaking
  <2>3. items'[j] = [h |-> h, file |-> call[c].file, age |-> 0]
    BY <2>1, UsedAfterTaking
  <2>4. ~CollectorTick /\ ~NextRound
    BY <1>1, <1>4, <1>8, StandsStill DEF OpenNew
  <2> QED BY <1>6, <1>7, <2>2, <2>3, <2>4
<1>9. ASSUME NEW c \in Callers, OpenFailsLate(c) \/ Read(c)
      PROVE  InTime(items[i].age)'
  <2>1. items'[i].age = 0 \/ items'[i] = items[i]
    BY <1>1, <1>3, <1>9 DEF OpenFailsLate, Read, Empty, Item
  <2>2. i \in Used
    BY <1>1, <1>2, <1>9 DEF OpenFailsLate, Read, Empty, Item, Used
  <2>3. ~CollectorTick /\ ~NextRound
    BY <1>1, <1>4, <1>9, StandsStill DEF OpenFailsLate, Read
  <2> QED BY <1>6, <1>7, <2>1, <2>2, <2>3
<1>10. ASSUME Scan
       PROVE  InTime(items[i].age)'
  <2>1. i \in Used /\ ~TooOld(items[i].age) /\ items'[i] = items[i]
    BY <1>2, <1>10 DEF Scan, Used, Empty
  <2> QED BY <1>1, <1>2, <1>3, <1>5, <1>10, <2>1, StaysInTime DEF Scan, InTime
<1>11. ASSUME Tick
       PROVE  InTime(items[i].age)'
  <2>1. i \in Used /\ items'[i].age = Older(items[i].age)
    BY <1>1, <1>2, <1>3, <1>11 DEF Tick, Used, Item
  <2>2. items'[i].age = items[i].age \/ items'[i].age = items[i].age + 1
    BY <2>1 DEF Older
  <2>3. due' + items[i].age + 1 < Lifetime + Interval /\ due' + items[i].age < Lifetime + Interval
    BY <1>1, <1>2, <1>3, <1>5, <1>11, <2>1, StaysInTime DEF Tick, InTime
  <2>4. due' \in Int
    BY <1>3, CollectorAssumption DEF CollectorTypes
  <2> QED BY <1>1, <1>3, <2>2, <2>3, <2>4 DEF InTime
<1>12. ASSUME Free
       PROVE  FALSE
  BY <1>2, <1>12 DEF Free, Used, Empty
<1>13. CASE UNCHANGED vars \/ Gc \/ ExitSignal \/ ExitJoin
            \/ \E c \in Callers : \/ OpenFound(c) \/ OpenFails(c) \/ ReadFails(c) \/ Return(c)
                                  \/ \E f \in Files : Acquire(c, f)
  <2>1. items' = items
    BY <1>13 DEF vars, Gc, ExitSignal, ExitJoin, OpenFound, OpenFails, ReadFails, Return, Acquire
  <2>2. due' = due
    BY <1>13 DEF vars, Gc, GcSignalled, GcTimeout, GcTimedOut, GcFails, ExitSignal, Signal, ExitJoin, Join,
                 OpenFound, OpenFails, ReadFails, Return, Acquire, collectorVars
  <2>3. i \in Used
    BY <1>2, <2>1 DEF Used
  <2> QED BY <1>5, <2>1, <2>2, <2>3 DEF InTime
<1> QED BY <1>8, <1>9, <1>10, <1>11, <1>12, <1>13 DEF Next, GetLevel

-----------------------------------------------------------------------------
(* The callers.                                                            *)

\* What another caller or thread does while c is inside leaves its call and its slot alone.
LEMMA ProgressKept ==
  ASSUME TypeOK, Locked, Progress, [Next]_vars
  PROVE  Progress'
<1>1. /\ items \in [Slots -> Item] /\ call \in [Callers -> Call] 
      /\ pc \in [Callers -> {"out", "open", "read", "unlock"}]
  BY DEF TypeOK
<1>2. \A c \in Callers : pc[c] # "out" => \A d \in Callers : pc[d] # "out" => d = c
  BY DEF Locked
<1>3. ASSUME NEW c \in Callers, NEW f \in Files, Acquire(c, f)
      PROVE  Progress'
  <2>1. \A d \in Callers : pc'[d] = IF d = c THEN "open" ELSE "out"
    BY <1>1, <1>3, SpeakNames DEF Acquire, Locked
  <2>2. call'[c] = [NoCall EXCEPT !.file = f]
    BY <1>1, <1>3 DEF Acquire
  <2>3. call'[c].file = f /\ f # NoFile
    BY <2>2, SpeakNames DEF NoCall
  <2> QED BY <2>1, <2>2, <2>3 DEF Progress
<1>4. ASSUME NEW c \in Callers, OpenFound(c)
      PROVE  Progress'
  <2>1. PICK i \in Slots : HasFile(i, call[c].file) /\ call' = [call EXCEPT ![c].idx = i]
    BY <1>4 DEF OpenFound
  <2>2. \A d \in Callers : pc'[d] = IF d = c THEN "read" ELSE "out"
    BY <1>1, <1>2, <1>4 DEF OpenFound
  <2>3. /\ call'[c].idx = i /\ call'[c].from = call[c].from /\ call'[c].file = call[c].file
        /\ call'[c].fresh = call[c].fresh
    BY <1>1, <2>1 DEF Call
  <2>4. call[c].from = NoFile
    BY <1>4 DEF OpenFound, Progress, NoCall
  <2>5. Used' = Used /\ items' = items
    BY <1>4 DEF OpenFound, Used
  <2> QED BY <2>1, <2>2, <2>3, <2>4, <2>5 DEF Progress, HasFile
<1>5. ASSUME NEW c \in Callers, OpenNew(c)
      PROVE  Progress'
  <2>1. PICK i \in Slots, h \in Handles : Takes(i, h, call[c].file)
    BY <1>5 DEF OpenNew, Takes
  <2>2. \A d \in Callers : pc'[d] = IF d = c THEN "read" ELSE "out"
    BY <1>1, <1>2, <1>5 DEF OpenNew
  <2>3. call'[c].idx = call[c].idx /\ call'[c].from = call[c].from /\ call'[c].fresh
    BY <1>1, <1>5 DEF OpenNew, Call
  <2>4. call[c].from = NoFile /\ call[c].idx = 0
    BY <1>5 DEF OpenNew, Progress, NoCall
  <2>5. 0 \in Used'
    BY <2>1, UsedAfterTaking
  <2> QED BY <2>2, <2>3, <2>4, <2>5 DEF Progress
<1>6. ASSUME NEW c \in Callers, OpenFails(c) \/ OpenFailsLate(c) \/ Read(c) \/ ReadFails(c) \/ Return(c)
      PROVE  Progress'
  <2>1. \A d \in Callers : pc'[d] \notin {"open", "read"}
    BY <1>1, <1>2, <1>6 DEF OpenFails, OpenFailsLate, Read, ReadFails, Return
  <2> QED BY <2>1 DEF Progress
<1>7. ASSUME Scan \/ Free
      PROVE  Progress'
  <2>1. \A d \in Callers : pc[d] = "out"
    BY <1>7, SpeakNames DEF Scan, Free, Locked
  <2> QED BY <1>7, <2>1 DEF Scan, Free, Progress
<1>8. ASSUME Tick \/ UNCHANGED vars \/ Gc \/ ExitSignal \/ ExitJoin
      PROVE  Progress'
  <2>1. Keeps
    BY <1>1, <1>8 DEF Keeps, Tick, vars, Gc, ExitSignal, ExitJoin, Item
  <2>2. Used' = Used /\ \A i \in Used : items'[i].file = items[i].file
    BY <2>1, UsedAfter DEF Keeps, Used
  <2>3. UNCHANGED <<pc, call>>
    BY <1>8 DEF Tick, vars, Gc, ExitSignal, ExitJoin
  <2> QED BY <2>2, <2>3 DEF Progress, HasFile
<1> QED BY <1>3, <1>4, <1>5, <1>6, <1>7, <1>8 DEF Next, GetLevel

\* A read of a file that was open gets the samples of that file.
LEMMA KnownFileKept ==
  ASSUME TypeOK, Owned, Progress, KnownFileIsRead, [Next]_vars
  PROVE  KnownFileIsRead'
<1>1. /\ call \in [Callers -> Call] /\ pc \in [Callers -> {"out", "open", "read", "unlock"}]
  BY DEF TypeOK
<1>2. ASSUME NEW c \in Callers, Read(c)
      PROVE  KnownFileIsRead'
  <2>1. /\ call'[c].from = Source(call[c].idx) /\ call'[c].file = call[c].file
        /\ call'[c].fresh = call[c].fresh
    BY <1>1, <1>2 DEF Read, Call
  <2>2. call[c].fresh \/ Source(call[c].idx) = call[c].file
    BY <1>2 DEF Read, Progress, HasFile, Source, Owned
  <2>3. \A d \in Callers \ {c} : pc'[d] = pc[d] /\ call'[d] = call[d]
    BY <1>1, <1>2 DEF Read
  <2> QED BY <2>1, <2>2, <2>3 DEF KnownFileIsRead
<1>3. ASSUME NEW c \in Callers, OpenFails(c) \/ OpenFailsLate(c) \/ ReadFails(c)
      PROVE  KnownFileIsRead'
  <2>1. call[c].from = NoFile
    BY <1>3 DEF OpenFails, OpenFailsLate, ReadFails, Progress, NoCall
  <2>2. call' = call /\ \A d \in Callers \ {c} : pc'[d] = pc[d]
    BY <1>1, <1>3 DEF OpenFails, OpenFailsLate, ReadFails
  <2> QED BY <2>1, <2>2 DEF KnownFileIsRead
<1>4. ASSUME NEW c \in Callers, OpenFound(c) \/ OpenNew(c) \/ Return(c) \/ \E f \in Files : Acquire(c, f)
      PROVE  KnownFileIsRead'
  <2>1. pc'[c] # "unlock" /\ \A d \in Callers \ {c} : pc'[d] = pc[d] /\ call'[d] = call[d]
    BY <1>1, <1>4 DEF OpenFound, OpenNew, Return, Acquire
  <2> QED BY <2>1 DEF KnownFileIsRead
<1>5. ASSUME Scan \/ Free \/ Tick \/ UNCHANGED vars \/ Gc \/ ExitSignal \/ ExitJoin
      PROVE  KnownFileIsRead'
  BY <1>5 DEF Scan, Free, Tick, vars, Gc, ExitSignal, ExitJoin, KnownFileIsRead
<1> QED BY <1>2, <1>3, <1>4, <1>5 DEF Next, GetLevel

-----------------------------------------------------------------------------
(* The theorems.                                                           *)

LEMMA InvStarts ==
  ASSUME Init
  PROVE  Inv
<1>1. TypeOK /\ RoundDue
  <2>1. CollectorTypes /\ RoundDue
    BY CollectorStarts DEF Init
  <2> QED BY <2>1, NothingIsTyped DEF Init, TypeOK
<1>2. Used = {}
  BY DEF Init, Used, Empty
<1>3. Locked /\ Progress /\ KnownFileIsRead
  BY DEF Init, CollectorInit, Locked, Progress, KnownFileIsRead
<1>4. Owned /\ NothingLeft /\ Timely
  BY <1>2 DEF Init, Owned, NothingLeft, Timely
<1> QED BY <1>1, <1>3, <1>4 DEF Inv

LEMMA InvKept ==
  ASSUME Inv, [Next]_vars
  PROVE  Inv'
BY TypesKept, LockedKept, OwnedKept, NothingLeftKept, TimelyKept, ProgressKept, KnownFileKept DEF Inv

LEMMA InvAlways == Spec => []Inv
BY InvStarts, InvKept, PTL DEF Spec

\* No error path of speak_get_level leaks a file or keeps a closed one, a caller reads through
\* an open one, and speak_exit closes all.
THEOREM HandlesStayOwned == Spec => []HandlesAreOwned
<1>1. Inv => HandlesAreOwned
  BY DEF Inv, HandlesAreOwned, Owned, NothingLeft, Progress, Source
<1> QED BY <1>1, InvAlways, PTL

\* The gc thread closes an idle file in time, however late it comes within its bound.
THEOREM IdleFilesAreClosed == Spec => []IdleIsClosed
<1>1. Inv => IdleIsClosed
  <2> SUFFICES ASSUME Inv, gc # "gone", NEW i \in Used
               PROVE  items[i].age < LongestAge
    BY DEF IdleIsClosed
  <2>1. CollectorTypes /\ items[i].age \in Ages /\ InTime(items[i].age)
    BY DEF Inv, TypeOK, Timely, Used, Item
  <2> QED BY <2>1, InTimeIsYoung
<1> QED BY <1>1, InvAlways, PTL

\* A call of speak_get_level that finds its file open reads that file.
THEOREM KnownFilesAreRead == Spec => []KnownFileIsRead
BY InvAlways, PTL DEF Inv
=============================================================================
