-------------------------------- MODULE Speak -------------------------------
(***************************************************************************)
(* c/speak.c: the levels of sound files, read through a few slots of open  *)
(* files.  The slot that has not been used for longest makes room for a    *)
(* new file, and the gc thread (Collector) closes what is idle.            *)
(***************************************************************************)
EXTENDS Collector, FiniteSets

CONSTANTS
  NSlots,  \* length of items
  Files,   \* names of sound files
  Handles, \* what the open callback (wav_open of assist.c) can return
  Callers  \* threads that call speak_get_level

ASSUME SpeakAssumption == NSlots \in Nat \ {0}

Slots == 0 .. NSlots - 1
NoHandle == "NULL"
NoFile == "none"
Nobody == "nobody"
ASSUME SpeakNames == NoHandle \notin Handles /\ NoFile \notin Files /\ Nobody \notin Callers

VARIABLES
  items,  \* the slots: handle, file, age (now minus used_at)
  host,   \* the file that each handle is open on in AviUtl
  lock,   \* the holder of mtx
  pc,     \* where each caller is
  call    \* its arguments and locals

vars == <<collectorVars, items, host, lock, pc, call>>

Item == [h : Handles \cup {NoHandle}, file : Files \cup {NoFile}, age : Ages]
Empty == [h |-> NoHandle, file |-> NoFile, age |-> 0]

\* file is the argument, idx the index read uses, fresh says that open opened
\* the file, and from is the file the samples came from.
Call == [file : Files \cup {NoFile}, idx : Slots, fresh : BOOLEAN, from : Files \cup {NoFile}]
NoCall == [file |-> NoFile, idx |-> 0, fresh |-> FALSE, from |-> NoFile]

TypeOK ==
  /\ CollectorTypes
  /\ items \in [Slots -> Item]
  /\ host \in [Handles -> Files \cup {NoFile}]
  /\ lock \in Callers \cup {Nobody}
  /\ pc \in [Callers -> {"out", "open", "read", "unlock"}]
  /\ call \in [Callers -> Call]

Init ==
  /\ CollectorInit
  /\ items = [i \in Slots |-> Empty]
  /\ host = [h \in Handles |-> NoFile]
  /\ lock = Nobody
  /\ pc = [c \in Callers |-> "out"]
  /\ call = [c \in Callers |-> NoCall]

Used == {i \in Slots : items[i].h # NoHandle}

-----------------------------------------------------------------------------
(* speak_get_level.                                                        *)

Acquire(c, f) ==
  /\ exiting = "no"
  /\ pc[c] = "out" /\ lock = Nobody
  /\ lock' = c
  /\ pc' = [pc EXCEPT ![c] = "open"]
  /\ call' = [call EXCEPT ![c] = [NoCall EXCEPT !.file = f]]
  /\ UNCHANGED <<collectorVars, items, host>>

HasFile(i, f) == i \in Used /\ items[i].file = f

\* Mistake: open does not say in which slot it has found the file.
OpenFoundNoIndex(c) ==
  /\ pc[c] = "open"
  /\ \E i \in Slots : HasFile(i, call[c].file)
  /\ pc' = [pc EXCEPT ![c] = "read"]
  /\ UNCHANGED <<collectorVars, items, host, lock, call>>

\* open finds the file in a slot.
OpenFound(c) ==
  /\ pc[c] = "open"
  /\ \E i \in Slots :
       /\ HasFile(i, call[c].file)
       /\ call' = [call EXCEPT ![c].idx = i]
  /\ pc' = [pc EXCEPT ![c] = "read"]
  /\ UNCHANGED <<collectorVars, items, host, lock>>

\* The slot that open takes: the first free one, or the oldest one.  Two slots
\* of the same age in seconds differ in nanoseconds, either way.
Chosen(i) ==
  IF Used = Slots
  THEN \A j \in Slots : items[j].age <= items[i].age
  ELSE i \notin Used /\ \A j \in 0 .. i - 1 : j \in Used

\* What AviUtl has open when open has closed the file of slot i.
Closed(i) ==
  [h \in Handles |-> IF h = items[i].h THEN NoFile ELSE host[h]]

Mismatch(c) == \A i \in Slots : ~HasFile(i, call[c].file)

\* open opens the file.  It does not set *idx, so read uses slot 0.
OpenNew(c) ==
  /\ pc[c] = "open" /\ Mismatch(c)
  /\ \E i \in Slots, h \in Handles :
       /\ Chosen(i) /\ host[h] = NoFile
       /\ host' = [Closed(i) EXCEPT ![h] = call[c].file]
       /\ items' = [items EXCEPT ![i] = [h |-> h, file |-> call[c].file, age |-> 0]]
  /\ call' = [call EXCEPT ![c].fresh = TRUE]
  /\ pc' = [pc EXCEPT ![c] = "read"]
  /\ UNCHANGED <<collectorVars, lock>>

\* The open callback fails, ...
OpenFails(c) ==
  /\ pc[c] = "open" /\ Mismatch(c)
  /\ pc' = [pc EXCEPT ![c] = "unlock"]
  /\ UNCHANGED <<collectorVars, items, host, lock, call>>

\* ... or the copy of the name does (or the clock), when the old file has been
\* closed; the new handle is closed on the way out.
OpenFailsLate(c) ==
  /\ pc[c] = "open" /\ Mismatch(c)
  /\ \E i \in Slots :
       /\ Chosen(i)
       /\ host' = Closed(i)
       /\ items' = [items EXCEPT ![i] = Empty]
  /\ pc' = [pc EXCEPT ![c] = "unlock"]
  /\ UNCHANGED <<collectorVars, lock, call>>

\* The file a read through the handle of slot i gets its samples from.
Source(i) == IF i \in Used THEN host[items[i].h] ELSE NoFile

\* The read callback, and used_at.
Read(c) ==
  /\ pc[c] = "read"
  /\ call' = [call EXCEPT ![c].from = Source(call[c].idx)]
  /\ items' = [items EXCEPT ![call[c].idx].age = 0]
  /\ pc' = [pc EXCEPT ![c] = "unlock"]
  /\ UNCHANGED <<collectorVars, host, lock>>

\* The read callback fails.
ReadFails(c) ==
  /\ pc[c] = "read"
  /\ pc' = [pc EXCEPT ![c] = "unlock"]
  /\ UNCHANGED <<collectorVars, items, host, lock, call>>

Return(c) ==
  /\ pc[c] = "unlock"
  /\ lock' = Nobody
  /\ pc' = [pc EXCEPT ![c] = "out"]
  /\ call' = [call EXCEPT ![c] = NoCall]
  /\ UNCHANGED <<collectorVars, items, host>>

-----------------------------------------------------------------------------
(* gc and speak_exit.                                                      *)

\* Mistake: gc does not lock the mutex.
ScanUnlocked ==
  /\ NextRound
  /\ LET old == {i \in Used : TooOld(items[i].age)} IN
       /\ items' = [i \in Slots |-> IF i \in old THEN Empty ELSE items[i]]
       /\ host' = [h \in Handles |->
                     IF \E i \in old : items[i].h = h THEN NoFile ELSE host[h]]
  /\ UNCHANGED <<lock, pc, call>>

\* Mistake: an entry must be older than its lifetime by a whole round.
ScanLate ==
  /\ NextRound /\ lock = Nobody
  /\ LET old == {i \in Used : TooOld(items[i].age - Interval - 1)} IN
       /\ items' = [i \in Slots |-> IF i \in old THEN Empty ELSE items[i]]
       /\ host' = [h \in Handles |->
                     IF \E i \in old : items[i].h = h THEN NoFile ELSE host[h]]
  /\ UNCHANGED <<lock, pc, call>>

\* One round of gc, under the mutex.
Scan ==
  /\ NextRound /\ lock = Nobody
  /\ LET old == {i \in Used : TooOld(items[i].age)} IN
       /\ items' = [i \in Slots |-> IF i \in old THEN Empty ELSE items[i]]
       /\ host' = [h \in Handles |->
                     IF \E i \in old : items[i].h = h THEN NoFile ELSE host[h]]
  /\ UNCHANGED <<lock, pc, call>>

\* AviUtl calls filter_exit in the thread that calls the scripts.
ExitSignal ==
  /\ lock = Nobody
  /\ Signal
  /\ UNCHANGED <<items, host, lock, pc, call>>

ExitJoin == Join /\ UNCHANGED <<items, host, lock, pc, call>>

\* The rest of speak_exit closes what is open and frees all.
Free ==
  /\ exiting = "joined"
  /\ exiting' = "freed"
  /\ items' = [i \in Slots |-> Empty]
  /\ host' = [h \in Handles |-> IF \E i \in Used : items[i].h = h THEN NoFile ELSE host[h]]
  /\ UNCHANGED <<gc, cvvar, due, lost, lock, pc, call>>

Gc == (GcSignalled \/ GcTimeout \/ GcTimedOut \/ GcFails) /\ UNCHANGED <<items, host, lock, pc, call>>

\* A second passes.
Tick ==
  /\ exiting # "freed"
  /\ CollectorTick
  /\ items' = [i \in Slots |-> [items[i] EXCEPT !.age = Older(items[i].age)]]
  /\ UNCHANGED <<host, lock, pc, call>>

GetLevel(c) ==
  \/ OpenFound(c) \/ OpenNew(c) \/ OpenFails(c) \/ OpenFailsLate(c)
  \/ Read(c) \/ ReadFails(c) \/ Return(c)

Next ==
  \/ \E c \in Callers : GetLevel(c) \/ \E f \in Files : Acquire(c, f)
  \/ Gc \/ Scan \/ Tick
  \/ ExitSignal \/ ExitJoin \/ Free

Spec == Init /\ [][Next]_vars

\* Threads run, and time passes.
FairSpec ==
  /\ Spec
  /\ \A c \in Callers : WF_vars(GetLevel(c))
  /\ WF_vars(Gc) /\ WF_vars(Scan) /\ WF_vars(Tick)
  /\ WF_vars(ExitJoin) /\ WF_vars(Free)

-----------------------------------------------------------------------------
(* Properties.                                                             *)

\* The handles open in AviUtl are those of the slots, each in one slot: no error path leaks
\* a file, no slot keeps a closed one, and speak_exit closes all.  A caller reads through one
\* of them, although read may use a slot that open did not choose and gc closes slots.
HandlesAreOwned ==
  /\ TypeOK
  /\ \A i \in Used : host[items[i].h] = items[i].file /\ items[i].file # NoFile
  /\ \A i, j \in Used : items[i].h = items[j].h => i = j
  /\ \A h \in Handles : host[h] # NoFile => \E i \in Used : items[i].h = h
  /\ exiting = "freed" => Used = {}
  /\ \A c \in Callers : pc[c] = "read" => Source(call[c].idx) # NoFile

\* An idle file is closed in time: no open file has an age that only a missed
\* round could give it, as long as the gc thread lives.
IdleIsClosed ==
  gc # "gone" => \A i \in Used : items[i].age < LongestAge

\* A call that finds its file open gets its samples from that file.
KnownFileIsRead ==
  \A c \in Callers : pc[c] = "unlock" /\ call[c].from # NoFile =>
    call[c].from = call[c].file \/ call[c].fresh

\* speak_exit ends, unless its signal falls between the timeout of gc and the
\* assignment that clears cv.var.
ExitEnds == exiting = "signalled" ~> (exiting = "freed" \/ lost)

\* docs/prep.md: the level is that of the *.wav file the object names.
LevelOfItsFile ==
  \A c \in Callers : call[c].from \in {NoFile, call[c].file}
=============================================================================
