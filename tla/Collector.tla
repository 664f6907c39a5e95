------------------------------ MODULE Collector -----------------------------
(***************************************************************************)
(* The gc thread that c/cache.c and c/speak.c both start: it wakes every   *)
(* Interval, hands the time t of the round to a scan of the entries under  *)
(* the mutex, and ends when the exit function signals its condition        *)
(* variable.  The scan itself belongs to the modules that extend this one. *)
(*                                                                         *)
(* Time is relative: due is t minus now, and an entry has an age.  t only  *)
(* moves by Interval a round, so a late thread has due < 0.                *)
(***************************************************************************)
EXTENDS Integers

CONSTANTS
  Interval,  \* gc_interval
  Lifetime,  \* lifetime of an entry
  MaxLag     \* bound: how late the gc thread may be

ASSUME CollectorAssumption ==
  /\ Interval \in Nat \ {0} /\ Lifetime \in Nat /\ MaxLag \in Nat
  /\ Interval < Lifetime

VARIABLES
  gc,      \* where the gc thread is
  cvvar,   \* cv.var
  due,     \* t of gc minus the time
  exiting, \* where the exit function is
  lost     \* history: gc has cleared the signal of the exit function

collectorVars == <<gc, cvvar, due, exiting, lost>>

CollectorTypes ==
  /\ gc \in {"wait", "late", "scan", "gone"}
  /\ cvvar \in {0, 1}
  /\ due \in -MaxLag .. 2 * Interval
  /\ exiting \in {"no", "signalled", "joined", "freed"}
  /\ lost \in BOOLEAN

\* The thread is at cndvar_timedwait_while for the first time.
CollectorInit ==
  /\ gc = "wait" /\ cvvar = 0 /\ due = 2 * Interval
  /\ exiting = "no" /\ lost = FALSE

\* Mistake: gc goes on when it is signalled.
GcSignalledGoesOn ==
  /\ gc = "wait" /\ cvvar # 0
  /\ gc' = "scan" /\ cvvar' = 0
  /\ UNCHANGED <<due, exiting, lost>>

\* cndvar_timedwait_while finds cv.var set: gc returns.
GcSignalled ==
  /\ gc = "wait" /\ cvvar # 0
  /\ gc' = "gone" /\ cvvar' = 0
  /\ UNCHANGED <<due, exiting, lost>>

\* The wait is over time.  gc has yet to get the lock of cv back, ...
GcTimeout ==
  /\ gc = "wait" /\ cvvar = 0 /\ due <= 0
  /\ gc' = "late"
  /\ UNCHANGED <<cvvar, due, exiting, lost>>

\* ... and clears cv.var when it has.  A signal given between the two is lost,
\* unless the wait function looks at cv.var once more.
GcTimedOut ==
  /\ gc = "late"
  /\ \/ gc' = "scan" /\ lost' = (lost \/ cvvar # 0)
     \/ gc' = "gone" /\ cvvar # 0 /\ UNCHANGED lost
  /\ cvvar' = 0
  /\ UNCHANGED <<due, exiting>>

\* The wait fails: gc returns 1.
GcFails ==
  /\ gc = "wait"
  /\ gc' = "gone" /\ cvvar' = 0
  /\ UNCHANGED <<due, exiting, lost>>

\* After a scan, t moves to the next round.
NextRound ==
  /\ gc = "scan"
  /\ gc' = "wait"
  /\ due' = due + Interval
  /\ UNCHANGED <<cvvar, exiting, lost>>

\* An entry that was used age ago is too old in this round.
TooOld(age) == due + age >= Lifetime

Signal ==
  /\ exiting = "no"
  /\ exiting' = "signalled" /\ cvvar' = 1
  /\ UNCHANGED <<gc, due, lost>>

Join ==
  /\ exiting = "signalled" /\ gc = "gone"
  /\ exiting' = "joined"
  /\ UNCHANGED <<gc, cvvar, due, lost>>

CollectorTick ==
  /\ IF gc = "gone" THEN UNCHANGED due ELSE due > -MaxLag /\ due' = due - 1
  /\ UNCHANGED <<gc, cvvar, exiting, lost>>

\* Every entry is collected within this time after its last use.
LongestAge == Lifetime + Interval + MaxLag
Ages == 0 .. LongestAge
Older(age) == IF age < LongestAge THEN age + 1 ELSE age
=============================================================================
