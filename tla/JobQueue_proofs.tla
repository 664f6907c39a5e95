-------------------------- MODULE JobQueue_proofs ---------------------------
(***************************************************************************)
(* The jobs of go/jobqueue take turns, for any number of goroutines that   *)
(* call the queue, of jobs, of generations and of calls of a job; and the  *)
(* view that gives its resize jobs to such a queue loses no newest result. *)
(***************************************************************************)
EXTENDS JobQueue, View, FiniteSetTheorems, TLAPS

\* A caller past jq.m.Lock() holds the mutex, so what it has seen before stays.
Waiting == {"out", "enqueue", "cancelall", "final"}
Locked ==
  /\ \A c \in Callers : pc[c] \notin Waiting => lock = c
  /\ \A c \in Callers : pc[c] = "send" => next <= MaxJobs
  /\ \A c \in Callers : pc[c] \in {"cancel", "drain"} => gen < MaxGenerations

\* The bounds are kept for the calls that have begun.
Booked ==
  /\ next + Cardinality(Enqueuing) <= MaxJobs + 1
  /\ gen + Cardinality(Cancelling) <= MaxGenerations

\* The workers of the generations thrown away are gone, those to come are not there.
Workers ==
  \A g \in Generations : /\ g < gen => worker[g] = "gone"
                         /\ g > gen => worker[g] = "none"

\* The jobs enqueued so far have a generation, and have ended when they have sent to finish.
Enqueued ==
  \A j \in Jobs :
    /\ j < next <=> job[j].at # "none"
    /\ j < next => job[j].gen \in Generations /\ job[j].gen <= gen
    /\ job[j].sent # "nothing" <=> job[j].at = "gone"

\* A worker at its channel has no job under way, a worker in run only the one it runs, and what a
\* worker that has left has under way is marked as finished.
UnderWay ==
  /\ \A j \in Jobs : Pending(j) =>
       /\ worker[job[j].gen] \in {"run", "leaving", "gone"}
       /\ worker[job[j].gen] = "run" => current[job[j].gen] = j
       /\ worker[job[j].gen] \in {"leaving", "gone"} => j \in finished
  /\ \A g \in Generations : worker[g] = "run" => current[g] \in Jobs /\ job[current[g]].gen = g

\* The jobs of a generation start one after the other.
InTurn == \A j, k \in Jobs : j < k /\ k < next /\ job[j].gen = job[k].gen => job[j].at = "gone"

\* What has had its effect has ended.
Logged ==
  /\ \A m \in 1 .. Len(log) : job[log[m]].at = "gone"
  /\ \A m, n \in 1 .. Len(log) : m < n /\ job[log[m]].gen = job[log[n]].gen => log[m] < log[n]

\* A late call is the last one.
Late ==
  \A j \in Jobs : \/ job[j].late = 0
                  \/ job[j].late = 1 /\ job[j].at # "call" /\ job[j].gen < gen

\* The inductive invariant.
Inv == TypeOK /\ Locked /\ Booked /\ Workers /\ Enqueued /\ UnderWay /\ InTurn /\ Logged /\ Late

-----------------------------------------------------------------------------
(* What the steps do to the jobs.                                          *)

JobRecord == [gen : Generations \cup {0}, at : JobStates, ctx : Generations \cup {0}, calls : Nat, late : Nat,
              sent : {"nothing", "nil", "cancelled", "continue"}]

\* Enqueue makes the goroutine of the next job.
LEMMA AfterSend ==
  ASSUME TypeOK, Locked, NEW c \in Callers, Send(c)
  PROVE  /\ next \in Jobs /\ next' = next + 1
         /\ job' \in [Jobs -> JobRecord]
         /\ job'[next] = [NoJob EXCEPT !.gen = gen, !.at = "call"]
         /\ \A j \in Jobs \ {next} : job'[j] = job[j]
<1>1. job \in [Jobs -> JobRecord] /\ next \in 1 .. MaxJobs + 1 /\ gen \in Generations
  BY DEF TypeOK, JobRecord
<1>2. next \in Jobs
  BY <1>1, JobQueueAssumption DEF Send, Locked, Jobs
<1>3. [NoJob EXCEPT !.gen = gen, !.at = "call"] \in JobRecord
  BY <1>1 DEF NoJob, JobRecord, JobStates
<1> QED BY <1>1, <1>2, <1>3 DEF Send

\* A job that is called.
LEMMA AfterCall ==
  ASSUME TypeOK, NEW j \in Jobs, CallJob(j)
  PROVE  /\ job'[j].gen = job[j].gen /\ job'[j].at = "body" /\ job'[j].sent = job[j].sent
         /\ job'[j].late = IF job[j].gen < gen THEN job[j].late + 1 ELSE job[j].late
         /\ job' \in [Jobs -> JobRecord]
         /\ \A k \in Jobs \ {j} : job'[k] = job[k]
<1>1. job \in [Jobs -> JobRecord] /\ gen \in Generations
  BY DEF TypeOK, JobRecord
<1> DEFINE overdue == IF job[j].gen < gen THEN job[j].late + 1 ELSE job[j].late
           after == [gen |-> job[j].gen, at |-> "body", ctx |-> gen, calls |-> job[j].calls + 1, late |-> overdue,
                     sent |-> job[j].sent]
<1>2. job'[j] = after
  BY <1>1 DEF CallJob, JobRecord
<1>3. overdue \in Nat /\ job[j].calls + 1 \in Nat
  BY <1>1 DEF JobRecord
<1>4. after \in JobRecord
  BY <1>1, <1>3 DEF JobRecord, JobStates
<1>5. \A k \in Jobs \ {j} : job'[k] = job[k]
  BY <1>1 DEF CallJob
<1>6. job' \in [Jobs -> JobRecord]
  <2>1. job' = [job EXCEPT ![j] = after]
    BY <1>1, <1>2, <1>5 DEF CallJob
  <2> QED BY <1>1, <1>4, <2>1
<1> QED BY <1>2, <1>5, <1>6

\* A job that ends, or that is to be called again.
LEMMA AfterBody ==
  ASSUME TypeOK, NEW j \in Jobs, Effect(j) \/ Obey(j) \/ Again(j)
  PROVE  /\ job[j].at = "body" /\ job'[j].gen = job[j].gen /\ job'[j].late = job[j].late
         /\ \/ job'[j].at = "gone" /\ job'[j].sent # "nothing"
            \/ job'[j].at = "call" /\ job'[j].sent = job[j].sent /\ j \notin finished /\ Again(j)
         /\ job' \in [Jobs -> JobRecord]
         /\ \A k \in Jobs \ {j} : job'[k] = job[k]
<1>1. job \in [Jobs -> JobRecord]
  BY DEF TypeOK, JobRecord
<1>2. PICK at \in JobStates, sent \in {"nothing", "nil", "cancelled", "continue"} :
        /\ job' = [job EXCEPT ![j] = [job[j] EXCEPT !.at = at, !.sent = sent]]
        /\ \/ at = "gone" /\ sent # "nothing"
           \/ at = "call" /\ sent = job[j].sent /\ j \notin finished /\ Again(j)
  <2>1. CASE Effect(j)
    <3>1. job' = [job EXCEPT ![j] = [job[j] EXCEPT !.at = "gone", !.sent = "nil"]]
      BY <1>1, <2>1 DEF Effect
    <3> QED BY <3>1 DEF JobStates
  <2>2. CASE Obey(j)
    <3>1. job' = [job EXCEPT ![j] = [job[j] EXCEPT !.at = "gone", !.sent = "cancelled"]]
      BY <1>1, <2>2 DEF Obey
    <3> QED BY <3>1 DEF JobStates
  <2>3. CASE Again(j) /\ j \in finished
    <3>1. job' = [job EXCEPT ![j] = [job[j] EXCEPT !.at = "gone", !.sent = "continue"]]
      BY <1>1, <2>3 DEF Again
    <3> QED BY <3>1 DEF JobStates
  <2>4. CASE Again(j) /\ j \notin finished
    <3>1. job' = [job EXCEPT ![j] = [job[j] EXCEPT !.at = "call", !.sent = job[j].sent]]
      BY <1>1, <2>4 DEF Again
    <3>2. job[j].sent \in {"nothing", "nil", "cancelled", "continue"}
      BY <1>1 DEF JobRecord
    <3> QED BY <2>4, <3>1, <3>2 DEF JobStates
  <2> QED BY <2>1, <2>2, <2>3, <2>4
<1>3. [job[j] EXCEPT !.at = at, !.sent = sent] \in JobRecord
  BY <1>1, <1>2 DEF JobRecord
<1>4. /\ job'[j].gen = job[j].gen /\ job'[j].late = job[j].late /\ job'[j].at = at /\ job'[j].sent = sent
  BY <1>1, <1>2 DEF JobRecord
<1> QED BY <1>1, <1>2, <1>3, <1>4 DEF Effect, Obey, Again

\* The other steps leave the jobs alone.
LEMMA JobSteps ==
  ASSUME [Next]_vars
  PROVE  \/ UNCHANGED <<job, next, log>>
         \/ \E c \in Callers : Send(c)
         \/ \E j \in Jobs : JobStep(j)
BY DEF Next, vars, Call, Acquire, CallerStep, Cancel, CloseAgain, Drain, Release, WorkerStep, RangeEnds, JobFinished, RunCancelled,
       jobVars

-----------------------------------------------------------------------------
(* Types and the mutex.                                                    *)

LEMMA JobTypesKept ==
  ASSUME TypeOK, Locked, [Next]_vars
  PROVE  job' \in [Jobs -> JobRecord] /\ next' \in 1 .. MaxJobs + 1 /\ log' \in Seq(Jobs)
<1>1. job \in [Jobs -> JobRecord] /\ next \in 1 .. MaxJobs + 1 /\ log \in Seq(Jobs)
  BY DEF TypeOK, JobRecord
<1>2. ASSUME NEW c \in Callers, Send(c)
      PROVE  job' \in [Jobs -> JobRecord] /\ next' \in 1 .. MaxJobs + 1 /\ log' \in Seq(Jobs)
  <2>1. next \in Jobs /\ next' = next + 1 /\ job' \in [Jobs -> JobRecord]
    BY <1>2, AfterSend
  <2>2. next + 1 \in 1 .. MaxJobs + 1
    BY <2>1, JobQueueAssumption DEF Jobs
  <2> QED BY <1>1, <1>2, <2>1, <2>2 DEF Send
<1>3. ASSUME NEW j \in Jobs, JobStep(j)
      PROVE  job' \in [Jobs -> JobRecord] /\ next' \in 1 .. MaxJobs + 1 /\ log' \in Seq(Jobs)
  <2>1. job' \in [Jobs -> JobRecord]
    BY <1>3, AfterCall, AfterBody DEF JobStep
  <2>2. log' = log \/ log' = Append(log, j)
    BY <1>3 DEF JobStep, CallJob, Effect, Obey, Again
  <2>3. Append(log, j) \in Seq(Jobs)
    BY <1>1
  <2>4. next' = next
    BY <1>3 DEF JobStep, CallJob, Effect, Obey, Again
  <2> QED BY <1>1, <2>1, <2>2, <2>3, <2>4
<1> QED BY <1>1, <1>2, <1>3, JobSteps

LEMMA TypesKept ==
  ASSUME TypeOK, Locked, UnderWay, [Next]_vars
  PROVE  TypeOK'
<1>1. /\ pc \in [Callers -> CallerStates] /\ lock \in Callers \cup {Nobody} /\ gen \in Generations
      /\ cancelled \subseteq Generations /\ closed \subseteq Generations /\ usable \in BOOLEAN
      /\ worker \in [Generations -> WorkerStates] /\ current \in [Generations -> Jobs \cup {0}]
      /\ finished \subseteq Jobs
  BY DEF TypeOK
<1>2. pc' \in [Callers -> CallerStates] /\ lock' \in Callers \cup {Nobody}
  BY <1>1 DEF Next, vars, Call, Acquire, CallerStep, Send, Cancel, CloseAgain, Drain, Release, WorkerStep, RangeEnds, JobFinished,
              RunCancelled, JobStep, CallJob, Effect, Obey, Again, Goto, CallerStates, callerVars
<1>3. ASSUME NEW c \in Callers, Drain(c)
      PROVE  gen' \in Generations /\ worker' \in [Generations -> WorkerStates] /\ usable' \in BOOLEAN
  <2>1. pc[c] = "drain" => gen + 1 \in Generations
    BY <1>1, JobQueueAssumption DEF Locked, Generations
  <2> QED BY <1>1, <1>3, <2>1 DEF Drain, WorkerStates
<1>4. /\ gen' \in Generations /\ worker' \in [Generations -> WorkerStates] /\ usable' \in BOOLEAN
  BY <1>1, <1>3 DEF Next, vars, Call, Acquire, CallerStep, Send, Cancel, CloseAgain, Release, WorkerStep, RangeEnds, JobFinished,
              RunCancelled, JobStep, CallJob, Effect, Obey, Again, WorkerStates, genVars, workerVars
<1>5. cancelled' \subseteq Generations /\ closed' \subseteq Generations
  BY <1>1 DEF Next, vars, Call, Acquire, CallerStep, Send, Cancel, CloseAgain, Drain, Release, WorkerStep, RangeEnds, JobFinished,
              RunCancelled, JobStep, CallJob, Effect, Obey, Again, genVars
<1>6. ASSUME NEW c \in Callers, Send(c)
      PROVE  current' \in [Generations -> Jobs \cup {0}]
  BY <1>1, <1>6, AfterSend DEF Send
<1>7. current' \in [Generations -> Jobs \cup {0}]
  BY <1>1, <1>6 DEF Next, vars, Call, Acquire, CallerStep, Cancel, CloseAgain, Drain, Release, WorkerStep, RangeEnds, JobFinished,
              RunCancelled, JobStep, CallJob, Effect, Obey, Again, workerVars
<1>8. ASSUME NEW g \in Generations, RunCancelled(g)
      PROVE  finished' \subseteq Jobs
  BY <1>1, <1>8 DEF RunCancelled, UnderWay
<1>9. finished' \subseteq Jobs
  BY <1>1, <1>8 DEF Next, vars, Call, Acquire, CallerStep, Send, Cancel, CloseAgain, Drain, Release, WorkerStep, RangeEnds, JobFinished,
              JobStep, CallJob, Effect, Obey, Again, jobVars
<1> QED BY <1>2, <1>4, <1>5, <1>7, <1>9, JobTypesKept DEF TypeOK, JobRecord

\* The calls that have begun are finitely many, and one that has begun has its place within the bounds.
LEMMA CallsCounted ==
  ASSUME TypeOK, Booked
  PROVE  /\ IsFiniteSet(Enqueuing) /\ Cardinality(Enqueuing) \in Nat /\ (Enqueuing # {} => next <= MaxJobs)
         /\ IsFiniteSet(Cancelling) /\ Cardinality(Cancelling) \in Nat /\ (Cancelling # {} => gen < MaxGenerations)
         /\ next \in Nat /\ gen \in Nat /\ MaxJobs \in Nat /\ MaxGenerations \in Nat
<1>1. next \in Nat /\ gen \in Nat /\ MaxJobs \in Nat /\ MaxGenerations \in Nat
  BY JobQueueAssumption DEF TypeOK, Generations
<1>2. IsFiniteSet(Callers) /\ Enqueuing \subseteq Callers /\ Cancelling \subseteq Callers
  BY JobQueueAssumption DEF Enqueuing, Cancelling
<1>3. IsFiniteSet(Enqueuing) /\ IsFiniteSet(Cancelling)
  BY <1>2, FS_Subset
<1>4. /\ Cardinality(Enqueuing) \in Nat /\ (Cardinality(Enqueuing) = 0 <=> Enqueuing = {})
      /\ Cardinality(Cancelling) \in Nat /\ (Cardinality(Cancelling) = 0 <=> Cancelling = {})
  BY <1>3, FS_CardinalityType, FS_EmptySet
<1> QED BY <1>1, <1>3, <1>4 DEF Booked

\* A set with another member ...
LEMMA CountOneMore ==
  ASSUME NEW S, NEW T, NEW x, IsFiniteSet(S), x \notin S, T = S \cup {x}
  PROVE  Cardinality(T) = Cardinality(S) + 1
BY FS_AddElement

\* ... one without a member, ...
LEMMA CountOneLess ==
  ASSUME NEW S, NEW T, NEW x, IsFiniteSet(S), x \in S, T = S \ {x}
  PROVE  Cardinality(T) = Cardinality(S) - 1
BY FS_RemoveElement

\* ... and a smaller one.
LEMMA CountNoMore ==
  ASSUME NEW S, NEW T, IsFiniteSet(S), T \subseteq S
  PROVE  Cardinality(T) <= Cardinality(S)
BY FS_Subset

LEMMA BookedKept ==
  ASSUME TypeOK, Locked, Booked, [Next]_vars
  PROVE  Booked'
<1>1. /\ pc \in [Callers -> CallerStates]
      /\ IsFiniteSet(Enqueuing) /\ Cardinality(Enqueuing) \in Nat /\ (Enqueuing # {} => next <= MaxJobs)
      /\ IsFiniteSet(Cancelling) /\ Cardinality(Cancelling) \in Nat /\ (Cancelling # {} => gen < MaxGenerations)
      /\ next \in Nat /\ gen \in Nat /\ MaxJobs \in Nat /\ MaxGenerations \in Nat
      /\ next + Cardinality(Enqueuing) <= MaxJobs + 1 /\ gen + Cardinality(Cancelling) <= MaxGenerations
  BY CallsCounted DEF TypeOK, Booked
<1>2. ASSUME NEW c \in Callers, Call(c)
      PROVE  Booked'
  <2>1. pc[c] = "out" /\ next' = next /\ gen' = gen /\ c \notin Enqueuing /\ c \notin Cancelling
    BY <1>2 DEF Call, Enqueuing, Cancelling, genVars, jobVars
  <2>2. CASE pc' = [pc EXCEPT ![c] = "enqueue"] /\ next + Cardinality(Enqueuing) <= MaxJobs
    <3>1. Enqueuing' = Enqueuing \cup {c} /\ Cancelling' = Cancelling
      BY <1>1, <2>1, <2>2 DEF Enqueuing, Cancelling
    <3>2. Cardinality(Enqueuing') = Cardinality(Enqueuing) + 1
      BY <1>1, <2>1, <3>1, CountOneMore
    <3> QED BY <1>1, <2>1, <2>2, <3>1, <3>2 DEF Booked
  <2>3. CASE pc' = [pc EXCEPT ![c] = "cancelall"] /\ gen + Cardinality(Cancelling) < MaxGenerations
    <3>1. Cancelling' = Cancelling \cup {c} /\ Enqueuing' = Enqueuing
      BY <1>1, <2>1, <2>3 DEF Enqueuing, Cancelling
    <3>2. Cardinality(Cancelling') = Cardinality(Cancelling) + 1
      BY <1>1, <2>1, <3>1, CountOneMore
    <3> QED BY <1>1, <2>1, <2>3, <3>1, <3>2 DEF Booked
  <2>4. CASE pc' = [pc EXCEPT ![c] = "final"]
    <3>1. Cancelling' = Cancelling /\ Enqueuing' = Enqueuing
      BY <1>1, <2>1, <2>4 DEF Enqueuing, Cancelling
    <3> QED BY <1>1, <2>1, <3>1 DEF Booked
  <2> QED BY <1>2, <2>2, <2>3, <2>4 DEF Call, Goto
<1>3. ASSUME NEW c \in Callers, Send(c)
      PROVE  Booked'
  <2>1. c \in Enqueuing /\ Enqueuing' = Enqueuing \ {c} /\ Cancelling' = Cancelling /\ next' = next + 1 /\ gen' = gen
    BY <1>1, <1>3 DEF Send, Goto, Enqueuing, Cancelling, genVars
  <2>2. Cardinality(Enqueuing') = Cardinality(Enqueuing) - 1
    BY <1>1, <2>1, CountOneLess
  <2> QED BY <1>1, <2>1, <2>2 DEF Booked
<1>4. ASSUME NEW c \in Callers, Drain(c)
      PROVE  Booked'
  <2>1. Enqueuing' = Enqueuing /\ next' = next
    BY <1>1, <1>4 DEF Drain, Goto, Enqueuing, jobVars
  <2>2. CASE pc[c] = "drain"
    <3>1. c \in Cancelling /\ Cancelling' = Cancelling \ {c} /\ gen' = gen + 1
      BY <1>1, <1>4, <2>2 DEF Drain, Goto, Cancelling
    <3>2. Cardinality(Cancelling') = Cardinality(Cancelling) - 1
      BY <1>1, <3>1, CountOneLess
    <3> QED BY <1>1, <2>1, <3>1, <3>2 DEF Booked
  <2>3. CASE pc[c] # "drain"
    <3>1. Cancelling' = Cancelling /\ gen' = gen
      BY <1>1, <1>4, <2>3 DEF Drain, Goto, Cancelling
    <3> QED BY <1>1, <2>1, <3>1 DEF Booked
  <2> QED BY <2>2, <2>3
<1>5. ASSUME next' = next, gen' = gen, Enqueuing' \subseteq Enqueuing, Cancelling' \subseteq Cancelling
      PROVE  Booked'
  <2>1. Cardinality(Enqueuing') <= Cardinality(Enqueuing) /\ Cardinality(Cancelling') <= Cardinality(Cancelling)
    BY <1>1, <1>5, CountNoMore
  <2>2. Cardinality(Enqueuing') \in Nat /\ Cardinality(Cancelling') \in Nat
    <3>1. IsFiniteSet(Enqueuing') /\ IsFiniteSet(Cancelling')
      BY <1>1, <1>5, FS_Subset
    <3> QED BY <3>1, FS_CardinalityType
  <2> QED BY <1>1, <1>5, <2>1, <2>2 DEF Booked
<1>6. ASSUME NEW c \in Callers, Acquire(c) \/ Cancel(c) \/ CloseAgain(c) \/ Release(c)
      PROVE  Booked'
  <2>1. next' = next /\ gen' = gen
    BY <1>6 DEF Acquire, Cancel, CloseAgain, Release, genVars, jobVars
  <2>2. \A d \in Callers \ {c} : pc'[d] = pc[d]
    BY <1>1, <1>6 DEF Acquire, Cancel, CloseAgain, Release, Goto
  <2>3. /\ pc'[c] \in {"enqueue", "send"} => pc[c] \in {"enqueue", "send"}
        /\ pc'[c] \in {"cancelall", "cancel", "drain"} => pc[c] \in {"cancelall", "cancel", "drain"}
    BY <1>1, <1>6 DEF Acquire, Cancel, CloseAgain, Release, Goto
  <2>4. Enqueuing' \subseteq Enqueuing /\ Cancelling' \subseteq Cancelling
    BY <2>2, <2>3 DEF Enqueuing, Cancelling
  <2> QED BY <1>5, <2>1, <2>4
<1>7. ASSUME \/ UNCHANGED vars
             \/ \E g \in Generations : WorkerStep(g)
             \/ \E j \in Jobs : JobStep(j)
      PROVE  Booked'
  <2>1. UNCHANGED <<pc, gen, next>>
    BY <1>7 DEF vars, WorkerStep, RangeEnds, JobFinished, RunCancelled, JobStep, CallJob, Effect, Obey, Again,
                callerVars, genVars, jobVars
  <2> QED BY <2>1 DEF Booked, Enqueuing, Cancelling
<1> QED BY <1>2, <1>3, <1>4, <1>6, <1>7 DEF Next, CallerStep

\* The mutex.
LEMMA LockedKept ==
  ASSUME TypeOK, Locked, Booked, [Next]_vars
  PROVE  Locked'
<1>1. /\ pc \in [Callers -> CallerStates] /\ next \in Nat /\ gen \in Nat
  BY JobQueueAssumption DEF TypeOK, Generations
<1>2. ASSUME NEW c \in Callers, Acquire(c)
      PROVE  Locked'
  <2>1. \A d \in Callers : pc[d] \in Waiting
    BY <1>2, JobQueueNames DEF Acquire, Locked
  <2>2. /\ pc[c] = "enqueue" => next <= MaxJobs
        /\ pc[c] = "cancelall" => gen < MaxGenerations
    BY CallsCounted DEF Enqueuing, Cancelling
  <2>3. /\ \A d \in Callers \ {c} : pc'[d] \in Waiting
        /\ lock' = c /\ next' = next /\ gen' = gen
        /\ \/ pc'[c] = "send" /\ next <= MaxJobs
           \/ pc'[c] = "cancel" /\ gen < MaxGenerations
           \/ pc'[c] \in {"release", "close"}
    BY <1>1, <1>2, <2>1, <2>2 DEF Acquire, Goto, genVars, jobVars
  <2> QED BY <2>3 DEF Locked, Waiting
<1>5. ASSUME NEW c \in Callers, Call(c)
      PROVE  Locked'
  <2>1. UNCHANGED <<lock, gen, next>> /\ pc'[c] \in Waiting /\ \A d \in Callers \ {c} : pc'[d] = pc[d]
    BY <1>1, <1>5 DEF Call, Goto, Waiting, genVars, jobVars
  <2> QED BY <2>1 DEF Locked, Waiting
<1>3. ASSUME NEW c \in Callers, CallerStep(c)
      PROVE  Locked'
  <2>1. pc[c] \notin Waiting /\ lock = c /\ \A d \in Callers \ {c} : pc[d] \in Waiting
    BY <1>3 DEF CallerStep, Send, Cancel, CloseAgain, Drain, Release, Locked, Waiting
  <2>2. /\ \A d \in Callers \ {c} : pc'[d] \in Waiting
        /\ \/ pc'[c] \in {"release", "panicked"} /\ lock' = lock
           \/ pc'[c] = "out"
           \/ pc'[c] \in {"drain", "drainlast"} /\ gen' = gen /\ lock' = lock /\ (pc'[c] = "drain" => pc[c] = "cancel")
    BY <1>1, <1>3, <2>1 DEF CallerStep, Send, Cancel, CloseAgain, Drain, Release, Goto
  <2> QED BY <2>1, <2>2 DEF Locked, Waiting
<1>4. ASSUME \/ UNCHANGED vars
             \/ \E g \in Generations : WorkerStep(g)
             \/ \E j \in Jobs : JobStep(j)
      PROVE  Locked'
  <2>1. UNCHANGED <<pc, lock, gen, next>>
    BY <1>4 DEF vars, WorkerStep, RangeEnds, JobFinished, RunCancelled, JobStep, CallJob, Effect, Obey, Again,
                callerVars, genVars, jobVars
  <2> QED BY <2>1 DEF Locked
<1> QED BY <1>2, <1>3, <1>4, <1>5 DEF Next

-----------------------------------------------------------------------------
(* The workers and what they have under way.                               *)

\* The steps, as far as the workers are concerned.
LEMMA WorkerSteps ==
  ASSUME TypeOK, Locked, Workers, [Next]_vars
  PROVE  \/ UNCHANGED <<gen, worker, current, finished>>
         \/ \E c \in Callers : Send(c)
         \/ \E c \in Callers : Drain(c) /\ (pc[c] = "drain" => gen + 1 \in Generations)
         \/ worker[gen] \in {"range", "run"} /\ WorkerStep(gen)
<1>1. gen \in Generations
  BY DEF TypeOK
<1>2. ASSUME NEW c \in Callers, Drain(c)
      PROVE  pc[c] = "drain" => gen + 1 \in Generations
  BY <1>1, JobQueueAssumption DEF Locked, Generations
<1>3. ASSUME NEW g \in Generations, WorkerStep(g)
      PROVE  worker[gen] \in {"range", "run"} /\ WorkerStep(gen)
  <2>1. worker[g] \in {"range", "run"}
    BY <1>3 DEF WorkerStep, RangeEnds, JobFinished, RunCancelled
  <2>2. g = gen
    BY <1>1, <2>1 DEF Workers, Generations
  <2> QED BY <1>3, <2>1, <2>2
<1> QED BY <1>2, <1>3 DEF Next, vars, Call, Acquire, CallerStep, Cancel, CloseAgain, Release, JobStep, CallJob, Effect, Obey, Again,
                         genVars, workerVars, jobVars

\* Only the newest generation has a worker.
LEMMA WorkersKept ==
  ASSUME TypeOK, Locked, Workers, [Next]_vars
  PROVE  Workers'
<1>1. gen \in Generations /\ worker \in [Generations -> WorkerStates]
  BY DEF TypeOK
<1>2. ASSUME NEW c \in Callers, Drain(c), pc[c] = "drain" => gen + 1 \in Generations
      PROVE  Workers'
  <2>1. CASE pc[c] = "drain"
    <3>1. gen' = gen + 1 /\ worker' = [worker EXCEPT ![gen] = "gone", ![gen + 1] = "range"]
      BY <1>2, <2>1 DEF Drain
    <3>2. \A g \in Generations : worker'[g] = IF g = gen THEN "gone" ELSE IF g = gen + 1 THEN "range" ELSE worker[g]
      BY <1>1, <1>2, <2>1, <3>1 DEF Generations
    <3>3. \A g \in Generations : (g < gen + 1 <=> g < gen \/ g = gen) /\ (g > gen + 1 => g > gen /\ g # gen /\ g # gen + 1)
      BY <1>1 DEF Generations
    <3> QED BY <3>1, <3>2, <3>3 DEF Workers
  <2>2. CASE pc[c] # "drain"
    <3>1. gen' = gen /\ worker' = [worker EXCEPT ![gen] = "gone"]
      BY <1>2, <2>2 DEF Drain
    <3> QED BY <1>1, <3>1 DEF Workers, Generations
  <2> QED BY <2>1, <2>2
<1>3. ASSUME gen' = gen, \A g \in Generations \ {gen} : worker'[g] = worker[g]
      PROVE  Workers'
  BY <1>1, <1>3 DEF Workers, Generations
<1>4. ASSUME NEW c \in Callers, Send(c)
      PROVE  gen' = gen /\ \A g \in Generations \ {gen} : worker'[g] = worker[g]
  BY <1>1, <1>4 DEF Send, genVars
<1>5. ASSUME WorkerStep(gen)
      PROVE  gen' = gen /\ \A g \in Generations \ {gen} : worker'[g] = worker[g]
  BY <1>1, <1>5 DEF WorkerStep, RangeEnds, JobFinished, RunCancelled, genVars
<1> QED BY <1>2, <1>3, <1>4, <1>5, WorkerSteps

\* The generation never goes back.
LEMMA GenGrows ==
  ASSUME TypeOK, Locked, Workers, [Next]_vars
  PROVE  gen' = gen \/ (gen' = gen + 1 /\ gen + 1 \in Generations)
BY WorkerSteps DEF Send, Drain, WorkerStep, RangeEnds, JobFinished, RunCancelled, genVars

LEMMA EnqueuedKept ==
  ASSUME TypeOK, Locked, Workers, Enqueued, [Next]_vars
  PROVE  Enqueued'
<1>1. job \in [Jobs -> JobRecord] /\ next \in 1 .. MaxJobs + 1 /\ gen \in Generations /\ Jobs \subseteq Nat
      /\ Generations \subseteq Nat
  BY DEF TypeOK, JobRecord, Jobs, Generations
<1>2. \A g \in Nat : g <= gen => g <= gen'
  BY <1>1, GenGrows
<1>3. ASSUME UNCHANGED <<job, next>>
      PROVE  Enqueued'
  BY <1>1, <1>2, <1>3 DEF Enqueued
<1>4. ASSUME NEW c \in Callers, Send(c)
      PROVE  Enqueued'
  <2>1. /\ next \in Jobs /\ next' = next + 1
        /\ job'[next] = [NoJob EXCEPT !.gen = gen, !.at = "call"]
        /\ \A j \in Jobs \ {next} : job'[j] = job[j]
    BY <1>4, AfterSend
  <2>2. job'[next].gen = gen /\ job'[next].at = "call" /\ job'[next].sent = "nothing"
    BY <2>1 DEF NoJob
  <2>3. gen' = gen
    BY <1>4 DEF Send, genVars
  <2>4. \A j \in Jobs : j < next' <=> j < next \/ j = next
    BY <1>1, <2>1
  <2>5. ASSUME NEW k \in Jobs
        PROVE  /\ k < next' <=> job'[k].at # "none"
               /\ k < next' => job'[k].gen \in Generations /\ job'[k].gen <= gen'
               /\ job'[k].sent # "nothing" <=> job'[k].at = "gone"
    <3>1. CASE k = next
      <4>1. gen <= gen /\ gen \in Generations
        BY <1>1
      <4> QED BY <2>2, <2>3, <2>4, <3>1, <4>1
    <3>2. CASE k # next
      BY <2>1, <2>3, <2>4, <3>2 DEF Enqueued
    <3> QED BY <3>1, <3>2
  <2> QED BY <2>5 DEF Enqueued
<1>5. ASSUME NEW j \in Jobs, JobStep(j)
      PROVE  Enqueued'
  <2>1. next' = next /\ gen' = gen
    BY <1>5 DEF JobStep, CallJob, Effect, Obey, Again, genVars
  <2>2. \A k \in Jobs \ {j} : job'[k] = job[k]
    BY <1>5, AfterCall, AfterBody DEF JobStep
  <2>3. job'[j].gen = job[j].gen /\ job[j].at \in {"call", "body"} /\ job'[j].at # "none"
    BY <1>5, AfterCall, AfterBody DEF JobStep, CallJob
  <2>4. job'[j].sent # "nothing" <=> job'[j].at = "gone"
    <3>1. job[j].sent = "nothing"
      BY <2>3 DEF Enqueued
    <3> QED BY <1>5, <3>1, AfterCall, AfterBody DEF JobStep
  <2> QED BY <2>1, <2>2, <2>3, <2>4 DEF Enqueued
<1> QED BY <1>3, <1>4, <1>5, JobSteps

\* Whatever happens to a worker, the job it leaves under way is marked, and it takes the next one only
\* when the last has ended.
LEMMA UnderWayKept ==
  ASSUME TypeOK, Locked, Workers, Enqueued, UnderWay, [Next]_vars
  PROVE  UnderWay'
<1>1. /\ job \in [Jobs -> JobRecord] /\ gen \in Generations /\ next \in 1 .. MaxJobs + 1
      /\ worker \in [Generations -> WorkerStates] /\ current \in [Generations -> Jobs \cup {0}]
  BY DEF TypeOK, JobRecord
<1>2. \A j \in Jobs : Pending(j) => job[j].gen \in Generations /\ job[j].gen <= gen
  BY DEF Pending, Enqueued
<1>3. ASSUME UNCHANGED <<worker, current, job, finished>>
      PROVE  UnderWay'
  BY <1>3 DEF UnderWay, Pending
<1>4. ASSUME NEW c \in Callers, Send(c)
      PROVE  UnderWay'
  <2>1. /\ next \in Jobs /\ \A j \in Jobs \ {next} : job'[j] = job[j]
        /\ job'[next] = [NoJob EXCEPT !.gen = gen, !.at = "call"]
    BY <1>4, AfterSend
  <2>2. job'[next].gen = gen
    BY <2>1 DEF NoJob
  <2>3. /\ worker[gen] = "range" /\ worker' = [worker EXCEPT ![gen] = "run"]
        /\ current' = [current EXCEPT ![gen] = next] /\ finished' = finished
    BY <1>4 DEF Send
  <2>4. ASSUME NEW j \in Jobs, Pending(j)'
        PROVE  /\ worker'[job'[j].gen] \in {"run", "leaving", "gone"}
               /\ worker'[job'[j].gen] = "run" => current'[job'[j].gen] = j
               /\ worker'[job'[j].gen] \in {"leaving", "gone"} => j \in finished'
    <3>1. CASE j = next
      BY <1>1, <2>2, <2>3, <3>1
    <3>2. CASE j # next
      <4>1. Pending(j) /\ job'[j].gen = job[j].gen
        BY <2>1, <2>4, <3>2 DEF Pending
      <4>2. job[j].gen # gen /\ job[j].gen \in Generations
        BY <1>2, <2>3, <4>1 DEF UnderWay
      <4> QED BY <1>1, <2>3, <4>1, <4>2 DEF UnderWay
    <3> QED BY <3>1, <3>2
  <2>5. ASSUME NEW g \in Generations, worker'[g] = "run"
        PROVE  current'[g] \in Jobs /\ job'[current'[g]].gen = g
    <3>1. CASE g = gen
      BY <1>1, <2>1, <2>2, <2>3, <3>1
    <3>2. CASE g # gen
      <4>1. worker[g] = "run" /\ current'[g] = current[g]
        BY <1>1, <2>3, <2>5, <3>2
      <4> QED BY <3>2, <4>1, <1>1 DEF Workers, Generations, WorkerStates
    <3> QED BY <3>1, <3>2
  <2> QED BY <2>4, <2>5 DEF UnderWay
<1>5. ASSUME NEW c \in Callers, Drain(c), pc[c] = "drain" => gen + 1 \in Generations
      PROVE  UnderWay'
  <2>1. /\ worker[gen] = "leaving" /\ job' = job /\ finished' = finished /\ current' = current
        /\ \/ worker' = [worker EXCEPT ![gen] = "gone", ![gen + 1] = "range"] /\ gen + 1 \in Generations
           \/ worker' = [worker EXCEPT ![gen] = "gone"]
    BY <1>5 DEF Drain, jobVars
  <2>2. \A g \in Generations : g <= gen => worker'[g] = IF g = gen THEN "gone" ELSE worker[g]
    <3>1. \A g \in Generations : g <= gen => g # gen + 1
      BY <1>1 DEF Generations
    <3> QED BY <1>1, <2>1, <3>1
  <2>3. \A g \in Generations : worker'[g] = "run" => worker[g] = "run"
    BY <1>1, <2>1
  <2>4. ASSUME NEW j \in Jobs, Pending(j)
        PROVE  /\ worker'[job[j].gen] \in {"run", "leaving", "gone"}
               /\ worker'[job[j].gen] = "run" => current[job[j].gen] = j
               /\ worker'[job[j].gen] \in {"leaving", "gone"} => j \in finished
    <3>1. worker'[job[j].gen] = IF job[j].gen = gen THEN "gone" ELSE worker[job[j].gen]
      BY <1>2, <2>2, <2>4
    <3> QED BY <2>1, <2>4, <3>1 DEF UnderWay
  <2> QED BY <2>1, <2>3, <2>4 DEF UnderWay, Pending
<1>6. ASSUME WorkerStep(gen)
      PROVE  UnderWay'
  <2>1. job' = job /\ current' = current /\ \A g \in Generations \ {gen} : worker'[g] = worker[g]
    BY <1>1, <1>6 DEF WorkerStep, RangeEnds, JobFinished, RunCancelled, jobVars
  <2>2. ASSUME NEW j \in Jobs, Pending(j), job[j].gen = gen
        PROVE  worker'[gen] = "leaving" /\ j \in finished'
    <3>1. worker[gen] = "run" /\ current[gen] = j
      BY <1>6, <2>2 DEF WorkerStep, RangeEnds, JobFinished, RunCancelled, UnderWay
    <3>2. ~JobFinished(gen)
      BY <2>2, <3>1 DEF JobFinished, Enqueued, Pending
    <3>3. RunCancelled(gen)
      BY <1>6, <3>1, <3>2 DEF WorkerStep, RangeEnds
    <3> QED BY <1>1, <3>1, <3>3 DEF RunCancelled
  <2>3. worker'[gen] # "run"
    BY <1>1, <1>6 DEF WorkerStep, RangeEnds, JobFinished, RunCancelled
  <2>4. finished \subseteq finished'
    BY <1>6 DEF WorkerStep, RangeEnds, JobFinished, RunCancelled, jobVars
  <2>5. ASSUME NEW j \in Jobs, Pending(j), job[j].gen # gen
        PROVE  worker'[job[j].gen] = worker[job[j].gen]
    BY <1>2, <2>1, <2>5
  <2> QED BY <2>1, <2>2, <2>3, <2>4, <2>5 DEF UnderWay, Pending
<1>7. ASSUME NEW j \in Jobs, JobStep(j)
      PROVE  UnderWay'
  <2>1. UNCHANGED <<worker, current, finished>>
    BY <1>7 DEF JobStep, CallJob, Effect, Obey, Again, workerVars
  <2>2. \A k \in Jobs : job'[k].gen = job[k].gen
    BY <1>7, AfterCall, AfterBody DEF JobStep
  <2>3. \A k \in Jobs : Pending(k)' => Pending(k)
    BY <1>7, AfterCall, AfterBody DEF JobStep, CallJob, Pending
  <2> QED BY <1>1, <2>1, <2>2, <2>3 DEF UnderWay
<1>8. ASSUME \A c \in Callers : ~Send(c), \A j \in Jobs : ~JobStep(j)
      PROVE  job' = job
  BY <1>8, JobSteps
<1> QED BY <1>3, <1>4, <1>5, <1>6, <1>7, <1>8, WorkerSteps

-----------------------------------------------------------------------------
(* The order.                                                              *)

\* A job of a generation starts when those before it have ended.
LEMMA InTurnKept ==
  ASSUME TypeOK, Locked, Enqueued, UnderWay, InTurn, [Next]_vars
  PROVE  InTurn'
<1>1. job \in [Jobs -> JobRecord] /\ next \in Nat /\ Jobs \subseteq Nat /\ gen \in Generations
  BY JobQueueAssumption DEF TypeOK, JobRecord, Jobs
<1>2. ASSUME NEW c \in Callers, Send(c)
      PROVE  InTurn'
  <2>1. /\ next \in Jobs /\ next' = next + 1 /\ \A j \in Jobs \ {next} : job'[j] = job[j]
        /\ job'[next] = [NoJob EXCEPT !.gen = gen, !.at = "call"]
    BY <1>2, AfterSend
  <2>2. job'[next].gen = gen
    BY <2>1 DEF NoJob
  <2>3. ASSUME NEW j \in Jobs, NEW k \in Jobs, j < k, k < next', job'[j].gen = job'[k].gen
        PROVE  job'[j].at = "gone"
    <3>1. j # next /\ j < next /\ (k = next \/ (k # next /\ k < next))
      BY <1>1, <2>1, <2>3
    <3>2. job'[j] = job[j]
      BY <2>1, <3>1
    <3>3. CASE k = next
      <4>1. job[j].gen = gen /\ worker[gen] = "range"
        BY <1>2, <2>2, <2>3, <3>2, <3>3 DEF Send
      <4>2. ~Pending(j)
        BY <4>1 DEF UnderWay
      <4>3. job[j].at # "none" /\ job[j].at \in JobStates
        BY <1>1, <3>1 DEF Enqueued, JobRecord
      <4> QED BY <3>2, <4>2, <4>3 DEF Pending, JobStates
    <3>4. CASE k # next
      BY <2>1, <2>3, <3>1, <3>2, <3>4 DEF InTurn
    <3> QED BY <3>3, <3>4
  <2> QED BY <2>3 DEF InTurn
<1>3. ASSUME NEW j \in Jobs, JobStep(j)
      PROVE  InTurn'
  <2>1. next' = next /\ \A k \in Jobs : job'[k].gen = job[k].gen
    BY <1>3, AfterCall, AfterBody DEF JobStep, CallJob, Effect, Obey, Again
  <2>2. \A k \in Jobs : job[k].at = "gone" => job'[k].at = "gone"
    BY <1>3, AfterCall, AfterBody DEF JobStep, CallJob
  <2> QED BY <2>1, <2>2 DEF InTurn
<1>4. ASSUME UNCHANGED <<job, next>>
      PROVE  InTurn'
  BY <1>4 DEF InTurn
<1> QED BY <1>2, <1>3, <1>4, JobSteps

\* An effect comes after those of the jobs before it.
LEMMA LoggedKept ==
  ASSUME TypeOK, Locked, Enqueued, InTurn, Logged, [Next]_vars
  PROVE  Logged'
<1>1. /\ job \in [Jobs -> JobRecord] /\ next \in Nat /\ Jobs \subseteq Nat /\ log \in Seq(Jobs)
      /\ \A m \in 1 .. Len(log) : log[m] \in Jobs
  <2>1. log \in Seq(Jobs)
    BY DEF TypeOK
  <2>2. \A m \in 1 .. Len(log) : log[m] \in Jobs
    BY <2>1
  <2> QED BY <2>1, <2>2, JobQueueAssumption DEF TypeOK, JobRecord, Jobs
<1>2. \A m \in 1 .. Len(log) : log[m] < next
  BY <1>1 DEF Logged, Enqueued
<1>3. ASSUME log' = log,
             \A m \in 1 .. Len(log) : job'[log[m]].at = job[log[m]].at /\ job'[log[m]].gen = job[log[m]].gen
      PROVE  Logged'
  BY <1>3 DEF Logged
<1>4. ASSUME NEW j \in Jobs, Effect(j)
      PROVE  Logged'
  <2>1. /\ job[j].at = "body" /\ job'[j].gen = job[j].gen /\ job'[j].at = "gone"
        /\ \A k \in Jobs \ {j} : job'[k] = job[k]
    <3>1. job'[j].at = "gone"
      BY <1>1, <1>4 DEF Effect, JobRecord
    <3> QED BY <1>4, <3>1, AfterBody
  <2>2. log' = Append(log, j)
    BY <1>4 DEF Effect
  <2>3. /\ Len(log') = Len(log) + 1 /\ Len(log) \in Nat
        /\ log'[Len(log) + 1] = j /\ \A m \in 1 .. Len(log) : log'[m] = log[m]
    BY <1>1, <2>2
  <2>4. \A m \in 1 .. Len(log) : log[m] # j
    BY <2>1 DEF Logged
  <2>5. j < next
    BY <2>1 DEF Enqueued
  <2>6. \A m \in 1 .. Len(log) : job[log[m]].gen = job[j].gen => log[m] < j
    <3>1. \A k \in Jobs : job[k].gen = job[j].gen /\ k # j /\ k < next => k < j
      BY <1>1, <2>1, <2>5 DEF InTurn
    <3> QED BY <1>1, <1>2, <2>4, <3>1
  <2>7. \A m \in 1 .. Len(log) + 1 : m \in 1 .. Len(log) \/ m = Len(log) + 1
    BY <2>3
  <2>8. \A m \in 1 .. Len(log) : job'[log[m]] = job[log[m]]
    BY <1>1, <2>1, <2>4
  <2>9. \A m \in 1 .. Len(log') : job'[log'[m]].at = "gone"
    BY <2>1, <2>3, <2>7, <2>8 DEF Logged
  <2>10. ASSUME NEW m \in 1 .. Len(log'), NEW n \in 1 .. Len(log'), m < n,
                job'[log'[m]].gen = job'[log'[n]].gen
         PROVE  log'[m] < log'[n]
    <3>1. m \in 1 .. Len(log)
      BY <2>3, <2>10
    <3>2. CASE n \in 1 .. Len(log)
      BY <2>3, <2>8, <2>10, <3>1, <3>2 DEF Logged
    <3>3. CASE n = Len(log) + 1
      BY <2>1, <2>3, <2>6, <2>8, <2>10, <3>1, <3>3
    <3> QED BY <2>3, <2>7, <2>10, <3>2, <3>3
  <2> QED BY <2>9, <2>10 DEF Logged
<1>5. ASSUME NEW j \in Jobs, CallJob(j) \/ Obey(j) \/ Again(j)
      PROVE  Logged'
  <2>1. log' = log /\ job[j].at # "gone"
    BY <1>5 DEF CallJob, Obey, Again
  <2>2. \A k \in Jobs \ {j} : job'[k] = job[k]
    BY <1>5, AfterCall, AfterBody
  <2>3. \A m \in 1 .. Len(log) : log[m] \in Jobs \ {j}
    BY <1>1, <2>1 DEF Logged
  <2> QED BY <1>3, <2>1, <2>2, <2>3
<1>6. ASSUME NEW c \in Callers, Send(c)
      PROVE  Logged'
  <2>1. log' = log /\ \A j \in Jobs \ {next} : job'[j] = job[j]
    BY <1>6, AfterSend DEF Send
  <2>2. \A m \in 1 .. Len(log) : log[m] # next
    BY <1>1, <1>2
  <2> QED BY <1>1, <1>3, <2>1, <2>2
<1> QED BY <1>3, <1>4, <1>5, <1>6, JobSteps DEF JobStep

\* A job that is called in a later generation is marked as finished, so it is not called again.
LEMMA LateKept ==
  ASSUME TypeOK, Locked, Workers, Enqueued, UnderWay, Late, [Next]_vars
  PROVE  Late'
<1>1. job \in [Jobs -> JobRecord] /\ gen \in Nat /\ \A j \in Jobs : job[j].gen \in Nat
  BY DEF TypeOK, JobRecord, Generations
<1>2. \A j \in Jobs : job[j].gen < gen => job[j].gen < gen'
  <2>1. \A x \in Nat : x < gen => x < gen + 1
    BY <1>1
  <2> QED BY <1>1, <2>1, GenGrows
<1>3. ASSUME NEW j \in Jobs, CallJob(j)
      PROVE  Late'
  <2>1. /\ job'[j].gen = job[j].gen /\ job'[j].at = "body" /\ \A k \in Jobs \ {j} : job'[k] = job[k]
        /\ job'[j].late = IF job[j].gen < gen THEN job[j].late + 1 ELSE job[j].late
    BY <1>3, AfterCall
  <2>2. job[j].late = 0
    BY <1>3 DEF CallJob, Late
  <2> QED BY <1>2, <2>1, <2>2 DEF Late
<1>4. ASSUME NEW j \in Jobs, Effect(j) \/ Obey(j) \/ Again(j)
      PROVE  Late'
  <2>1. /\ job[j].at = "body" /\ job'[j].gen = job[j].gen /\ job'[j].late = job[j].late
        /\ job'[j].at = "gone" \/ (job'[j].at = "call" /\ j \notin finished)
        /\ \A k \in Jobs \ {j} : job'[k] = job[k]
    BY <1>4, AfterBody
  <2>2. ASSUME job[j].gen < gen
        PROVE  j \in finished
    <3>1. Pending(j) /\ job[j].gen \in Generations
      BY <2>1 DEF Pending, Enqueued
    <3>2. worker[job[j].gen] = "gone"
      BY <2>2, <3>1 DEF Workers
    <3> QED BY <3>1, <3>2 DEF UnderWay
  <2> QED BY <1>2, <2>1, <2>2 DEF Late
<1>5. ASSUME NEW c \in Callers, Send(c)
      PROVE  Late'
  <2>1. /\ \A j \in Jobs \ {next} : job'[j] = job[j]
        /\ job'[next] = [NoJob EXCEPT !.gen = gen, !.at = "call"]
    BY <1>5, AfterSend
  <2>2. job'[next].late = 0
    BY <2>1 DEF NoJob
  <2> QED BY <1>2, <2>1, <2>2 DEF Late
<1>6. ASSUME UNCHANGED job
      PROVE  Late'
  BY <1>2, <1>6 DEF Late
<1> QED BY <1>3, <1>4, <1>5, <1>6, JobSteps DEF JobStep

-----------------------------------------------------------------------------
(* The theorems.                                                           *)

LEMMA InvStarts ==
  ASSUME Init
  PROVE  Inv
<1>1. 1 \in Generations /\ 1 \in 1 .. MaxJobs + 1 /\ Jobs \subseteq Nat \ {0}
  BY JobQueueAssumption DEF Generations, Jobs
<1>2. NoJob \in JobRecord
  BY DEF NoJob, JobRecord, JobStates
<1>3. TypeOK
  BY <1>1, <1>2 DEF Init, TypeOK, JobRecord, CallerStates, WorkerStates
<1>4. Locked /\ InTurn /\ Late /\ Logged
  BY <1>1 DEF Init, Locked, Waiting, InTurn, Late, Logged, NoJob
<1>5. \A j \in Jobs : job[j].at = "none" /\ job[j].sent = "nothing" /\ ~(j < next)
  BY <1>1 DEF Init, NoJob
<1>6. Enqueued
  BY <1>5 DEF Enqueued
<1>7. Workers /\ UnderWay
  BY <1>1, <1>5 DEF Init, Workers, UnderWay, Pending, Generations
<1>8. Booked
  <2>1. Enqueuing = {} /\ Cancelling = {}
    BY DEF Init, Enqueuing, Cancelling
  <2>2. Cardinality({}) = 0
    BY FS_EmptySet
  <2>3. MaxJobs \in Nat /\ MaxGenerations \in Nat \ {0} /\ next = 1 /\ gen = 1
    BY JobQueueAssumption DEF Init
  <2>4. 1 + 0 <= MaxJobs + 1 /\ 1 + 0 <= MaxGenerations
    BY <2>3
  <2> QED BY <2>1, <2>2, <2>3, <2>4 DEF Booked
<1> QED BY <1>3, <1>4, <1>6, <1>7, <1>8 DEF Inv

LEMMA InvKept ==
  ASSUME Inv, [Next]_vars
  PROVE  Inv'
BY TypesKept, LockedKept, BookedKept, WorkersKept, EnqueuedKept, UnderWayKept, InTurnKept, LoggedKept, LateKept DEF Inv

LEMMA InvAlways == Spec => []Inv
BY InvStarts, InvKept, PTL DEF Spec

\* Whatever is enqueued, cancelled and closed, only the newest generation has a worker, and the jobs of
\* a generation have their effects in the order in which they were enqueued, each at most once.
THEOREM JobsTakeTurns == Spec => []JobsInTurn
<1>1. Inv => JobsInTurn
  <2> SUFFICES ASSUME Inv
               PROVE  \A g \in Generations : Alive(g) => g = gen
    BY DEF Inv, Logged, JobsInTurn
  <2> QED BY DEF Inv, Workers, Alive, TypeOK, Generations
<1> QED BY <1>1, InvAlways, PTL

\* A job that asks to be called again is called at most once more after the CancelAll that threw it away.
THEOREM LateCallIsLast == Spec => []AtMostOneLateCall
<1>1. Inv => AtMostOneLateCall
  BY DEF Inv, Late, AtMostOneLateCall
<1> QED BY <1>1, InvAlways, PTL

-----------------------------------------------------------------------------
(* The view, which gives its resize jobs to a queue: go/gui, for any       *)
(* images, requests and moves of the slider.                               *)

\* No goroutine and no delivery is ahead of what has been asked for.
NothingAhead ==
  /\ \A r \in renders : r.req <= requests
  /\ \A j \in jobs : j.n <= enqueued
  /\ \A s \in sheets : s.n <= requests
  /\ rendered <= requests
  /\ newest.render <= requests /\ newest.job <= enqueued /\ newest.sheet <= requests

\* A resize job comes from a render that has ended or from the slider.
JobsCounted == IsFiniteSet(renders) /\ enqueued + Cardinality(renders) <= requests + zooms

\* Only the newest sheet has a context.
NewestSheet == \A s, t \in sheets : ~s.cancelled /\ s # t => t.n < s.n

\* The sheet of the selected image is under way, or it was delivered and what is under way is older.
SheetOfSelected ==
  img # NoImage =>
    \/ \E s \in sheets : s.of = img /\ ~s.cancelled
    \/ (\A s \in sheets : s.n < newest.sheet) /\ (chips = img \/ late.sheet)

\* The newest render and the newest resize job, as in NewestSurvives.
NewestRender == requests = newest.render \/ \E r \in renders : r.req = requests /\ ~r.cancelled
NewestJob == enqueued = newest.job \/ \E j \in jobs : j.n = enqueued /\ ~j.cancelled

ViewInv == ViewTypes /\ NothingAhead /\ JobsCounted /\ NewestSheet /\ SheetOfSelected /\ NewestRender /\ NewestJob

-----------------------------------------------------------------------------

\* Cancelling changes no number, and adds nothing.
LEMMA CancelledType ==
  /\ \A S \in SUBSET Render : \A r \in Cancelled(S) : r \in Render /\ r.cancelled /\ \E q \in S : r.req = q.req
  /\ \A S \in SUBSET Job : \A j \in Cancelled(S) : j \in Job /\ j.cancelled /\ \E q \in S : j.n = q.n
  /\ \A S \in SUBSET Sheet : \A s \in Cancelled(S) : s \in Sheet /\ s.cancelled /\ \E q \in S : s.n = q.n
<1>1. ASSUME NEW S \in SUBSET Render, NEW r \in Cancelled(S)
      PROVE  r \in Render /\ r.cancelled /\ \E q \in S : r.req = q.req
  BY <1>1 DEF Cancelled, Render
<1>2. ASSUME NEW S \in SUBSET Job, NEW j \in Cancelled(S)
      PROVE  j \in Job /\ j.cancelled /\ \E q \in S : j.n = q.n
  BY <1>2 DEF Cancelled, Job
<1>3. ASSUME NEW S \in SUBSET Sheet, NEW s \in Cancelled(S)
      PROVE  s \in Sheet /\ s.cancelled /\ \E q \in S : s.n = q.n
  BY <1>3 DEF Cancelled, Sheet
<1> QED BY <1>1, <1>2, <1>3

LEMMA CancelledCount ==
  ASSUME NEW S, IsFiniteSet(S)
  PROVE  IsFiniteSet(Cancelled(S)) /\ Cardinality(Cancelled(S)) <= Cardinality(S)
<1> DEFINE f == [s \in S |-> [s EXCEPT !.cancelled = TRUE]]
<1>1. f \in Surjection(S, Cancelled(S))
  BY DEF Surjection, Cancelled
<1> QED BY <1>1, FS_Surjection

LEMMA ViewStarts ==
  ASSUME ViewInit
  PROVE  ViewInv
<1>1. 0 \in 0 .. MaxRequests /\ 0 \in 0 .. MaxZooms
  BY ViewAssumption
<1>2. ViewTypes
  BY <1>1 DEF ViewInit, ViewTypes
<1>3. JobsCounted
  BY FS_EmptySet DEF ViewInit, JobsCounted
<1> QED
  BY <1>2, <1>3 DEF ViewInit, ViewInv, NothingAhead, NewestSheet, SheetOfSelected, NewestRender, NewestJob

-----------------------------------------------------------------------------
(* The renders.                                                            *)

\* updateRenderedImage.
LEMMA AfterUpdate ==
  ASSUME ViewInv, UpdateRenderedImage
  PROVE  /\ requests \in Nat /\ requests' = requests + 1 /\ requests' \in Requests
         /\ renders' \subseteq Render
         /\ \A r \in renders' : r.req <= requests'
         /\ \E r \in renders' : r.req = requests' /\ ~r.cancelled
         /\ IsFiniteSet(renders') /\ Cardinality(renders') <= Cardinality(renders) + 1
<1> DEFINE new == [req |-> requests + 1, cancelled |-> FALSE]
<1>1. requests \in 0 .. MaxRequests /\ requests < MaxRequests /\ MaxRequests \in Nat
  BY ViewAssumption DEF ViewInv, ViewTypes, UpdateRenderedImage
<1>2. requests' = requests + 1 /\ requests' \in Requests /\ requests \in Nat
  BY <1>1 DEF UpdateRenderedImage, Requests
<1>3. renders' = Cancelled(renders) \cup {new} /\ new \in Render
  BY <1>2 DEF UpdateRenderedImage, Render
<1>4. renders \subseteq Render /\ \A r \in renders : r.req <= requests
  BY DEF ViewInv, ViewTypes, NothingAhead
<1>5. \A r \in Cancelled(renders) : r \in Render /\ \E q \in renders : r.req = q.req
  BY <1>4, CancelledType
<1>6. renders' \subseteq Render
  BY <1>3, <1>5
<1>7. \A r \in renders' : r.req <= requests'
  <2> SUFFICES ASSUME NEW r \in renders' PROVE r.req <= requests'
    OBVIOUS
  <2>1. CASE r = new
    BY <2>1, <1>2
  <2>2. CASE r \in Cancelled(renders)
    <3>1. r \in Render /\ r.req <= requests
      BY <2>2, <1>4, <1>5
    <3> QED BY <3>1, <1>2 DEF Render, Requests
  <2> QED BY <2>1, <2>2, <1>3
<1>8. \E r \in renders' : r.req = requests' /\ ~r.cancelled
  BY <1>2, <1>3
<1>9. IsFiniteSet(renders') /\ Cardinality(renders') <= Cardinality(renders) + 1
  <2>1. IsFiniteSet(renders)
    BY DEF ViewInv, JobsCounted
  <2>2. IsFiniteSet(Cancelled(renders)) /\ Cardinality(Cancelled(renders)) <= Cardinality(renders)
    BY <2>1, CancelledCount
  <2>3. /\ IsFiniteSet(renders')
        /\ Cardinality(renders') = IF new \in Cancelled(renders) THEN Cardinality(Cancelled(renders))
                                                                 ELSE Cardinality(Cancelled(renders)) + 1
    BY <2>2, <1>3, FS_AddElement
  <2>4. Cardinality(renders) \in Nat /\ Cardinality(Cancelled(renders)) \in Nat
    BY <2>1, <2>2, FS_CardinalityType
  <2> QED BY <2>2, <2>3, <2>4
<1> QED BY <1>2, <1>6, <1>7, <1>8, <1>9

\* A render that ends, delivered or not.
LEMMA AfterRender ==
  ASSUME ViewInv, NEW r \in renders, renders' = renders \ {r}
  PROVE  IsFiniteSet(renders') /\ Cardinality(renders') = Cardinality(renders) - 1 /\ Cardinality(renders) \in Nat
BY FS_RemoveElement, FS_CardinalityType DEF ViewInv, JobsCounted

\* updateViewImage.
LEMMA AfterEnqueue ==
  ASSUME ViewInv, NEW passes \in 1 .. 2, UpdateViewImage(passes), enqueued + 1 \in ResizeJobs
  PROVE  /\ enqueued' = enqueued + 1 /\ enqueued' \in ResizeJobs
         /\ jobs' \subseteq Job
         /\ \A j \in jobs' : j.n <= enqueued'
         /\ \E j \in jobs' : j.n = enqueued' /\ ~j.cancelled
<1> DEFINE new == [n |-> enqueued + 1, left |-> passes, pic |-> 0, cancelled |-> FALSE]
<1>1. enqueued \in Nat /\ MaxRequests \in Nat /\ MaxZooms \in Nat
  BY ViewAssumption DEF ViewInv, ViewTypes, ResizeJobs
<1>2. enqueued' = enqueued + 1
  BY DEF UpdateViewImage
<1>3. jobs' = Cancelled(jobs) \cup {new} /\ new \in Job
  BY <1>1 DEF UpdateViewImage, Job
<1>4. jobs \subseteq Job /\ \A j \in jobs : j.n <= enqueued
  BY DEF ViewInv, ViewTypes, NothingAhead
<1>5. \A j \in Cancelled(jobs) : j \in Job /\ \E q \in jobs : j.n = q.n
  BY <1>4, CancelledType
<1>6. jobs' \subseteq Job
  BY <1>3, <1>5
<1>7. \A j \in jobs' : j.n <= enqueued'
  <2> SUFFICES ASSUME NEW j \in jobs' PROVE j.n <= enqueued'
    OBVIOUS
  <2>1. CASE j = new
    BY <2>1, <1>1, <1>2
  <2>2. CASE j \in Cancelled(jobs)
    <3>1. j \in Job /\ j.n <= enqueued
      BY <2>2, <1>4, <1>5
    <3> QED BY <3>1, <1>1, <1>2 DEF Job, ResizeJobs
  <2> QED BY <2>1, <2>2, <1>3
<1>8. \E j \in jobs' : j.n = enqueued' /\ ~j.cancelled
  BY <1>2, <1>3
<1> QED BY <1>2, <1>6, <1>7, <1>8

\* The flags of the deliveries.
Flags == [render : BOOLEAN, job : BOOLEAN, sheet : BOOLEAN]

LEMMA FlagSet ==
  ASSUME NEW f \in Flags, NEW b \in BOOLEAN
  PROVE  /\ [f EXCEPT !.render = b] \in Flags /\ [f EXCEPT !.render = b].sheet = f.sheet
         /\ [f EXCEPT !.job = b] \in Flags /\ [f EXCEPT !.job = b].sheet = f.sheet
         /\ [f EXCEPT !.sheet = b] \in Flags /\ [f EXCEPT !.sheet = b].sheet = b
BY DEF Flags

\* What is delivered becomes the newest of its kind or is late.
LEMMA RecordRender ==
  ASSUME ViewTypes, NEW n \in Requests, Record("render", n)
  PROVE  /\ newest' \in [render : 0 .. MaxRequests, job : ResizeJobs \cup {0}, sheet : 0 .. MaxRequests]
         /\ late' \in Flags
         /\ newest'.job = newest.job /\ newest'.sheet = newest.sheet /\ late'.sheet = late.sheet
         /\ newest'.render = IF n > newest.render THEN n ELSE newest.render
<1>1. n \in 0 .. MaxRequests
  BY ViewAssumption DEF Requests
<1>2. newest' = [newest EXCEPT !.render = IF n > newest.render THEN n ELSE newest.render]
  BY DEF Record
<1>3. late' = [late EXCEPT !.render = (n < newest.render)] /\ (n < newest.render) \in BOOLEAN
  <2>1. late' = [late EXCEPT !.render = (n < newest.render)]
    BY Zenon DEF Record
  <2>2. (n < newest.render) \in BOOLEAN
    OBVIOUS
  <2> QED BY <2>1, <2>2, Zenon
<1>4. newest \in [render : 0 .. MaxRequests, job : ResizeJobs \cup {0}, sheet : 0 .. MaxRequests]
  BY DEF ViewTypes
<1>5. late \in Flags
  BY DEF ViewTypes, Flags
<1>6. newest' \in [render : 0 .. MaxRequests, job : ResizeJobs \cup {0}, sheet : 0 .. MaxRequests]
  BY <1>1, <1>2, <1>4
<1>7. late' \in Flags /\ late'.sheet = late.sheet
  BY <1>3, <1>5, FlagSet, Zenon
<1> QED BY <1>2, <1>4, <1>6, <1>7

LEMMA RecordJob ==
  ASSUME ViewTypes, NEW n \in ResizeJobs, Record("job", n)
  PROVE  /\ newest' \in [render : 0 .. MaxRequests, job : ResizeJobs \cup {0}, sheet : 0 .. MaxRequests]
         /\ late' \in Flags
         /\ newest'.render = newest.render /\ newest'.sheet = newest.sheet /\ late'.sheet = late.sheet
         /\ newest'.job = IF n > newest.job THEN n ELSE newest.job
<1>2. newest' = [newest EXCEPT !.job = IF n > newest.job THEN n ELSE newest.job]
  BY DEF Record
<1>3. late' = [late EXCEPT !.job = (n < newest.job)] /\ (n < newest.job) \in BOOLEAN
  <2>1. late' = [late EXCEPT !.job = (n < newest.job)]
    BY Zenon DEF Record
  <2>2. (n < newest.job) \in BOOLEAN
    OBVIOUS
  <2> QED BY <2>1, <2>2, Zenon
<1>4. newest \in [render : 0 .. MaxRequests, job : ResizeJobs \cup {0}, sheet : 0 .. MaxRequests]
  BY DEF ViewTypes
<1>5. late \in Flags
  BY DEF ViewTypes, Flags
<1>6. newest' \in [render : 0 .. MaxRequests, job : ResizeJobs \cup {0}, sheet : 0 .. MaxRequests]
  BY <1>2, <1>4
<1>7. late' \in Flags /\ late'.sheet = late.sheet
  BY <1>3, <1>5, FlagSet, Zenon
<1> QED BY <1>2, <1>4, <1>6, <1>7

LEMMA RecordSheet ==
  ASSUME ViewTypes, NEW n \in Requests, Record("sheet", n)
  PROVE  /\ newest' \in [render : 0 .. MaxRequests, job : ResizeJobs \cup {0}, sheet : 0 .. MaxRequests]
         /\ late' \in Flags
         /\ newest'.render = newest.render /\ newest'.job = newest.job
         /\ newest'.sheet = IF n > newest.sheet THEN n ELSE newest.sheet
         /\ n < newest.sheet => late'.sheet
<1>1. n \in 0 .. MaxRequests
  BY ViewAssumption DEF Requests
<1>2. newest' = [newest EXCEPT !.sheet = IF n > newest.sheet THEN n ELSE newest.sheet]
  BY DEF Record
<1>3. late' = [late EXCEPT !.sheet = (n < newest.sheet)] /\ (n < newest.sheet) \in BOOLEAN
  <2>1. late' = [late EXCEPT !.sheet = (n < newest.sheet)]
    BY Zenon DEF Record
  <2>2. (n < newest.sheet) \in BOOLEAN
    OBVIOUS
  <2> QED BY <2>1, <2>2, Zenon
<1>4. newest \in [render : 0 .. MaxRequests, job : ResizeJobs \cup {0}, sheet : 0 .. MaxRequests]
  BY DEF ViewTypes
<1>5. late \in Flags
  BY DEF ViewTypes, Flags
<1>6. newest' \in [render : 0 .. MaxRequests, job : ResizeJobs \cup {0}, sheet : 0 .. MaxRequests]
  BY <1>1, <1>2, <1>4
<1>7. late' \in Flags
  BY <1>3, <1>5, FlagSet, Zenon
<1>8. ASSUME n < newest.sheet PROVE late'.sheet
  BY <1>3, <1>5, <1>8, FlagSet, Zenon
<1> QED BY <1>2, <1>4, <1>6, <1>7, <1>8

-----------------------------------------------------------------------------
(* The parts of the invariant.                                             *)

\* The renders.
LEMMA RendersKept ==
  ASSUME ViewInv, [ViewNext]_viewVars
  PROVE  /\ requests' \in 0 .. MaxRequests /\ requests <= requests'
         /\ renders' \subseteq Render /\ \A r \in renders' : r.req <= requests'
         /\ rendered' \in 0 .. MaxRequests /\ rendered' <= requests'
         /\ newest'.render <= requests' /\ NewestRender'
<1>1. /\ requests \in 0 .. MaxRequests /\ MaxRequests \in Nat /\ ViewTypes
      /\ renders \subseteq Render /\ \A r \in renders : r.req <= requests
      /\ rendered \in 0 .. MaxRequests /\ rendered <= requests
      /\ newest.render \in 0 .. MaxRequests /\ newest.render <= requests /\ NewestRender
  BY ViewAssumption DEF ViewInv, ViewTypes, NothingAhead
<1>2. CASE UpdateRenderedImage /\ UNCHANGED <<rendered, newest>>
  <2>1. /\ requests' = requests + 1 /\ requests' \in Requests /\ renders' \subseteq Render
        /\ \A r \in renders' : r.req <= requests'
        /\ \E r \in renders' : r.req = requests' /\ ~r.cancelled
    BY <1>2, AfterUpdate
  <2>2. requests' \in 0 .. MaxRequests /\ requests <= requests'
    BY <1>1, <2>1 DEF Requests
  <2>3. rendered' <= requests' /\ newest'.render <= requests'
    BY <1>1, <1>2, <2>1
  <2>4. NewestRender'
    BY <2>1 DEF NewestRender
  <2> QED BY <1>1, <1>2, <2>1, <2>2, <2>3, <2>4
<1>3. ASSUME NEW r \in renders, DeliverRender(r)
      PROVE  /\ requests' \in 0 .. MaxRequests /\ requests <= requests'
             /\ renders' \subseteq Render /\ \A q \in renders' : q.req <= requests'
             /\ rendered' \in 0 .. MaxRequests /\ rendered' <= requests'
             /\ newest'.render <= requests' /\ NewestRender'
  <2>1. requests' = requests /\ renders' = renders \ {r} /\ rendered' = r.req /\ Record("render", r.req)
    BY <1>3 DEF DeliverRender
  <2>2. r.req \in Requests /\ r.req \in 0 .. MaxRequests /\ r.req <= requests
    BY <1>1 DEF Render, Requests
  <2>3. newest'.render = IF r.req > newest.render THEN r.req ELSE newest.render
    BY <1>1, <2>1, <2>2, RecordRender
  <2>4. newest'.render <= requests'
    BY <1>1, <2>1, <2>2, <2>3
  <2>5. NewestRender'
    <3>1. CASE requests = newest.render \/ r.req = requests
      <4>1. newest'.render = requests
        BY <1>1, <2>2, <2>3, <3>1
      <4> QED BY <2>1, <4>1 DEF NewestRender
    <3>2. CASE requests # newest.render /\ r.req # requests
      <4>1. PICK q \in renders : q.req = requests /\ ~q.cancelled
        BY <1>1, <3>2 DEF NewestRender
      <4>2. q \in renders'
        BY <2>1, <3>2, <4>1
      <4> QED BY <2>1, <4>1, <4>2 DEF NewestRender
    <3> QED BY <3>1, <3>2
  <2> QED BY <1>1, <2>1, <2>2, <2>4, <2>5
<1>4. ASSUME NEW r \in renders, AbortRender(r)
      PROVE  /\ requests' = requests /\ renders' \subseteq renders /\ rendered' = rendered
             /\ newest' = newest /\ NewestRender'
  <2>1. requests' = requests /\ renders' = renders \ {r} /\ rendered' = rendered /\ newest' = newest /\ r.cancelled
    BY <1>4 DEF AbortRender, resizeVars, history
  <2> QED BY <1>1, <2>1 DEF NewestRender
<1>5. CASE UNCHANGED <<requests, renders, rendered>> /\ newest'.render = newest.render
  BY <1>1, <1>5 DEF NewestRender
<1>6. ASSUME NEW j \in jobs, DeliverResize(j) PROVE newest'.render = newest.render
  <2>1. j.n \in ResizeJobs /\ Record("job", j.n)
    BY <1>6 DEF DeliverResize, ViewInv, ViewTypes, Job
  <2> QED BY <1>1, <2>1, RecordJob
<1>7. ASSUME NEW s \in sheets, DeliverSheet(s) PROVE newest'.render = newest.render
  <2>1. s.n \in Requests /\ Record("sheet", s.n)
    BY <1>7 DEF DeliverSheet, ViewInv, ViewTypes, Sheet
  <2> QED BY <1>1, <2>1, RecordSheet
<1>8. \/ UpdateRenderedImage /\ UNCHANGED <<rendered, newest>>
      \/ \E r \in renders : DeliverRender(r) \/ AbortRender(r)
      \/ UNCHANGED <<requests, renders, rendered>> /\ newest'.render = newest.render
  BY <1>6, <1>7 DEF ViewNext, Gui, Goroutines, viewVars, Unselect, Modify, Zoom, Select, Resize,
    AbortResize, DeliverResize,
    AbortSheet, DeliverSheet, history, renderVars, resizeVars
<1> QED BY <1>1, <1>2, <1>3, <1>4, <1>5, <1>8

\* There is a number for the job of every render and of every move of the slider.
LEMMA RoomForJob ==
  ASSUME ViewInv
  PROVE  /\ \A r \in renders : enqueued + 1 \in ResizeJobs
         /\ zooms < MaxZooms => enqueued + 1 \in ResizeJobs
<1>1. /\ requests \in 0 .. MaxRequests /\ zooms \in 0 .. MaxZooms /\ enqueued \in Nat
      /\ MaxRequests \in Nat /\ MaxZooms \in Nat
  BY ViewAssumption DEF ViewInv, ViewTypes, ResizeJobs
<1>2. Cardinality(renders) \in Nat /\ enqueued + Cardinality(renders) <= requests + zooms
  BY FS_CardinalityType DEF ViewInv, JobsCounted
<1>3. ASSUME NEW r \in renders PROVE enqueued + 1 \in ResizeJobs
  <2>1. Cardinality(renders) # 0
    BY FS_EmptySet, <1>3 DEF ViewInv, JobsCounted
  <2> QED BY <1>1, <1>2, <2>1 DEF ResizeJobs
<1>4. ASSUME zooms < MaxZooms PROVE enqueued + 1 \in ResizeJobs
  BY <1>1, <1>2, <1>4 DEF ResizeJobs
<1> QED BY <1>3, <1>4

\* The resize jobs.
LEMMA JobsKept ==
  ASSUME ViewInv, [ViewNext]_viewVars
  PROVE  /\ enqueued' \in ResizeJobs \cup {0} /\ resized' \in 0 .. MaxRequests
         /\ jobs' \subseteq Job /\ \A j \in jobs' : j.n <= enqueued'
         /\ newest'.job <= enqueued' /\ NewestJob'
<1>1. /\ enqueued \in ResizeJobs \cup {0} /\ enqueued \in Nat /\ ViewTypes /\ MaxRequests \in Nat
      /\ jobs \subseteq Job /\ \A j \in jobs : j.n <= enqueued
      /\ resized \in 0 .. MaxRequests /\ rendered \in 0 .. MaxRequests
      /\ newest.job \in ResizeJobs \cup {0} /\ newest.job \in Nat /\ newest.job <= enqueued /\ NewestJob
  BY ViewAssumption DEF ViewInv, ViewTypes, NothingAhead, ResizeJobs
<1> DEFINE Goal == /\ enqueued' \in ResizeJobs \cup {0} /\ resized' \in 0 .. MaxRequests
                   /\ jobs' \subseteq Job /\ \A j \in jobs' : j.n <= enqueued'
                   /\ newest'.job <= enqueued' /\ NewestJob'
<1>2. ASSUME NEW passes \in 1 .. 2, UpdateViewImage(passes), enqueued + 1 \in ResizeJobs, newest'.job = newest.job,
             resized' = resized
      PROVE  Goal
  <2>1. /\ enqueued' = enqueued + 1 /\ enqueued' \in ResizeJobs /\ jobs' \subseteq Job
        /\ \A j \in jobs' : j.n <= enqueued'
        /\ \E j \in jobs' : j.n = enqueued' /\ ~j.cancelled
    BY <1>2, AfterEnqueue
  <2>2. newest'.job <= enqueued'
    BY <1>1, <1>2, <2>1
  <2>3. NewestJob'
    BY <2>1 DEF NewestJob
  <2> QED BY <1>1, <1>2, <2>1, <2>2, <2>3
<1>3. ASSUME NEW r \in renders, DeliverRender(r) PROVE Goal
  <2>1. UpdateViewImage(2) /\ resized' = resized /\ Record("render", r.req)
    BY <1>3 DEF DeliverRender
  <2>2. newest'.job = newest.job
    <3>1. r.req \in Requests
      BY DEF ViewInv, ViewTypes, Render
    <3> QED BY <1>1, <2>1, <3>1, RecordRender
  <2> QED BY <1>2, <2>1, <2>2, RoomForJob
<1>4. CASE Zoom
  <2>1. UpdateViewImage(1) /\ resized' = resized /\ newest' = newest /\ zooms < MaxZooms
    BY <1>4 DEF Zoom, history
  <2> QED BY <1>2, <2>1, RoomForJob
<1>5. ASSUME NEW j \in jobs, NEW k \in Job, k.n = j.n, k.cancelled = j.cancelled, jobs' = (jobs \ {j}) \cup {k},
             enqueued' = enqueued, newest'.job = newest.job
      PROVE  /\ jobs' \subseteq Job /\ \A i \in jobs' : i.n <= enqueued'
             /\ NewestJob'
  <2>1. jobs' \subseteq Job /\ \A i \in jobs' : i.n <= enqueued'
    BY <1>1, <1>5
  <2>2. CASE enqueued = newest.job
    BY <1>5, <2>1, <2>2 DEF NewestJob
  <2>3. CASE \E i \in jobs : i.n = enqueued /\ ~i.cancelled
    <3>1. PICK i \in jobs : i.n = enqueued /\ ~i.cancelled
      BY <2>3
    <3>2. CASE i = j
      <4>1. k \in jobs' /\ k.n = enqueued' /\ ~k.cancelled
        BY <1>5, <3>1, <3>2
      <4> QED BY <2>1, <4>1 DEF NewestJob
    <3>3. CASE i # j
      <4>1. i \in jobs' /\ i.n = enqueued' /\ ~i.cancelled
        BY <1>5, <3>1, <3>3
      <4> QED BY <2>1, <4>1 DEF NewestJob
    <3> QED BY <3>2, <3>3
  <2> QED BY <1>1, <2>1, <2>2, <2>3 DEF NewestJob
<1>6. ASSUME NEW j \in jobs, Resize(j) PROVE Goal
  <2> DEFINE k == [j EXCEPT !.pic = rendered]
  <2>1. k \in Job /\ k.n = j.n /\ k.cancelled = j.cancelled
    BY <1>1, <1>6 DEF Job
  <2>2. jobs' = (jobs \ {j}) \cup {k} /\ enqueued' = enqueued /\ newest' = newest /\ resized' = resized
    BY <1>6 DEF Resize, history
  <2> HIDE DEF k
  <2>3. jobs' \subseteq Job /\ (\A i \in jobs' : i.n <= enqueued') /\ NewestJob'
    BY <1>5, <2>1, <2>2
  <2> QED BY <1>1, <2>2, <2>3
<1>7. ASSUME NEW j \in jobs, AbortResize(j) PROVE Goal
  <2>1. jobs' = jobs \ {j} /\ enqueued' = enqueued /\ newest' = newest /\ resized' = resized /\ j.cancelled
    BY <1>7 DEF AbortResize, history
  <2>2. NewestJob'
    BY <1>1, <2>1 DEF NewestJob
  <2> QED BY <1>1, <2>1, <2>2
<1>8. ASSUME NEW j \in jobs, DeliverResize(j) PROVE Goal
  <2>1. j \in Job /\ j.n \in ResizeJobs /\ j.n \in Nat /\ j.n <= enqueued /\ j.pic \in 0 .. MaxRequests
    BY <1>1 DEF Job, ResizeJobs
  <2>2. enqueued' = enqueued /\ resized' = j.pic /\ Record("job", j.n)
    BY <1>8 DEF DeliverResize
  <2>3. newest'.job = IF j.n > newest.job THEN j.n ELSE newest.job
    BY <1>1, <2>1, <2>2, RecordJob
  <2>4. newest'.job <= enqueued'
    BY <1>1, <2>1, <2>2, <2>3
  <2>5. jobs \ {j} \subseteq jobs' /\ \A i \in jobs' : i \in jobs \/ i = [j EXCEPT !.left = 1, !.pic = 0]
    BY <1>8 DEF DeliverResize
  <2>6. [j EXCEPT !.left = 1, !.pic = 0] \in Job /\ [j EXCEPT !.left = 1, !.pic = 0].n = j.n
    <3>1. [j EXCEPT !.left = 1] \in Job /\ [j EXCEPT !.left = 1].n = j.n
      BY <2>1 DEF Job
    <3>2. \A k \in Job : [k EXCEPT !.pic = 0] \in Job /\ [k EXCEPT !.pic = 0].n = k.n
      BY <1>1 DEF Job
    <3>3. [j EXCEPT !.left = 1, !.pic = 0] = [[j EXCEPT !.left = 1] EXCEPT !.pic = 0]
      OBVIOUS
    <3> QED BY <3>1, <3>2, <3>3
  <2>7. jobs' \subseteq Job /\ \A i \in jobs' : i.n <= enqueued'
    BY <1>1, <2>1, <2>2, <2>5, <2>6
  <2>8. NewestJob'
    <3>1. CASE enqueued = newest.job \/ j.n = enqueued
      <4>1. newest'.job = enqueued
        BY <1>1, <2>1, <2>3, <3>1
      <4> QED BY <2>2, <4>1 DEF NewestJob
    <3>2. CASE enqueued # newest.job /\ j.n # enqueued
      <4>1. PICK i \in jobs : i.n = enqueued /\ ~i.cancelled
        BY <1>1, <3>2 DEF NewestJob
      <4>2. i \in jobs'
        BY <2>5, <3>2, <4>1
      <4> QED BY <2>2, <4>1, <4>2 DEF NewestJob
    <3> QED BY <3>1, <3>2
  <2> QED BY <1>1, <2>1, <2>2, <2>4, <2>7, <2>8
<1>9. CASE UNCHANGED <<jobs, enqueued>> /\ newest'.job = newest.job /\ resized' \in {resized, 0}
  BY <1>1, <1>9 DEF NewestJob
<1>10. ASSUME NEW s \in sheets, DeliverSheet(s) PROVE newest'.job = newest.job
  <2>1. s.n \in Requests /\ Record("sheet", s.n)
    BY <1>10 DEF DeliverSheet, ViewInv, ViewTypes, Sheet
  <2> QED BY <1>1, <2>1, RecordSheet
<1>11. \/ \E r \in renders : DeliverRender(r)
       \/ Zoom
       \/ \E j \in jobs : Resize(j) \/ AbortResize(j) \/ DeliverResize(j)
       \/ UNCHANGED <<jobs, enqueued>> /\ newest'.job = newest.job /\ resized' \in {resized, 0}
  BY <1>10 DEF ViewNext, Gui, Goroutines, viewVars, Unselect, Modify, Select, AbortRender,
    AbortSheet, DeliverSheet, history, renderVars, resizeVars
<1> QED BY <1>3, <1>4, <1>6, <1>7, <1>8, <1>9, <1>11

\* The sheets of thumbnails.
LEMMA SheetsKept ==
  ASSUME ViewInv, [ViewNext]_viewVars
  PROVE  /\ img' \in Images \cup {NoImage} /\ chips' \in Images \cup {NoImage}
         /\ sheets' \subseteq Sheet /\ \A s \in sheets' : s.n <= requests'
         /\ newest'.sheet <= requests' /\ NewestSheet' /\ SheetOfSelected'
<1>1. /\ img \in Images \cup {NoImage} /\ chips \in Images \cup {NoImage} /\ ViewTypes
      /\ sheets \subseteq Sheet /\ \A s \in sheets : s.n <= requests
      /\ newest.sheet \in 0 .. MaxRequests /\ newest.sheet <= requests /\ NewestSheet /\ SheetOfSelected
      /\ requests \in 0 .. MaxRequests /\ MaxRequests \in Nat
  BY ViewAssumption DEF ViewInv, ViewTypes, NothingAhead
<1>2. \A s \in sheets : s.n \in Requests
  BY <1>1 DEF Sheet
<1>3. requests' \in 0 .. MaxRequests /\ requests <= requests'
  BY RendersKept
<1> DEFINE Goal == /\ img' \in Images \cup {NoImage} /\ chips' \in Images \cup {NoImage}
                   /\ sheets' \subseteq Sheet /\ \A s \in sheets' : s.n <= requests'
                   /\ newest'.sheet <= requests' /\ NewestSheet' /\ SheetOfSelected'
<1>4. ASSUME NEW i \in Images, Select(i) PROVE Goal
  <2> DEFINE new == [n |-> requests + 1, of |-> i, cancelled |-> FALSE]
  <2>1. /\ img' = i /\ chips' = NoImage /\ newest' = newest /\ requests' = requests + 1
        /\ sheets' = Cancelled(sheets) \cup {new}
    BY <1>4 DEF Select, UpdateLayerThumbnails, UpdateRenderedImage, history
  <2>2. new \in Sheet
    BY <1>1, <1>3, <2>1 DEF Sheet, Requests
  <2>3. \A s \in Cancelled(sheets) : s \in Sheet /\ s.cancelled /\ s.n <= requests /\ s.n \in Nat
    <3>1. \A s \in Cancelled(sheets) : s \in Sheet /\ s.cancelled /\ \E q \in sheets : s.n = q.n
      BY <1>1, CancelledType
    <3> QED BY <1>1, <3>1 DEF Sheet, Requests
  <2>4. \A s \in sheets' : s \in Sheet /\ s.n <= requests' /\ (s = new \/ (s.cancelled /\ s.n < requests + 1))
    <3> SUFFICES ASSUME NEW s \in sheets'
                 PROVE  s \in Sheet /\ s.n <= requests' /\ (s = new \/ (s.cancelled /\ s.n < requests + 1))
      OBVIOUS
    <3>1. CASE s = new
      BY <1>1, <2>1, <2>2, <3>1
    <3>2. CASE s \in Cancelled(sheets)
      BY <1>1, <2>1, <2>3, <3>2
    <3> QED BY <2>1, <3>1, <3>2
  <2>5. NewestSheet'
    <3> SUFFICES ASSUME NEW s \in sheets', NEW t \in sheets', ~s.cancelled, s # t PROVE t.n < s.n
      BY DEF NewestSheet
    <3>1. s = new /\ t.n < requests + 1
      BY <2>4
    <3> QED BY <3>1
  <2>6. SheetOfSelected'
    <3>1. new \in sheets' /\ new.of = img' /\ ~new.cancelled
      BY <2>1
    <3> QED BY <3>1 DEF SheetOfSelected
  <2>7. newest'.sheet <= requests'
    BY <1>1, <2>1
  <2> QED BY <1>1, <2>1, <2>4, <2>5, <2>6, <2>7
<1>5. ASSUME NEW s \in sheets, AbortSheet(s) PROVE Goal
  <2>1. /\ img' = img /\ chips' = chips /\ newest' = newest /\ late' = late /\ requests' = requests
        /\ sheets' = sheets \ {s} /\ s.cancelled
    BY <1>5 DEF AbortSheet, renderVars, history
  <2>2. NewestSheet'
    BY <1>1, <2>1 DEF NewestSheet
  <2>3. SheetOfSelected'
    BY <1>1, <2>1 DEF SheetOfSelected
  <2> QED BY <1>1, <2>1, <2>2, <2>3
<1>6. ASSUME NEW s \in sheets, DeliverSheet(s) PROVE Goal
  <2>1. img' = img /\ chips' = s.of /\ requests' = requests /\ sheets' = sheets \ {s} /\ Record("sheet", s.n)
    BY <1>6 DEF DeliverSheet, renderVars
  <2>2. s.of \in Images /\ s.n \in Requests /\ s.n \in Nat /\ s.n <= requests
    BY <1>1 DEF Sheet, Requests
  <2>3. newest'.sheet = IF s.n > newest.sheet THEN s.n ELSE newest.sheet
    BY <1>1, <2>1, <2>2, RecordSheet
  <2>4. s.n < newest.sheet => late'.sheet
    BY <1>1, <2>1, <2>2, RecordSheet
  <2>5. newest'.sheet <= requests'
    BY <1>1, <2>1, <2>2, <2>3
  <2>6. NewestSheet'
    BY <1>1, <2>1 DEF NewestSheet
  <2>7. SheetOfSelected'
    <3> SUFFICES ASSUME img # NoImage
                 PROVE  \/ \E t \in sheets' : t.of = img /\ ~t.cancelled
                        \/ (\A t \in sheets' : t.n < newest'.sheet) /\ (chips' = img \/ late'.sheet)
      BY <2>1 DEF SheetOfSelected
    <3>1. CASE s.of = img /\ ~s.cancelled
      <4>1. \A t \in sheets' : t.n < s.n /\ t.n \in Nat
        BY <1>1, <1>2, <2>1, <3>1 DEF NewestSheet, Requests
      <4>2. \A t \in sheets' : t.n < newest'.sheet
        BY <1>1, <2>2, <2>3, <4>1
      <4> QED BY <2>1, <3>1, <4>2
    <3>2. CASE \E t \in sheets : t # s /\ t.of = img /\ ~t.cancelled
      BY <2>1, <3>2
    <3>3. CASE \A t \in sheets : t.n < newest.sheet
      <4>1. newest'.sheet = newest.sheet /\ late'.sheet
        BY <1>1, <2>2, <2>3, <2>4, <3>3
      <4> QED BY <2>1, <3>3, <4>1
    <3> QED BY <1>1, <3>1, <3>2, <3>3 DEF SheetOfSelected
  <2> QED BY <1>1, <2>1, <2>2, <2>5, <2>6, <2>7
<1>7. CASE /\ UNCHANGED <<sheets, chips>> /\ img' \in {img, NoImage}
           /\ newest'.sheet = newest.sheet /\ late'.sheet = late.sheet
  <2>1. NewestSheet'
    BY <1>1, <1>7 DEF NewestSheet
  <2>2. SheetOfSelected'
    BY <1>1, <1>7 DEF SheetOfSelected
  <2>3. \A s \in sheets' : s.n <= requests'
    BY <1>1, <1>2, <1>3, <1>7 DEF Requests
  <2> QED BY <1>1, <1>3, <1>7, <2>1, <2>2, <2>3
<1>8. ASSUME NEW r \in renders, DeliverRender(r)
      PROVE  newest'.sheet = newest.sheet /\ late'.sheet = late.sheet
  <2>1. r.req \in Requests /\ Record("render", r.req)
    BY <1>8 DEF DeliverRender, ViewInv, ViewTypes, Render
  <2> QED BY <1>1, <2>1, RecordRender
<1>9. ASSUME NEW j \in jobs, DeliverResize(j)
      PROVE  newest'.sheet = newest.sheet /\ late'.sheet = late.sheet
  <2>1. j.n \in ResizeJobs /\ Record("job", j.n)
    BY <1>9 DEF DeliverResize, ViewInv, ViewTypes, Job
  <2> QED BY <1>1, <2>1, RecordJob
<1>10. \/ \E i \in Images : Select(i)
       \/ \E s \in sheets : AbortSheet(s) \/ DeliverSheet(s)
       \/ /\ UNCHANGED <<sheets, chips>> /\ img' \in {img, NoImage}
          /\ newest'.sheet = newest.sheet /\ late'.sheet = late.sheet
  BY <1>8, <1>9 DEF ViewNext, Gui, Goroutines, viewVars, Unselect, Modify, Zoom, AbortRender,
    DeliverRender, Resize,
    AbortResize, DeliverResize, history, sheetVars
<1> QED BY <1>4, <1>5, <1>6, <1>7, <1>10

\* The numbers of the jobs.
LEMMA CountedKept ==
  ASSUME ViewInv, [ViewNext]_viewVars
  PROVE  JobsCounted' /\ zooms' \in 0 .. MaxZooms
<1>1. /\ requests \in Nat /\ enqueued \in Nat /\ zooms \in 0 .. MaxZooms /\ MaxZooms \in Nat /\ Cardinality(renders) \in Nat
      /\ IsFiniteSet(renders) /\ enqueued + Cardinality(renders) <= requests + zooms
  BY FS_CardinalityType, ViewAssumption DEF ViewInv, ViewTypes, JobsCounted, ResizeJobs
<1>2. CASE UpdateRenderedImage /\ UNCHANGED <<enqueued, zooms>>
  <2>1. /\ requests' = requests + 1 /\ IsFiniteSet(renders')
        /\ Cardinality(renders') <= Cardinality(renders) + 1
    BY <1>2, AfterUpdate
  <2>2. Cardinality(renders') \in Nat
    BY <2>1, FS_CardinalityType
  <2> QED BY <1>1, <1>2, <2>1, <2>2 DEF JobsCounted
<1>3. ASSUME NEW r \in renders, renders' = renders \ {r}, requests' = requests, enqueued' \in {enqueued, enqueued + 1},
             zooms' = zooms
      PROVE  JobsCounted'
  <2>1. IsFiniteSet(renders') /\ Cardinality(renders') = Cardinality(renders) - 1
    BY <1>3, AfterRender
  <2> QED BY <1>1, <1>3, <2>1 DEF JobsCounted
<1>4. CASE Zoom
  <2>1. renders' = renders /\ requests' = requests /\ enqueued' = enqueued + 1 /\ zooms' = zooms + 1 /\ zooms < MaxZooms
    BY <1>4 DEF Zoom, UpdateViewImage, renderVars
  <2> QED BY <1>1, <2>1 DEF JobsCounted
<1>5. CASE UNCHANGED <<requests, renders, enqueued, zooms>>
  BY <1>1, <1>5 DEF JobsCounted
<1>6. \/ UpdateRenderedImage /\ UNCHANGED <<enqueued, zooms>>
      \/ \E r \in renders : /\ renders' = renders \ {r} /\ requests' = requests
                            /\ enqueued' \in {enqueued, enqueued + 1} /\ zooms' = zooms
      \/ Zoom
      \/ UNCHANGED <<requests, renders, enqueued, zooms>>
  BY DEF ViewNext, Gui, Goroutines, viewVars, Unselect, Modify, Select, AbortRender, DeliverRender,
    UpdateViewImage, Resize,
    AbortResize, DeliverResize, AbortSheet, DeliverSheet, renderVars, resizeVars
<1> QED BY <1>1, <1>2, <1>3, <1>4, <1>5, <1>6

\* The history.
LEMMA HistoryKept ==
  ASSUME ViewTypes, [ViewNext]_viewVars
  PROVE  /\ newest' \in [render : 0 .. MaxRequests, job : ResizeJobs \cup {0}, sheet : 0 .. MaxRequests]
         /\ late' \in Flags
<1>1. ASSUME NEW r \in renders, DeliverRender(r)
      PROVE  /\ newest' \in [render : 0 .. MaxRequests, job : ResizeJobs \cup {0}, sheet : 0 .. MaxRequests]
             /\ late' \in Flags
  <2>1. r.req \in Requests /\ Record("render", r.req)
    BY <1>1 DEF DeliverRender, ViewTypes, Render
  <2> QED BY <2>1, RecordRender
<1>2. ASSUME NEW j \in jobs, DeliverResize(j)
      PROVE  /\ newest' \in [render : 0 .. MaxRequests, job : ResizeJobs \cup {0}, sheet : 0 .. MaxRequests]
             /\ late' \in Flags
  <2>1. j.n \in ResizeJobs /\ Record("job", j.n)
    BY <1>2 DEF DeliverResize, ViewTypes, Job
  <2> QED BY <2>1, RecordJob
<1>3. ASSUME NEW s \in sheets, DeliverSheet(s)
      PROVE  /\ newest' \in [render : 0 .. MaxRequests, job : ResizeJobs \cup {0}, sheet : 0 .. MaxRequests]
             /\ late' \in Flags
  <2>1. s.n \in Requests /\ Record("sheet", s.n)
    BY <1>3 DEF DeliverSheet, ViewTypes, Sheet
  <2> QED BY <2>1, RecordSheet
<1>4. CASE UNCHANGED history
  BY <1>4 DEF history, ViewTypes, Flags
<1>5. \/ \E r \in renders : DeliverRender(r)
      \/ \E j \in jobs : DeliverResize(j)
      \/ \E s \in sheets : DeliverSheet(s)
      \/ UNCHANGED history
  BY DEF ViewNext, Gui, Goroutines, viewVars, Unselect, Modify, Zoom, Select, AbortRender, Resize,
    AbortResize,
    AbortSheet, history
<1> QED BY <1>1, <1>2, <1>3, <1>4, <1>5

LEMMA ViewKept ==
  ASSUME ViewInv, [ViewNext]_viewVars
  PROVE  ViewInv'
<1>1. ViewTypes
  BY DEF ViewInv
<1>2. ViewTypes'
  BY <1>1, RendersKept, JobsKept, SheetsKept, CountedKept, HistoryKept DEF ViewTypes, Flags
<1>3. NothingAhead'
  BY RendersKept, JobsKept, SheetsKept DEF NothingAhead
<1> QED BY <1>2, <1>3, RendersKept, JobsKept, SheetsKept, CountedKept DEF ViewInv

\* Whatever the user selects, modifies, zooms and closes, and in whichever order the goroutines end, the
\* newest render, resize job and sheet of the selected image have been delivered or are not cancelled.
THEOREM NewestStays == ViewSpec => []NewestSurvives
<1>1. ViewInit => ViewInv
  BY ViewStarts
<1>2. ViewInv /\ [ViewNext]_viewVars => ViewInv'
  BY ViewKept
<1>3. ViewInv => NewestSurvives
  BY DEF ViewInv, NewestSurvives, NewestRender, NewestJob, SheetOfSelected
<1> QED BY <1>1, <1>2, <1>3, PTL DEF ViewSpec
=============================================================================
