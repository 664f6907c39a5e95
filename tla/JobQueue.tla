------------------------------ MODULE JobQueue ------------------------------
(***************************************************************************)
(* go/jobqueue/jobqueue.go: a queue that runs jobs one after the other and *)
(* whose CancelAll throws away the queue, its context and its worker and   *)
(* starts new ones.  A generation is what one call of init makes: a        *)
(* channel, a context and a worker; generation g is the g-th.              *)
(*                                                                         *)
(* A job is any JobFunc: each call of it may have its effect, may ask to   *)
(* be called again (Continue), and may look at its context or not.         *)
(***************************************************************************)
EXTENDS Naturals, Sequences, FiniteSets

CONSTANTS
  Callers,        \* goroutines that call Enqueue, CancelAll and Close
  MaxJobs,        \* bound: jobs enqueued
  MaxGenerations, \* bound: calls of init
  MaxCalls        \* bound: calls of one job

ASSUME JobQueueAssumption ==
  /\ IsFiniteSet(Callers) /\ MaxJobs \in Nat /\ MaxGenerations \in Nat \ {0} /\ MaxCalls \in Nat \ {0}

Nobody == "nobody"
ASSUME JobQueueNames == Nobody \notin Callers

Jobs == 1 .. MaxJobs
Generations == 1 .. MaxGenerations

VARIABLES
  pc,         \* where each caller is
  lock,       \* the holder of jq.m
  gen,        \* the generation of jq.queue and jq.ctx
  cancelled,  \* the generations whose context is cancelled
  closed,     \* the generations whose channel is closed
  usable,     \* jq.done # nil
  worker,     \* where the worker of each generation is
  current,    \* the job each worker runs
  job,        \* the goroutine of each job
  finished,   \* the jobs whose finished flag is 1
  next,       \* the next job number
  log         \* the effects, in order: the numbers of the jobs

vars == <<pc, lock, gen, cancelled, closed, usable, worker, current, job, finished, next, log>>
callerVars == <<pc, lock>>
genVars == <<gen, cancelled, closed, usable>>
workerVars == <<worker, current>>
jobVars == <<job, finished, next, log>>

\* The goroutine of a job: its generation, where it is, the generation of the
\* context of its last call, the calls so far, and what it sent to finish.
NoJob == [gen |-> 0, at |-> "none", ctx |-> 0, calls |-> 0, late |-> 0, sent |-> "nothing"]

Init ==
  /\ pc = [c \in Callers |-> "out"]
  /\ lock = Nobody
  /\ gen = 1
  /\ cancelled = {} /\ closed = {}
  /\ usable = TRUE
  /\ worker = [g \in Generations |-> IF g = 1 THEN "range" ELSE "none"]
  /\ current = [g \in Generations |-> 0]
  /\ job = [j \in Jobs |-> NoJob]
  /\ finished = {}
  /\ next = 1
  /\ log = <<>>

Goto(c, p) == pc' = [pc EXCEPT ![c] = p]

-----------------------------------------------------------------------------
(* Enqueue, CancelAll and Close.  A goroutine that panics ends the process. *)

Panicked == \E c \in Callers : pc[c] = "panicked"

\* The goroutines within Enqueue, and within CancelAll, that have not had their effect.
Enqueuing == {c \in Callers : pc[c] \in {"enqueue", "send"}}
Cancelling == {c \in Callers : pc[c] \in {"cancelall", "cancel", "drain"}}

\* One of the three is called, and waits for the mutex.
Call(c) ==
  /\ pc[c] = "out"
  /\ \/ Goto(c, "enqueue") /\ next + Cardinality(Enqueuing) <= MaxJobs
     \/ Goto(c, "cancelall") /\ gen + Cardinality(Cancelling) < MaxGenerations
     \/ Goto(c, "final")
  /\ UNCHANGED <<lock, genVars, workerVars, jobVars>>

\* jq.m.Lock().  Enqueue and CancelAll then look whether the queue was closed, Close does not.
Acquire(c) ==
  /\ lock = Nobody /\ lock' = c
  /\ \/ pc[c] = "enqueue" /\ Goto(c, IF usable THEN "send" ELSE "release")
     \/ pc[c] = "cancelall" /\ Goto(c, IF usable THEN "cancel" ELSE "release")
     \/ pc[c] = "final" /\ Goto(c, "close")
  /\ UNCHANGED <<genVars, workerVars, jobVars>>

\* jq.queue <- job, received by the worker at the head of its loop, which
\* starts the goroutine of the job.
Send(c) ==
  /\ pc[c] = "send"
  /\ worker[gen] = "range"
  /\ worker' = [worker EXCEPT ![gen] = "run"]
  /\ current' = [current EXCEPT ![gen] = next]
  /\ job' = [job EXCEPT ![next] = [NoJob EXCEPT !.gen = gen, !.at = "call"]]
  /\ next' = next + 1
  /\ Goto(c, "release")
  /\ UNCHANGED <<lock, genVars, finished, log>>

\* close(jq.queue) of a second Close.
CloseAgain(c) ==
  /\ pc[c] = "close" /\ gen \in closed
  /\ Goto(c, "panicked")
  /\ UNCHANGED <<lock, genVars, workerVars, jobVars>>

\* final: close(jq.queue) and jq.cancel(), ...
Cancel(c) ==
  /\ pc[c] \in {"cancel", "close"} /\ gen \notin closed
  /\ closed' = closed \cup {gen}
  /\ cancelled' = cancelled \cup {gen}
  /\ Goto(c, IF pc[c] = "cancel" THEN "drain" ELSE "drainlast")
  /\ UNCHANGED <<lock, gen, usable, workerVars, jobVars>>

\* Mistake: CancelAll does not wait for the worker.
DrainNoWait(c) ==
  /\ pc[c] \in {"drain", "drainlast"}
  /\ IF pc[c] = "drain"
     THEN /\ gen' = gen + 1
          /\ worker' = [worker EXCEPT ![gen + 1] = "range"]
          /\ UNCHANGED usable
     ELSE usable' = FALSE /\ UNCHANGED <<gen, worker>>
  /\ Goto(c, "release")
  /\ UNCHANGED <<lock, cancelled, closed, current, jobVars>>

\* ... and <-jq.done, sent by the worker on its way out.  Then CancelAll calls
\* init, and Close forgets the done channel.
Drain(c) ==
  /\ pc[c] \in {"drain", "drainlast"}
  /\ worker[gen] = "leaving"
  /\ IF pc[c] = "drain"
     THEN /\ gen' = gen + 1
          /\ worker' = [worker EXCEPT ![gen] = "gone", ![gen + 1] = "range"]
          /\ UNCHANGED usable
     ELSE /\ worker' = [worker EXCEPT ![gen] = "gone"]
          /\ usable' = FALSE
          /\ UNCHANGED gen
  /\ Goto(c, "release")
  /\ UNCHANGED <<lock, cancelled, closed, current, jobVars>>

Release(c) ==
  /\ pc[c] = "release"
  /\ lock' = Nobody
  /\ Goto(c, "out")
  /\ UNCHANGED <<genVars, workerVars, jobVars>>

-----------------------------------------------------------------------------
(* work and run.                                                           *)

\* The range over a closed channel ends; work returns.
RangeEnds(g) ==
  /\ worker[g] = "range" /\ g \in closed
  /\ worker' = [worker EXCEPT ![g] = "leaving"]
  /\ UNCHANGED <<callerVars, genVars, current, jobVars>>

\* Mistake: work breaks whatever the job returned.
JobFinishedBreaks(g) ==
  /\ worker[g] = "run"
  /\ job[current[g]].sent # "nothing"
  /\ worker' = [worker EXCEPT ![g] = "leaving"]
  /\ UNCHANGED <<callerVars, genVars, current, jobVars>>

\* err := <-finish: work goes on with the next job, or breaks when the job
\* returned the error of its cancelled context.
JobFinished(g) ==
  /\ worker[g] = "run"
  /\ job[current[g]].sent # "nothing"
  /\ worker' = [worker EXCEPT ![g] = IF job[current[g]].sent = "cancelled"
                                     THEN "leaving" ELSE "range"]
  /\ UNCHANGED <<callerVars, genVars, current, jobVars>>

\* Mistake: run looks at the context only when the job has returned.
RunCancelledLate(g) ==
  /\ worker[g] = "run" /\ g \in cancelled
  /\ job[current[g]].sent # "nothing"
  /\ finished' = finished \cup {current[g]}
  /\ worker' = [worker EXCEPT ![g] = "leaving"]
  /\ UNCHANGED <<callerVars, genVars, current, job, next, log>>

\* <-doneCh: run sets the finished flag and returns; work breaks.
RunCancelled(g) ==
  /\ worker[g] = "run" /\ g \in cancelled
  /\ finished' = finished \cup {current[g]}
  /\ worker' = [worker EXCEPT ![g] = "leaving"]
  /\ UNCHANGED <<callerVars, genVars, current, job, next, log>>

-----------------------------------------------------------------------------
(* The goroutine that run starts for a job.                                *)

\* job(jq.ctx): the field is read when the call is made.
CallJob(j) ==
  /\ job[j].at = "call"
  /\ job' = [job EXCEPT ![j].at = "body", ![j].ctx = gen, ![j].calls = @ + 1,
                        ![j].late = IF job[j].gen < gen THEN @ + 1 ELSE @]
  /\ UNCHANGED <<callerVars, genVars, workerVars, finished, next, log>>

\* The job has its effect and returns nil.
Effect(j) ==
  /\ job[j].at = "body"
  /\ log' = Append(log, j)
  /\ job' = [job EXCEPT ![j].at = "gone", ![j].sent = "nil"]
  /\ UNCHANGED <<callerVars, genVars, workerVars, finished, next>>

\* It looks at its context, finds it cancelled and returns its error.
Obey(j) ==
  /\ job[j].at = "body" /\ job[j].ctx \in cancelled
  /\ job' = [job EXCEPT ![j].at = "gone", ![j].sent = "cancelled"]
  /\ UNCHANGED <<callerVars, genVars, workerVars, finished, next, log>>

\* Mistake: the finished flag is not looked at.
AgainAlways(j) ==
  /\ job[j].at = "body" /\ job[j].calls < MaxCalls
  /\ job' = [job EXCEPT ![j].at = "call"]
  /\ UNCHANGED <<callerVars, genVars, workerVars, finished, next, log>>

\* It returns Continue: it is called again, unless the flag is set.
Again(j) ==
  /\ job[j].at = "body" /\ job[j].calls < MaxCalls
  /\ job' = [job EXCEPT ![j].at = IF j \in finished THEN "gone" ELSE "call",
                        ![j].sent = IF j \in finished THEN "continue" ELSE @]
  /\ UNCHANGED <<callerVars, genVars, workerVars, finished, next, log>>

-----------------------------------------------------------------------------
CallerStep(c) == ~Panicked /\ (Send(c) \/ Cancel(c) \/ CloseAgain(c) \/ Drain(c) \/ Release(c))
WorkerStep(g) == ~Panicked /\ (RangeEnds(g) \/ JobFinished(g) \/ RunCancelled(g))
JobStep(j) == ~Panicked /\ (CallJob(j) \/ Effect(j) \/ Obey(j) \/ Again(j))

Next ==
  \/ ~Panicked /\ \E c \in Callers : Call(c) \/ Acquire(c)
  \/ \E c \in Callers : CallerStep(c)
  \/ \E g \in Generations : WorkerStep(g)
  \/ \E j \in Jobs : JobStep(j)

Spec == Init /\ [][Next]_vars

\* The queue's own goroutines go on, and a sync.Mutex starves nobody; a job may take for ever.
FairSpec ==
  /\ Spec
  /\ \A c \in Callers : WF_vars(CallerStep(c)) /\ SF_vars(~Panicked /\ Acquire(c))
  /\ \A g \in Generations : WF_vars(WorkerStep(g))

-----------------------------------------------------------------------------
(* Properties.                                                             *)

CallerStates == {"out", "enqueue", "cancelall", "final", "send", "cancel", "close", "drain", "drainlast", "release",
                 "panicked"}
WorkerStates == {"none", "range", "run", "leaving", "gone"}
JobStates == {"none", "call", "body", "gone"}

\* Every variable has its type.
TypeOK ==
  /\ pc \in [Callers -> CallerStates]
  /\ lock \in Callers \cup {Nobody}
  /\ gen \in Generations
  /\ cancelled \subseteq Generations /\ closed \subseteq Generations
  /\ usable \in BOOLEAN
  /\ worker \in [Generations -> WorkerStates]
  /\ current \in [Generations -> Jobs \cup {0}]
  /\ job \in [Jobs -> [gen : Generations \cup {0}, at : JobStates,
                      ctx : Generations \cup {0}, calls : Nat, late : Nat,
                      sent : {"nothing", "nil", "cancelled", "continue"}]]
  /\ finished \subseteq Jobs
  /\ next \in 1 .. MaxJobs + 1
  /\ log \in Seq(Jobs)

Alive(g) == worker[g] \in {"range", "run", "leaving"}

Pending(j) == job[j].at \in {"call", "body"}

\* Over any sequence of Enqueue, CancelAll and Close by several goroutines only the newest
\* generation has a worker, so two never take jobs side by side, and the jobs of one
\* generation have their effects in the order in which they were enqueued, each at most once.
JobsInTurn ==
  /\ TypeOK
  /\ \A g \in Generations : Alive(g) => g = gen
  /\ \A m, n \in 1 .. Len(log) :
       m < n /\ job[log[m]].gen = job[log[n]].gen => log[m] < log[n]

\* A job that asks to be called again is called at most once more after the
\* CancelAll that threw it away has returned.
AtMostOneLateCall == \A j \in Jobs : job[j].late <= 1

JobsEnd == \A j \in Jobs : []<>~Pending(j)

EnqueuesEnd == []<>(\A c \in Callers : pc[c] # "send")

\* Every call returns when the jobs end, and when they do not, unless an Enqueue that holds the mutex
\* waits for the worker for ever.  So a CancelAll or a Close that has the mutex (no Enqueue has it
\* then) returns however long the running job takes, and one that waits for the mutex may not.
CallsReturn ==
  \A c \in Callers : JobsEnd \/ EnqueuesEnd => (pc[c] # "out" ~> pc[c] = "out" \/ Panicked)
=============================================================================
