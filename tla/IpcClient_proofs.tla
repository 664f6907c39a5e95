-------------------------- MODULE IpcClient_proofs --------------------------
(***************************************************************************)
(* Theorems about IpcClient, for any callers, commands, pipe capacity and  *)
(* bounds.                                                                 *)
(***************************************************************************)
EXTENDS IpcClient, TLAPS

-----------------------------------------------------------------------------
(* Type correctness.  A counter of chunks must not fall below zero, so the *)
(* types are inductive only with the states that count.                    *)

Counters ==
  /\ \A c \in Callers : /\ pc[c] = "args" => call[c].n > 0
                        /\ pc[c] = "read" => call[c].p > 0
  /\ child.st = "args" => child.n > 0
  /\ child.st = "data" => child.p > 0

Typed == TypeOK /\ Counters

\* What a caller may be about to send.
LEMMA ShapeType ==
  \A cmd \in DOMAIN Shape : Shape[cmd].args \subseteq Nat /\ Shape[cmd].reads \in Nat
BY DEF Shape

LEMMA SizedType == \A cmd \in DOMAIN Shape : Shape[cmd].sized \in BOOLEAN
<1> SUFFICES ASSUME NEW cmd \in DOMAIN Shape PROVE Shape[cmd].sized \in {TRUE, FALSE}
  OBVIOUS
<1>1. cmd \in {"DRAW", "LNAM", "SRLZ"} => Shape[cmd].sized = TRUE
  BY DEF Shape
<1>2. cmd \notin {"DRAW", "LNAM", "SRLZ"} => Shape[cmd].sized = FALSE
  BY DEF Shape
<1> QED
  BY <1>1, <1>2

\* The pipes keep their type when a chunk is added or taken.
LEMMA PipeType ==
  ASSUME NEW s \in Seq(Chunks)
  PROVE  /\ \A m \in Chunks : Append(s, m) \in Seq(Chunks)
         /\ s # <<>> => Tail(s) \in Seq(Chunks) /\ Head(s) \in Chunks
OBVIOUS

LEMMA ChunkType ==
  ASSUME NEW k \in Kinds, NEW id \in Nat, NEW n \in Nat, NEW p \in Nat
  PROVE  Chunk(k, id, n, p) \in Chunks
BY DEF Chunk, Chunks

\* mtx_unlock leaves an owner or nobody.
LEMMA LeaveType ==
  ASSUME NEW t, mtx \in Callers \cup {Nobody}, Leave(t)
  PROVE  mtx' \in Callers \cup {Nobody}
BY DEF Leave

LEMMA CountType ==
  ASSUME NEW event \in {"issued", "crashes", "failed", "requests"},
         tally \in Tallies, Count(event)
  PROVE  tally' \in Tallies
BY DEF Tallies, Count

LEMMA FailureType == tally \in Tallies /\ Failure => tally' \in Tallies
BY CountType DEF Failure

LEMMA FailType ==
  ASSUME NEW c \in Callers, pc \in [Callers -> CallerStates],
         call \in [Callers -> Calls], Fail(c)
  PROVE  /\ pc' \in [Callers -> CallerStates] /\ call' \in [Callers -> Calls]
         /\ pc' = [pc EXCEPT ![c] = "finish"]
         /\ \A d \in Callers : call'[d].n = call[d].n /\ call'[d].p = call[d].p
BY DEF Fail, Goto, Calls, CallerStates

\* A step of a caller keeps the types.
LEMMA CallerTyped ==
  ASSUME Typed, NEW c \in Callers, Call(c) \/ CallerStep(c)
  PROVE  Typed'
<1>1. CASE Call(c)
  <2>1. call' \in [Callers -> Calls] /\ \A d \in Callers \ {c} : call'[d] = call[d]
    <3>1. PICK cmd \in Commands : \E n \in Shape[cmd].args :
            call' = [call EXCEPT ![c] = [NoCall EXCEPT !.id = tally.issued + 1, !.n = n, !.p = Shape[cmd].reads, !.sized = Shape[cmd].sized]]
      BY <1>1 DEF Call
    <3>2. PICK n \in Shape[cmd].args :
            call' = [call EXCEPT ![c] = [NoCall EXCEPT !.id = tally.issued + 1, !.n = n, !.p = Shape[cmd].reads, !.sized = Shape[cmd].sized]]
      BY <3>1
    <3>3. /\ n \in Nat /\ Shape[cmd].reads \in Nat /\ Shape[cmd].sized \in BOOLEAN
          /\ tally.issued + 1 \in Nat
      BY ShapeType, SizedType, ClientAssumption DEF Typed, TypeOK, Tallies
    <3>4. [NoCall EXCEPT !.id = tally.issued + 1, !.n = n, !.p = Shape[cmd].reads,
                         !.sized = Shape[cmd].sized] \in Calls
      BY <3>3 DEF NoCall, Calls
    <3> QED
      BY <3>2, <3>4 DEF Typed, TypeOK
  <2>2. tally' \in Tallies
    BY <1>1, CountType DEF Typed, TypeOK, Call
  <2>3. TypeOK'
    BY <1>1, <2>1, <2>2 DEF Typed, TypeOK, Call, CallerStates, Goto, callerVars, syncVars, processVars, workerVars, pipeVars, childVars
  <2>4. Counters'
    BY <1>1, <2>1, <2>2 DEF Typed, TypeOK, Counters, Call, CallerStates, Goto, callerVars, syncVars, processVars, workerVars, pipeVars, childVars
  <2> QED
    BY <2>3, <2>4 DEF Typed
<1>2. CASE Lock(c)
  <2>1. call' \in [Callers -> Calls]
    BY <1>2 DEF Typed, TypeOK, Lock, Calls, Tallies
  <2>2. \A d \in Callers : call'[d].n = call[d].n /\ call'[d].p = call[d].p
    BY <1>2 DEF Typed, TypeOK, Lock, Calls
  <2>3. TypeOK'
    BY <1>2, <2>1, <2>2 DEF Typed, TypeOK, Lock, CallerStates, Goto, callerVars, syncVars, processVars, workerVars, pipeVars, childVars
  <2>4. Counters'
    BY <1>2, <2>1, <2>2 DEF Typed, TypeOK, Counters, Lock, CallerStates, Goto, callerVars, syncVars, processVars, workerVars, pipeVars, childVars
  <2> QED
    BY <2>3, <2>4 DEF Typed
<1>3. CASE Check(c)
  <2>1. TypeOK'
    BY <1>3 DEF Typed, TypeOK, Check, CallerStates, Goto, callerVars, syncVars, processVars, workerVars, pipeVars, childVars
  <2>2. Counters'
    BY <1>3 DEF Typed, TypeOK, Counters, Check, CallerStates, Goto, callerVars, syncVars, processVars, workerVars, pipeVars, childVars
  <2> QED
    BY <2>1, <2>2 DEF Typed
<1>4. CASE Join(c)
  <2>1. TypeOK'
    BY <1>4 DEF Typed, TypeOK, Join, CallerStates, Goto, callerVars, syncVars, processVars, workerVars, pipeVars, childVars
  <2>2. Counters'
    BY <1>4 DEF Typed, TypeOK, Counters, Join, CallerStates, Goto, callerVars, syncVars, processVars, workerVars, pipeVars, childVars
  <2> QED
    BY <2>1, <2>2 DEF Typed
<1>5. CASE Start(c)
  <2>1. child' \in Children /\ wrep' \in Handovers
    BY <1>5 DEF Start, Children, NewChild, ChildStates, Handovers, Replies, NoReply, Rep
  <2>2. child'.st = "idle"
    BY <1>5 DEF Start, NewChild
  <2>3. TypeOK'
    BY <1>5, <2>1, <2>2 DEF Typed, TypeOK, Start, CallerStates, WorkerStates, Goto, callerVars, syncVars, processVars, workerVars, pipeVars, childVars
  <2>4. Counters'
    BY <1>5, <2>1, <2>2 DEF Typed, TypeOK, Counters, Start, CallerStates, WorkerStates, Goto, callerVars, syncVars, processVars, workerVars, pipeVars, childVars
  <2> QED
    BY <2>3, <2>4 DEF Typed
<1>6. CASE StartFails(c)
  <2>1. tally' \in Tallies
    BY <1>6, FailureType DEF Typed, TypeOK, StartFails
  <2>2. pc' \in [Callers -> CallerStates] /\ call' \in [Callers -> Calls]
    BY <1>6, FailType DEF Typed, TypeOK, StartFails
  <2>3. /\ pc' = [pc EXCEPT ![c] = "finish"]
         /\ \A d \in Callers : call'[d].n = call[d].n /\ call'[d].p = call[d].p
    BY <1>6, FailType DEF Typed, TypeOK, StartFails
  <2>4. TypeOK'
    BY <1>6, <2>1, <2>2, <2>3 DEF Typed, TypeOK, StartFails, CallerStates, callerVars, syncVars, processVars, workerVars, pipeVars, childVars
  <2>5. Counters'
    BY <1>6, <2>1, <2>2, <2>3 DEF Typed, TypeOK, Counters, StartFails, CallerStates, callerVars, syncVars, processVars, workerVars, pipeVars, childVars
  <2> QED
    BY <2>4, <2>5 DEF Typed
<1>7. CASE WriteChunk(c)
  <2>1. call[c] \in Calls /\ call[c].id \in Nat /\ call[c].n \in Nat /\ call[c].p \in Nat
    BY <1>7 DEF Typed, TypeOK, Calls
  <2>2. toChild' \in Seq(Chunks)
    BY <1>7, <2>1, PipeType, ChunkType DEF Typed, TypeOK, WriteChunk, Kinds
  <2>3. call' \in [Callers -> Calls]
    <3> DEFINE left == IF pc[c] = "head" THEN call[c].n ELSE call[c].n - 1
    <3>1. left \in Nat
      BY <1>7, <2>1 DEF Typed, Counters, WriteChunk
    <3>2. call' = [call EXCEPT ![c].n = left]
      BY <1>7 DEF WriteChunk
    <3> QED
      BY <3>1, <3>2 DEF Typed, TypeOK, Calls
  <2>4. \A d \in Callers : call'[d].p = call[d].p /\ (d # c => call'[d] = call[d])
    BY <1>7, <2>1 DEF Typed, TypeOK, WriteChunk, Calls
  <2>5. pc'[c] = "args" => call'[c].n > 0
    BY <1>7, <2>1 DEF Typed, TypeOK, Counters, WriteChunk, Calls, Goto
  <2>6. TypeOK'
    BY <1>7, <2>1, <2>2, <2>3, <2>4, <2>5 DEF Typed, TypeOK, WriteChunk, CallerStates, Goto, callerVars, syncVars, processVars, workerVars, pipeVars, childVars
  <2>7. Counters'
    BY <1>7, <2>1, <2>2, <2>3, <2>4, <2>5 DEF Typed, TypeOK, Counters, WriteChunk, CallerStates, Goto, callerVars, syncVars, processVars, workerVars, pipeVars, childVars
  <2> QED
    BY <2>6, <2>7 DEF Typed
<1>8. CASE WriteFails(c)
  <2>1. pc' \in [Callers -> CallerStates] /\ call' \in [Callers -> Calls]
    BY <1>8, FailType DEF Typed, TypeOK, WriteFails
  <2>2. /\ pc' = [pc EXCEPT ![c] = "finish"]
         /\ \A d \in Callers : call'[d].n = call[d].n /\ call'[d].p = call[d].p
    BY <1>8, FailType DEF Typed, TypeOK, WriteFails
  <2>3. TypeOK'
    BY <1>8, <2>1, <2>2 DEF Typed, TypeOK, WriteFails, callerVars, syncVars, processVars, workerVars, pipeVars, childVars
  <2>4. Counters'
    BY <1>8, <2>1, <2>2 DEF Typed, TypeOK, Counters, WriteFails, callerVars, syncVars, processVars, workerVars, pipeVars, childVars
  <2> QED
    BY <2>3, <2>4 DEF Typed
<1>9. CASE GetReply(c)
  <2>1. call' \in [Callers -> Calls]
    <3>1. reply.id \in Nat /\ (~reply.ok) \in BOOLEAN
      BY DEF Typed, TypeOK, Replies
    <3>2. [call[c] EXCEPT !.took = TRUE, !.got = reply.id, !.err = ~reply.ok] \in Calls
      BY <3>1 DEF Typed, TypeOK, Calls
    <3> QED
      BY <1>9, <3>2 DEF Typed, TypeOK, GetReply
  <2>2. reply' \in Replies
    BY <1>9 DEF GetReply, Replies, NoReply, Rep
  <2>3. \A d \in Callers : call'[d].n = call[d].n /\ call'[d].p = call[d].p
    BY <1>9 DEF Typed, TypeOK, GetReply, Calls
  <2>4. call[c].p \in Nat
    BY <1>9 DEF Typed, TypeOK, Calls
  <2>5. TypeOK'
    BY <1>9, <2>1, <2>2, <2>3, <2>4 DEF Typed, TypeOK, GetReply, CallerStates, Goto, callerVars, syncVars, processVars, workerVars, pipeVars, childVars
  <2>6. Counters'
    BY <1>9, <2>1, <2>2, <2>3, <2>4 DEF Typed, TypeOK, Counters, GetReply, CallerStates, Goto, callerVars, syncVars, processVars, workerVars, pipeVars, childVars
  <2> QED
    BY <2>5, <2>6 DEF Typed
<1>10. CASE ReadChunk(c)
  <2>1. fromChild' \in Seq(Chunks)
    BY <1>10, PipeType DEF Typed, TypeOK, ReadChunk
  <2> DEFINE m == Head(fromChild)
             mine == m.k = "data" /\ m.id = call[c].id
             left == call[c].p - 1
  <2>2. CASE Fail(c)
    <3>1. /\ pc' \in [Callers -> CallerStates] /\ call' \in [Callers -> Calls]
          /\ pc' = [pc EXCEPT ![c] = "finish"]
          /\ \A d \in Callers : call'[d].n = call[d].n /\ call'[d].p = call[d].p
      BY <2>2, FailType DEF Typed, TypeOK
    <3> QED
      BY <1>10, <2>1, <3>1 DEF Typed, TypeOK, Counters, ReadChunk, syncVars, processVars,
        workerVars, childVars
  <2>3. CASE /\ call' = [call EXCEPT ![c].p = left, ![c].got = IF mine THEN @ ELSE 0]
             /\ Goto(c, IF left = 0 THEN "finish" ELSE "read")
    <3>1. call[c].p \in Nat /\ left \in Nat
      BY <1>10 DEF Typed, TypeOK, Counters, Calls, ReadChunk
    <3>2. call' \in [Callers -> Calls]
      <4>1. (IF mine THEN call[c].got ELSE 0) \in Nat
        BY DEF Typed, TypeOK, Calls
      <4>2. [call[c] EXCEPT !.p = left, !.got = IF mine THEN @ ELSE 0] \in Calls
        BY <3>1, <4>1 DEF Typed, TypeOK, Calls
      <4> QED
        BY <2>3, <4>2 DEF Typed, TypeOK
    <3>3. /\ call'[c].p = left
          /\ \A d \in Callers : call'[d].n = call[d].n /\ (d # c => call'[d] = call[d])
      BY <2>3 DEF Typed, TypeOK, Calls
    <3> QED
      BY <1>10, <2>1, <2>3, <3>1, <3>2, <3>3 DEF Typed, TypeOK, Counters, ReadChunk, Goto,
        CallerStates, syncVars, processVars, workerVars, childVars
  <2> QED
    BY <1>10, <2>2, <2>3 DEF ReadChunk
<1>11. CASE ReadFails(c)
  <2>1. pc' \in [Callers -> CallerStates] /\ call' \in [Callers -> Calls]
    BY <1>11, FailType DEF Typed, TypeOK, ReadFails
  <2>2. /\ pc' = [pc EXCEPT ![c] = "finish"]
         /\ \A d \in Callers : call'[d].n = call[d].n /\ call'[d].p = call[d].p
    BY <1>11, FailType DEF Typed, TypeOK, ReadFails
  <2>3. TypeOK'
    BY <1>11, <2>1, <2>2 DEF Typed, TypeOK, ReadFails, callerVars, syncVars, processVars, workerVars, pipeVars, childVars
  <2>4. Counters'
    BY <1>11, <2>1, <2>2 DEF Typed, TypeOK, Counters, ReadFails, callerVars, syncVars, processVars, workerVars, pipeVars, childVars
  <2> QED
    BY <2>3, <2>4 DEF Typed
<1>12. CASE Finish(c)
  <2>1. TypeOK'
    BY <1>12 DEF Typed, TypeOK, Finish, CallerStates, Goto, Events, callerVars, syncVars, processVars, workerVars, pipeVars, childVars
  <2>2. Counters'
    BY <1>12 DEF Typed, TypeOK, Counters, Finish, CallerStates, Goto, Events, callerVars, syncVars, processVars, workerVars, pipeVars, childVars
  <2> QED
    BY <2>1, <2>2 DEF Typed
<1>13. CASE Unlock(c)
  <2>1. mtx' \in Callers \cup {Nobody}
    BY <1>13, LeaveType DEF Typed, TypeOK, Unlock
  <2>2. TypeOK'
    BY <1>13, <2>1 DEF Typed, TypeOK, Unlock, CallerStates, Goto, callerVars, syncVars, processVars, workerVars, pipeVars, childVars
  <2>3. Counters'
    BY <1>13, <2>1 DEF Typed, TypeOK, Counters, Unlock, CallerStates, Goto, callerVars, syncVars, processVars, workerVars, pipeVars, childVars
  <2> QED
    BY <2>2, <2>3 DEF Typed
<1>14. CASE ReadStarves(c)
  <2>1. tally' \in Tallies
    BY <1>14, FailureType DEF Typed, TypeOK, ReadStarves
  <2>2. /\ pc' \in [Callers -> CallerStates] /\ call' \in [Callers -> Calls]
        /\ pc' = [pc EXCEPT ![c] = "finish"]
        /\ \A d \in Callers : call'[d].n = call[d].n /\ call'[d].p = call[d].p
    BY <1>14, FailType DEF Typed, TypeOK, ReadStarves
  <2>3. hist' \subseteq Events
    BY <1>14 DEF Typed, TypeOK, ReadStarves, Events
  <2> QED
    BY <1>14, <2>1, <2>2, <2>3 DEF Typed, TypeOK, Counters, ReadStarves, syncVars, processVars,
      workerVars, pipeVars, childVars
<1> QED
  BY <1>1, <1>2, <1>3, <1>4, <1>5, <1>6, <1>7, <1>8, <1>9, <1>10, <1>11, <1>12, <1>13, <1>14
  DEF CallerStep

\* ReadHeader and the others take or add one chunk at most, and what they hand
\* over is a reply.
LEMMA WorkerTyped ==
  ASSUME Typed, WorkerStep
  PROVE  Typed'
<1>1. CASE ReadHeader
  <2>1. fromChild' \in Seq(Chunks) /\ Head(fromChild).id \in Nat
    BY <1>1, PipeType DEF Typed, TypeOK, ReadHeader, Chunks
  <2>2. wrep' \in Handovers
    <3>1. \A ok \in BOOLEAN : [rep |-> Rep(ok, Head(fromChild).id), fail |-> FALSE] \in Handovers
      BY <2>1 DEF Rep, Handovers, Replies
    <3>2. \/ \E ok \in BOOLEAN : wrep' = [rep |-> Rep(ok, Head(fromChild).id), fail |-> FALSE]
          \/ UNCHANGED wrep
      BY <1>1 DEF ReadHeader, WorkerGoto
    <3> QED
      BY <3>1, <3>2 DEF Typed, TypeOK
  <2>3. wpc' \in WorkerStates
    BY <1>1 DEF ReadHeader, WorkerGoto, WorkerStates
  <2> QED
    BY <1>1, <2>1, <2>2, <2>3 DEF Typed, TypeOK, Counters, ReadHeader,
      callerVars, syncVars, processVars, workerVars, pipeVars, childVars
<1>2. CASE HeaderFails
  BY <1>2 DEF Typed, TypeOK, Counters, HeaderFails, WorkerGoto, WorkerReturns, WorkerStates, Events,
    callerVars, syncVars, processVars, workerVars, pipeVars, childVars
<1>3. CASE WriteAnswer
  <2>1. toChild' \in Seq(Chunks)
    BY <1>3, PipeType, ChunkType DEF Typed, TypeOK, WriteAnswer, Kinds
  <2> QED
    BY <1>3, <2>1 DEF Typed, TypeOK, Counters, WriteAnswer, WorkerGoto, WorkerStates, Events,
      callerVars, syncVars, processVars, workerVars, pipeVars, childVars
<1>4. CASE AnswerFails
  BY <1>4 DEF Typed, TypeOK, Counters, AnswerFails, WorkerGoto, WorkerReturns, WorkerStates, Events,
    callerVars, syncVars, processVars, workerVars, pipeVars, childVars
<1>5. CASE ReadText
  <2>1. fromChild' \in Seq(Chunks)
    BY <1>5, PipeType DEF Typed, TypeOK, ReadText
  <2> QED
    BY <1>5, <2>1 DEF Typed, TypeOK, Counters, ReadText, WorkerGoto, WorkerStates,
      callerVars, syncVars, processVars, workerVars, pipeVars, childVars
<1>6. CASE TextFails \/ TextStarves
  <2>1. wrep' \in Handovers
    <3>1. TextLost
      BY <1>6 DEF TextFails, TextStarves
    <3> QED
      BY <3>1 DEF Typed, TypeOK, TextLost, Handovers, Replies
  <2>2. fromChild' \in Seq(Chunks) /\ tally' \in Tallies
    BY <1>6, PipeType, FailureType DEF Typed, TypeOK, TextFails, TextStarves
  <2>3. hist' \subseteq Events
    BY <1>6 DEF Typed, TypeOK, TextFails, TextStarves, Events
  <2> QED
    BY <1>6, <2>1, <2>2, <2>3 DEF Typed, TypeOK, Counters, TextFails, TextStarves, TextLost,
      WorkerStates, callerVars, syncVars, processVars, workerVars, pipeVars, childVars
<1>7. CASE Signal
  <2>1. reply' \in Replies
    BY <1>7 DEF Typed, TypeOK, Signal, Handovers
  <2> QED
    BY <1>7, <2>1 DEF Typed, TypeOK, Counters, Signal, WorkerGoto, WorkerStates,
      callerVars, syncVars, processVars, workerVars, pipeVars, childVars
<1>8. CASE Handshake
  BY <1>8 DEF Typed, TypeOK, Counters, Handshake, WorkerGoto, WorkerStates,
    callerVars, syncVars, processVars, workerVars, pipeVars, childVars
<1>9. CASE WorkerUnlock
  <2>1. mtx' \in Callers \cup {Nobody}
    BY <1>9, LeaveType DEF Typed, TypeOK, WorkerUnlock
  <2> QED
    BY <1>9, <2>1 DEF Typed, TypeOK, Counters, WorkerUnlock, WorkerGoto, WorkerReturns, WorkerStates, Events,
      callerVars, syncVars, processVars, workerVars, pipeVars, childVars
<1>10. CASE AnswerStarves
  <2>1. tally' \in Tallies
    BY <1>10, FailureType DEF Typed, TypeOK, AnswerStarves
  <2> QED
    BY <1>10, <2>1 DEF Typed, TypeOK, Counters, AnswerStarves, WorkerGoto, WorkerStates, Events,
      callerVars, syncVars, processVars, workerVars, pipeVars, childVars
<1> QED
  BY <1>1, <1>2, <1>3, <1>4, <1>5, <1>6, <1>7, <1>8, <1>9, <1>10 DEF WorkerStep

\* What the steps of the child change, and the rest of Typed.
ChildPart ==
  /\ child \in Children
  /\ child.st = "args" => child.n > 0
  /\ child.st = "data" => child.p > 0
  /\ toChild \in Seq(Chunks) /\ fromChild \in Seq(Chunks)
  /\ tally \in Tallies /\ hist \subseteq Events /\ served \subseteq Nat

LEMMA ChildFrame == Typed /\ ChildUnchanged /\ ChildPart' => Typed'
BY DEF Typed, TypeOK, Counters, ChildPart, ChildUnchanged, callerVars, syncVars, processVars,
  workerVars

LEMMA ChildReadsTyped == Typed /\ ChildReads => ChildPart'
<1> SUFFICES ASSUME Typed, ChildReads PROVE ChildPart'
  OBVIOUS
<1> DEFINE m == Head(toChild)
           left == IF m.k = "cmd" THEN m.n ELSE child.n - 1
<1>1. /\ toChild' \in Seq(Chunks) /\ m.id \in Nat /\ m.n \in Nat /\ m.p \in Nat
      /\ UNCHANGED <<fromChild, served, tally, hist>>
  BY PipeType DEF Typed, TypeOK, ChildReads, Chunks
<1>2. child \in Children /\ child.n \in Nat
  BY DEF Typed, TypeOK, Children
<1>3. CASE child' = [child EXCEPT !.st = IF left = 0 THEN "run" ELSE "args",
                                  !.id = m.id, !.n = left, !.p = m.p] /\ m.k = "cmd"
  <2>1. left \in Nat
    BY <1>1, <1>3
  <2>2. child' \in Children
    BY <1>1, <1>2, <1>3, <2>1 DEF Children, ChildStates
  <2>3. child'.n = left /\ child'.st = IF left = 0 THEN "run" ELSE "args"
    BY <1>2, <1>3 DEF Children
  <2>4. /\ child'.st = "args" => child'.n > 0
        /\ child'.st = "data" => child'.p > 0
    <3> HIDE DEF left
    <3> QED
      BY <2>1, <2>3
  <2> QED
    BY <1>1, <2>2, <2>4 DEF ChildPart, Typed, TypeOK
<1>4. CASE child' = [child EXCEPT !.asked = FALSE] /\ child.st = "idle"
  BY <1>1, <1>2, <1>4 DEF ChildPart, Typed, TypeOK, Children
<1>5. CASE /\ child' = [child EXCEPT !.st = IF left = 0 THEN "run" ELSE "args", !.n = left]
           /\ child.st = "args" /\ m.k = "arg"
  <2>1. left \in Nat
    BY <1>2, <1>5 DEF Typed, Counters
  <2>2. child' \in Children
    BY <1>2, <1>5, <2>1 DEF Children, ChildStates
  <2>3. child'.n = left /\ child'.st = IF left = 0 THEN "run" ELSE "args"
    BY <1>2, <1>5 DEF Children
  <2>4. /\ child'.st = "args" => child'.n > 0
        /\ child'.st = "data" => child'.p > 0
    <3> HIDE DEF left
    <3> QED
      BY <2>1, <2>3
  <2> QED
    BY <1>1, <2>2, <2>4 DEF ChildPart, Typed, TypeOK
<1>6. CASE child' = [child EXCEPT !.st = "lost"]
  BY <1>1, <1>2, <1>6 DEF ChildPart, Typed, TypeOK, Children, ChildStates
<1> QED
  BY <1>3, <1>4, <1>5, <1>6 DEF ChildReads

\* ChildSends with a well-formed chunk and child.
LEMMA SendsTyped ==
  ASSUME NEW k \in Kinds, NEW id \in Nat, NEW ch \in Children,
         Typed, ChildSends(Chunk(k, id, 0, 0), ch)
  PROVE  fromChild' \in Seq(Chunks) /\ child' = ch /\ child' \in Children
BY PipeType, ChunkType DEF ChildSends, Typed, TypeOK

LEMMA ChildRepliesTyped == Typed /\ ChildReplies => ChildPart'
<1> SUFFICES ASSUME Typed, ChildReplies PROVE ChildPart'
  OBVIOUS
<1> DEFINE good == [child EXCEPT !.st = IF child.p = 0 THEN "idle" ELSE "data"]
           bad == [child EXCEPT !.st = "text"]
<1>1. /\ child.id \in Nat /\ child.p \in Nat
      /\ good \in Children /\ good.p = child.p /\ good.st \in {"idle", "data"}
      /\ good.st = "data" => child.p # 0
      /\ bad \in Children /\ bad.st = "text"
  BY DEF Typed, TypeOK, Children, ChildStates
<1>2. CASE ChildSends(Chunk("ok", child.id, 0, 0), good) /\ served' = served \cup {child.id}
  <2>1. fromChild' \in Seq(Chunks) /\ child' = good
    BY <1>1, <1>2, SendsTyped DEF Kinds
  <2> QED
    BY <1>1, <1>2, <2>1 DEF ChildReplies, ChildPart, Typed, TypeOK
<1>3. CASE ChildSends(Chunk("err", child.id, 0, 0), bad) /\ UNCHANGED served
  <2>1. fromChild' \in Seq(Chunks) /\ child' = bad
    BY <1>1, <1>3, SendsTyped DEF Kinds
  <2> QED
    BY <1>1, <1>3, <2>1 DEF ChildReplies, ChildPart, Typed, TypeOK
<1> QED
  BY <1>2, <1>3 DEF ChildReplies

LEMMA ChildContinuesTyped == Typed /\ ChildContinues => ChildPart'
<1> SUFFICES ASSUME Typed, ChildContinues PROVE ChildPart'
  OBVIOUS
<1> DEFINE more == [child EXCEPT !.p = @ - 1, !.st = IF child.p = 1 THEN "idle" ELSE "data"]
           done == [child EXCEPT !.st = "idle"]
           gone == [child EXCEPT !.alive = FALSE]
<1>1. child \in Children /\ child.id \in Nat /\ UNCHANGED <<toChild, served, tally, hist>>
  BY DEF Typed, TypeOK, Children, ChildContinues
<1>2. CASE child.st = "data" /\ ChildSends(Chunk("data", child.id, 0, 0), more)
  <2>1. child.p \in Nat \ {0}
    BY <1>1, <1>2 DEF Typed, Counters, Children
  <2>2. more \in Children
    <3>1. child.p - 1 \in Nat
      BY <2>1
    <3> QED
      BY <1>1, <3>1 DEF Children, ChildStates
  <2>3. more.p = child.p - 1 /\ more.st = IF child.p = 1 THEN "idle" ELSE "data"
    BY <1>1 DEF Children
  <2>4. fromChild' \in Seq(Chunks) /\ child' = more
    BY <1>1, <1>2, <2>2, SendsTyped DEF Kinds
  <2> QED
    BY <1>1, <2>1, <2>2, <2>3, <2>4 DEF ChildPart, Typed, TypeOK
<1>3. CASE ChildSends(Chunk("text", child.id, 0, 0), done)
  <2>1. done \in Children /\ done.st = "idle"
    BY <1>1 DEF Children, ChildStates
  <2>2. fromChild' \in Seq(Chunks) /\ child' = done
    BY <1>1, <1>3, <2>1, SendsTyped DEF Kinds
  <2> QED
    BY <1>1, <2>1, <2>2 DEF ChildPart, Typed, TypeOK
<1>4. CASE child.st = "abort" /\ ChildSends(Chunk("text", 0, 0, 0), gone)
  <2>1. gone \in Children /\ gone.st = child.st
    BY <1>1 DEF Children
  <2>2. fromChild' \in Seq(Chunks) /\ child' = gone
    BY <1>4, <2>1, SendsTyped DEF Kinds
  <2> QED
    BY <1>1, <1>4, <2>1, <2>2 DEF ChildPart, Typed, TypeOK
<1> QED
  BY <1>2, <1>3, <1>4 DEF ChildContinues

\* The requests, the end of a child that gives up, and its complaints.
LEMMA ChildSpeaksTyped ==
  Typed /\ (ChildAsks \/ ChildAborts \/ ChildComplains) => ChildPart'
<1> SUFFICES ASSUME Typed, ChildAsks \/ ChildAborts \/ ChildComplains PROVE ChildPart'
  OBVIOUS
<1>1. child \in Children
  BY DEF Typed, TypeOK
<1>2. CASE ChildAsks
  <2> DEFINE ch == [child EXCEPT !.asked = TRUE]
  <2>1. ch \in Children /\ ch.st = child.st /\ ch.n = child.n /\ ch.p = child.p
    BY <1>1 DEF Children
  <2>2. fromChild' \in Seq(Chunks) /\ child' = ch
    BY <1>2, <2>1, SendsTyped DEF ChildAsks, Kinds
  <2>3. tally' \in Tallies /\ UNCHANGED <<toChild, served, hist>>
    BY <1>2, CountType DEF ChildAsks, Typed, TypeOK
  <2> QED
    BY <2>1, <2>2, <2>3 DEF ChildPart, Typed, TypeOK, Counters
<1>3. CASE ChildAborts
  <2> DEFINE ch == [child EXCEPT !.st = "abort"]
  <2>1. ch \in Children /\ ch.st = "abort"
    BY <1>1 DEF Children, ChildStates
  <2>2. fromChild' \in Seq(Chunks) /\ child' = ch
    BY <1>3, <2>1, SendsTyped DEF ChildAborts, Failure, Kinds
  <2>3. tally' \in Tallies /\ UNCHANGED <<toChild, served>> /\ hist' \subseteq Events
    BY <1>3, CountType DEF ChildAborts, Failure, Typed, TypeOK, Events
  <2> QED
    BY <2>1, <2>2, <2>3 DEF ChildPart, Typed, TypeOK
<1>4. CASE ChildComplains
  <2> DEFINE ch == [child EXCEPT !.st = "text", !.id = 0]
  <2>1. ch \in Children /\ ch.st = "text"
    BY <1>1 DEF Children, ChildStates
  <2>2. fromChild' \in Seq(Chunks) /\ child' = ch
    BY <1>4, <2>1, SendsTyped DEF ChildComplains, Kinds
  <2>3. UNCHANGED <<toChild, served, tally, hist>>
    BY <1>4 DEF ChildComplains
  <2> QED
    BY <2>1, <2>2, <2>3 DEF ChildPart, Typed, TypeOK
<1> QED
  BY <1>2, <1>3, <1>4

LEMMA ChildDiesTyped == Typed /\ (Crash \/ ChildEof) => ChildPart'
<1> SUFFICES ASSUME Typed, Crash \/ ChildEof PROVE ChildPart'
  OBVIOUS
<1>1. /\ child' = [child EXCEPT !.alive = FALSE]
      /\ UNCHANGED <<toChild, fromChild, served, hist>>
  BY DEF Crash, ChildEof, Dies, pipeVars
<1>2. /\ child' \in Children /\ child'.st = child.st
      /\ child'.n = child.n /\ child'.p = child.p
  BY <1>1 DEF Typed, TypeOK, Children
<1>3. tally' \in Tallies
  BY CountType DEF Crash, ChildEof, Typed, TypeOK
<1> QED
  BY <1>1, <1>2, <1>3 DEF ChildPart, Typed, TypeOK, Counters

LEMMA ChildTyped ==
  ASSUME Typed, ChildStep \/ ChildAsks \/ ChildAborts \/ ChildComplains \/ Crash
  PROVE  Typed'
<1>1. ChildUnchanged
  BY DEF ChildStep, ChildReads, ChildReplies, ChildContinues, ChildEof, ChildAsks,
    ChildAborts, Failure, ChildComplains, Crash, Dies
<1>2. ChildPart'
  BY ChildReadsTyped, ChildRepliesTyped, ChildContinuesTyped, ChildSpeaksTyped,
    ChildDiesTyped DEF ChildStep
<1> QED
  BY <1>1, <1>2, ChildFrame

LEMMA InitTyped == Init => Typed
<1> SUFFICES ASSUME Init PROVE Typed
  OBVIOUS
<1>1. call \in [Callers -> Calls] /\ pc \in [Callers -> CallerStates]
  BY DEF Init, Calls, NoCall, CallerStates
<1>2. reply \in Replies /\ wrep \in Handovers /\ wpc \in WorkerStates
  BY DEF Init, Replies, NoReply, Rep, Handovers, WorkerStates
<1>3. child \in Children /\ child.st = "idle"
  BY DEF Init, Children, NoChild, NewChild, ChildStates
<1>4. tally \in Tallies
  BY DEF Init, Tallies
<1>5. \A c \in Callers : pc[c] = "idle"
  BY DEF Init
<1>6. toChild \in Seq(Chunks) /\ fromChild \in Seq(Chunks)
  BY DEF Init
<1>7. TypeOK
  BY <1>1, <1>2, <1>3, <1>4, <1>6 DEF Init, TypeOK
<1> QED
  BY <1>3, <1>5, <1>7 DEF Typed, Counters

LEMMA StepTyped == Typed /\ [Next]_vars => Typed'
<1> SUFFICES ASSUME Typed, [Next]_vars PROVE Typed'
  OBVIOUS
<1>1. CASE Exit \/ ExitJoin
  BY <1>1 DEF Typed, TypeOK, Counters, Exit, ExitJoin,
    callerVars, syncVars, processVars, workerVars, pipeVars, childVars
<1>2. CASE UNCHANGED vars
  BY <1>2 DEF Typed, TypeOK, Counters, vars,
    callerVars, syncVars, processVars, workerVars, pipeVars, childVars
<1> QED
  BY <1>1, <1>2, CallerTyped, WorkerTyped, ChildTyped DEF Next

\* Every variable keeps its type: the callers never wait for more or fewer
\* chunks than there are, and no counter of chunks falls below zero.
THEOREM TypeCorrect == Spec => []TypeOK
<1>1. Typed => TypeOK
  BY DEF Typed
<1> QED
  BY <1>1, InitTyped, StepTyped, PTL DEF Spec

-----------------------------------------------------------------------------
(* The mutex and the hand-over.  The worker unlocks a mutex it does not    *)
(* own.  There is one caller in AviUtl; several take turns only where the  *)
(* foreign unlock has no effect, which Windows does not promise.           *)

TurnsAssumption == ForeignUnlock = {"ignored"} \/ \A c, d \in Callers : c = d

\* Two callers are never between start_command_process and finish_command_process at once.
CallersTakeTurns ==
  \A c, d \in Callers : Inside(c) /\ Inside(d) => c = d

\* Where a foreign unlock has no effect, a caller owns the mutex throughout.
Owned ==
  ForeignUnlock = {"ignored"} => \A c \in Callers : Inside(c) => mtx = c

\* A caller has no reply before get_reply.
NoReplyYet ==
  \A c \in Callers :
    pc[c] \in {"lock", "check", "join", "start", "head", "args", "reply"} => ~call[c].took

Rest == Owned /\ NoReplyYet /\ Handover
HandInv == Typed /\ Rest

LEMMA OwnedTurns == TurnsAssumption /\ Owned => CallersTakeTurns
BY DEF TurnsAssumption, Owned, CallersTakeTurns

\* The steps that touch neither a caller nor the hand-over.
LEMMA RestFrame ==
  Rest /\ UNCHANGED <<pc, call, mtx, c2s, s2c, running, wpc>> /\ hist \subseteq hist' => Rest'
BY DEF Rest, Owned, Inside, NoReplyYet, Handover, HasReply

LEMMA CallerOwned ==
  ASSUME TypeOK, Owned, NEW c \in Callers, Call(c) \/ CallerStep(c)
  PROVE  Owned'
<1> SUFFICES ASSUME ForeignUnlock = {"ignored"} PROVE \A d \in Callers : Inside(d)' => mtx' = d
  BY DEF Owned
<1>1. \A d \in Callers : Inside(d) => mtx = d
  BY DEF Owned
<1>2. CASE Call(c)
  BY <1>1, <1>2 DEF TypeOK, Call, Inside, Goto, syncVars
<1>3. CASE Lock(c)
  BY <1>1, <1>3, ClientAssumption DEF TypeOK, Lock, Inside, Goto
<1>4. CASE Unlock(c)
  BY <1>1, <1>4, ClientAssumption DEF TypeOK, Unlock, Inside, Goto, Leave
<1>5. CASE CallerStep(c) /\ ~Lock(c) /\ ~Unlock(c)
  <2>1. Inside(c) /\ mtx' = mtx /\ \A d \in Callers \ {c} : pc'[d] = pc[d]
    BY <1>5 DEF TypeOK, CallerStep, Check, Join, Start, StartFails, WriteChunk, WriteFails,
      GetReply, ReadChunk, ReadFails, ReadStarves, Failure, Finish, Fail, Goto, Inside, syncVars
  <2> QED
    BY <1>1, <2>1 DEF Inside
<1> QED
  BY <1>2, <1>3, <1>4, <1>5

LEMMA WorkerOwned ==
  ASSUME TypeOK, Owned, WorkerStep
  PROVE  Owned'
<1>1. UNCHANGED pc
  BY DEF WorkerStep, ReadHeader, HeaderFails, WriteAnswer, AnswerFails, AnswerStarves, Failure, ReadText, TextFails, TextStarves, TextLost,
    Signal, Handshake, WorkerUnlock, callerVars
<1>2. CASE WorkerUnlock
  BY <1>1, <1>2, ClientAssumption DEF Owned, Inside, WorkerUnlock, Leave
<1>3. CASE ~WorkerUnlock
  <2>1. UNCHANGED mtx
    BY <1>3 DEF WorkerStep, ReadHeader, HeaderFails, WriteAnswer, AnswerFails, AnswerStarves, Failure, ReadText,
      TextFails, TextStarves, TextLost, Signal, Handshake, syncVars
  <2> QED
    BY <1>1, <2>1 DEF Owned, Inside
<1> QED
  BY <1>2, <1>3

\* The states of a caller before get_reply has returned.
Before == {"lock", "check", "join", "start", "head", "args", "reply"}

LEMMA CallerNoReplyYet ==
  ASSUME TypeOK, NoReplyYet, NEW c \in Callers, Call(c) \/ CallerStep(c)
  PROVE  NoReplyYet'
<1>1. \A d \in Callers \ {c} : pc'[d] = pc[d] /\ call'[d] = call[d]
  BY DEF TypeOK, Call, CallerStep, Lock, Check, Join, Start, StartFails, WriteChunk, WriteFails,
    GetReply, ReadChunk, ReadFails, ReadStarves, Failure, Finish, Unlock, Fail, Goto
<1>2. pc'[c] \in Before => ~call'[c].took
  <2>1. CASE Call(c)
    <3>1. PICK cmd \in Commands : \E n \in Shape[cmd].args :
            call' = [call EXCEPT ![c] = [NoCall EXCEPT !.id = tally.issued + 1, !.n = n, !.p = Shape[cmd].reads, !.sized = Shape[cmd].sized]]
      BY <2>1 DEF Call
    <3> QED
      BY <3>1 DEF TypeOK, NoCall
  <2>2. CASE Lock(c) \/ WriteChunk(c)
    <3>1. pc[c] \in Before
      BY <2>2 DEF Lock, WriteChunk, Before
    <3>2. call'[c].took = call[c].took
      BY <2>2 DEF Lock, WriteChunk, TypeOK, Calls
    <3> QED
      BY <3>1, <3>2 DEF NoReplyYet, Before
  <2>3. CASE Check(c) \/ Join(c) \/ Start(c)
    BY <2>3 DEF TypeOK, Check, Join, Start, Goto, NoReplyYet, Before
  <2>4. CASE StartFails(c) \/ WriteFails(c) \/ GetReply(c) \/ ReadFails(c) \/ ReadStarves(c) \/ Finish(c) \/ Unlock(c)
    <3>1. pc'[c] \in {"finish", "unlock", "idle", "read"}
      BY <2>4 DEF TypeOK, StartFails, WriteFails, GetReply, ReadFails, ReadStarves, Failure, Finish, Unlock, Fail, Goto
    <3> QED
      BY <3>1 DEF Before
  <2>5. CASE ReadChunk(c)
    <3>1. pc'[c] \in {"finish", "read"}
      BY <2>5 DEF TypeOK, ReadChunk, Fail, Goto
    <3> QED
      BY <3>1 DEF Before
  <2> QED
    BY <2>1, <2>2, <2>3, <2>4, <2>5 DEF CallerStep
<1> QED
  BY <1>1, <1>2 DEF NoReplyYet, Before

\* A caller moves from one state to another and nothing of the hand-over
\* changes: only a caller that gains a reply matters.
LEMMA HandoverFrame ==
  ASSUME TypeOK, Handover, NEW c \in Callers,
         UNCHANGED <<c2s, s2c, wpc, running>>, hist \subseteq hist',
         \A d \in Callers \ {c} : pc'[d] = pc[d] /\ call'[d] = call[d],
         pc'[c] # "start", HasReply(c)' => HasReply(c)
  PROVE  Handover'
BY DEF Handover, HasReply

LEMMA CallerHandover ==
  ASSUME TypeOK, CallersTakeTurns, NoReplyYet, Handover,
         NEW c \in Callers, Call(c) \/ CallerStep(c)
  PROVE  Handover'
<1>1. \A d \in Callers \ {c} : pc'[d] = pc[d] /\ call'[d] = call[d]
  BY DEF TypeOK, Call, CallerStep, Lock, Check, Join, Start, StartFails, WriteChunk, WriteFails,
    GetReply, ReadChunk, ReadFails, ReadStarves, Failure, Finish, Unlock, Fail, Goto
\* Nobody else is inside: nobody else has a reply or starts a child.
<1>2. Inside(c) => \A d \in Callers \ {c} : pc'[d] # "start" /\ ~HasReply(d) /\ ~HasReply(d)'
  BY <1>1 DEF CallersTakeTurns, Inside, HasReply
<1>3. CASE Call(c) \/ Lock(c) \/ Check(c) \/ WriteChunk(c) \/ Unlock(c)
  <2>1. UNCHANGED <<c2s, s2c, wpc, running, hist>>
    BY <1>3 DEF Call, Lock, Check, WriteChunk, Unlock, syncVars, processVars, workerVars
  <2>2. pc'[c] \notin {"start", "read", "finish"}
    BY <1>3 DEF TypeOK, Call, Lock, Check, WriteChunk, Unlock, Goto
  <2> QED
    BY <1>1, <2>1, <2>2, HandoverFrame DEF HasReply
<1>4. CASE Join(c)
  <2>1. pc[c] = "join" /\ pc'[c] = "start" /\ ~running' /\ (running => wpc = "exited")
        /\ UNCHANGED <<c2s, s2c, wpc, hist, call>>
    BY <1>4 DEF TypeOK, Join, Goto, syncVars, workerVars
  <2>2. \A d \in Callers : HasReply(d)' => HasReply(d)
    BY <1>1, <2>1 DEF HasReply
  <2> QED
    BY <2>1, <2>2 DEF Handover
<1>5. CASE Start(c)
  <2>1. /\ pc[c] = "start" /\ pc'[c] = "head" /\ running' /\ wpc' = "header"
        /\ UNCHANGED <<c2s, s2c, hist>>
    BY <1>5 DEF TypeOK, Start, Goto, syncVars
  <2>2. wpc # "handshake"
    BY <2>1 DEF Handover
  <2>3. \A d \in Callers : ~HasReply(d)'
    BY <1>2, <2>1 DEF HasReply, Inside
  <2>4. \A d \in Callers : pc'[d] # "start"
    BY <1>2, <2>1 DEF Inside
  <2>5. c2s \in {0, 1} /\ s2c \in {0, 1}
    BY DEF TypeOK
  <2> QED
    BY <2>1, <2>2, <2>3, <2>4, <2>5 DEF Handover
<1>6. CASE StartFails(c) \/ WriteFails(c) \/ ReadFails(c) \/ ReadStarves(c)
  <2>1. UNCHANGED <<c2s, s2c, wpc, running>> /\ hist \subseteq hist' /\ pc'[c] = "finish"
        /\ call'[c].took = call[c].took
    BY <1>6 DEF TypeOK, Calls, StartFails, WriteFails, ReadFails, ReadStarves, Failure, Fail, Goto, syncVars,
      processVars, workerVars
  <2>2. HasReply(c)' => HasReply(c)
    BY <1>6, <2>1 DEF HasReply, NoReplyYet, StartFails, WriteFails, ReadFails, ReadStarves
  <2> QED
    BY <1>1, <2>1, <2>2, HandoverFrame
<1>7. CASE ReadChunk(c)
  <2>1. UNCHANGED <<c2s, s2c, wpc, running, hist>> /\ pc[c] = "read"
        /\ pc'[c] \in {"read", "finish"}
    BY <1>7 DEF TypeOK, ReadChunk, Fail, Goto, syncVars, processVars, workerVars
  <2> QED
    BY <1>1, <2>1, HandoverFrame DEF HasReply
<1>8. CASE GetReply(c)
  <2>1. /\ s2c = 1 /\ s2c' = 0 /\ pc[c] = "reply" /\ pc'[c] \in {"read", "finish"}
        /\ UNCHANGED <<c2s, wpc, running, hist>>
    BY <1>8 DEF TypeOK, GetReply, Goto, processVars, workerVars
  <2>2. \A d \in Callers : pc'[d] # "start"
    BY <1>2, <2>1 DEF Inside
  <2>3. "leftover" \notin hist => wpc = "handshake" /\ c2s = 0
    BY <2>1 DEF Handover, TypeOK
  <2> QED
    BY <2>1, <2>2, <2>3 DEF Handover
<1>9. CASE Finish(c)
  <2>1. /\ pc[c] = "finish" /\ pc'[c] = "unlock" /\ c2s' = 1
        /\ hist' = IF call[c].took THEN hist ELSE hist \cup {"leftover"}
        /\ UNCHANGED <<s2c, wpc, running>>
    BY <1>9 DEF TypeOK, Finish, Goto, processVars, workerVars
  <2>2. \A d \in Callers : pc'[d] # "start" /\ ~HasReply(d)'
    BY <1>2, <2>1 DEF Inside, HasReply
  <2>3. "leftover" \notin hist' => wpc = "handshake" /\ s2c = 0
    BY <2>1 DEF Handover, HasReply
  <2> QED
    BY <2>1, <2>2, <2>3 DEF Handover
<1> QED
  BY <1>3, <1>4, <1>5, <1>6, <1>7, <1>8, <1>9 DEF CallerStep

LEMMA WorkerHandover ==
  ASSUME TypeOK, Handover, WorkerStep
  PROVE  Handover'
<1>1. UNCHANGED <<pc, call, running>>
  BY DEF WorkerStep, ReadHeader, HeaderFails, WriteAnswer, AnswerFails, AnswerStarves, Failure, ReadText, TextFails, TextStarves, TextLost,
    Signal, Handshake, WorkerUnlock, callerVars, processVars
<1>2. running /\ hist \subseteq hist'
  BY DEF Handover, WorkerStep, ReadHeader, HeaderFails, WriteAnswer, AnswerFails, AnswerStarves, Failure, ReadText,
    TextFails, TextStarves, TextLost, Signal, Handshake, WorkerUnlock, WorkerGoto, WorkerReturns
<1>3. \A c \in Callers : HasReply(c)' <=> HasReply(c)
  BY <1>1 DEF HasReply
<1>4. c2s \in {0, 1} /\ s2c \in {0, 1}
  BY DEF TypeOK
<1>5. CASE Signal
  <2>1. wpc = "signal" /\ wpc' = "handshake" /\ UNCHANGED <<c2s, hist>>
    BY <1>5 DEF Signal, WorkerGoto
  <2>2. "leftover" \notin hist => c2s = 0 /\ \A c \in Callers : ~HasReply(c)
    BY <1>4, <2>1 DEF Handover
  <2> QED
    BY <1>1, <1>2, <1>3, <2>1, <2>2 DEF Handover
<1>6. CASE Handshake
  <2>1. /\ wpc = "handshake" /\ wpc' = "unlock" /\ c2s = 1 /\ c2s' = 0
        /\ UNCHANGED <<s2c, hist>>
    BY <1>6 DEF Handshake, WorkerGoto
  <2>2. "leftover" \notin hist => s2c = 0 /\ \A c \in Callers : ~HasReply(c)
    BY <2>1 DEF Handover
  <2> QED
    BY <1>1, <1>2, <1>3, <2>1, <2>2 DEF Handover
<1>7. CASE ~Signal /\ ~Handshake
  <2>1. wpc # "handshake" /\ UNCHANGED <<c2s, s2c>>
    BY <1>7 DEF WorkerStep, ReadHeader, HeaderFails, WriteAnswer, AnswerFails, AnswerStarves, Failure, ReadText,
      TextFails, TextStarves, TextLost, WorkerUnlock, syncVars
  <2>2. "leftover" \notin hist => c2s = 0 /\ s2c = 0 /\ \A c \in Callers : ~HasReply(c)
    BY <1>4, <2>1 DEF Handover
  <2> QED
    BY <1>1, <1>2, <1>3, <2>1, <2>2 DEF Handover
<1> QED
  BY <1>5, <1>6, <1>7

LEMMA InitRest == Init => Rest
BY DEF Init, Rest, Owned, Inside, NoReplyYet, Handover, HasReply

LEMMA StepRest ==
  ASSUME TurnsAssumption, HandInv, [Next]_vars
  PROVE  HandInv'
<1>1. Typed /\ TypeOK /\ Owned /\ NoReplyYet /\ Handover
  BY DEF HandInv, Rest, Typed
<1>2. Typed'
  BY <1>1, StepTyped
<1> SUFFICES Rest'
  BY <1>2 DEF HandInv
<1>3. ASSUME NEW c \in Callers, Call(c) \/ CallerStep(c) PROVE Rest'
  BY <1>1, <1>3, OwnedTurns, CallerOwned, CallerNoReplyYet, CallerHandover DEF Rest
<1>4. CASE WorkerStep
  <2>1. NoReplyYet'
    BY <1>1, <1>4 DEF NoReplyYet, WorkerStep, ReadHeader, HeaderFails, WriteAnswer, AnswerFails, AnswerStarves, Failure,
      ReadText, TextFails, TextStarves, TextLost, Signal, Handshake, WorkerUnlock, callerVars
  <2> QED
    BY <1>1, <1>4, <2>1, WorkerOwned, WorkerHandover DEF Rest
<1>5. CASE ChildStep \/ ChildAsks \/ ChildAborts \/ ChildComplains \/ Crash
  BY <1>1, <1>5, RestFrame DEF Rest, ChildStep, ChildReads, ChildReplies, ChildContinues,
    ChildEof, ChildAsks, ChildAborts, Failure, ChildComplains, Crash, Dies, ChildUnchanged,
    callerVars, syncVars, processVars, workerVars
<1>6. CASE Exit
  BY <1>1, <1>6, RestFrame DEF Rest, Exit, callerVars, syncVars, workerVars
<1>7. CASE ExitJoin
  BY <1>1, <1>7 DEF Rest, Owned, Inside, NoReplyYet, Handover, HasReply, ExitJoin, callerVars,
    syncVars, workerVars
<1>8. CASE UNCHANGED vars
  BY <1>1, <1>8, RestFrame DEF Rest, vars, callerVars, syncVars, processVars, workerVars
<1> QED
  BY <1>3, <1>4, <1>5, <1>6, <1>7, <1>8 DEF Next

LEMMA AlwaysHandInv == TurnsAssumption => (Spec => []HandInv)
<1> SUFFICES ASSUME TurnsAssumption PROVE Spec => []HandInv
  OBVIOUS
<1>1. Init => HandInv
  BY InitTyped, InitRest DEF HandInv
<1>2. HandInv /\ [Next]_vars => HandInv'
  BY StepRest
<1> QED
  BY <1>1, <1>2, PTL DEF Spec

\* The hand-over between get_reply, finish_command_process and read_reply.
THEOREM HandedOver == TurnsAssumption => (Spec => []Handover)
<1> SUFFICES ASSUME TurnsAssumption PROVE Spec => []Handover
  OBVIOUS
<1>1. HandInv => Handover
  BY DEF HandInv, Rest
<1> QED
  BY <1>1, AlwaysHandInv, PTL

\* The caller and the worker never read the pipe at the same time.
THEOREM OneReaderOnly == TurnsAssumption => (Spec => []OneReader)
<1> SUFFICES ASSUME TurnsAssumption PROVE Spec => []OneReader
  OBVIOUS
<1>1. HandInv => OneReader
  BY DEF HandInv, Rest, Handover, OneReader, Reading, HasReply
<1> QED
  BY <1>1, AlwaysHandInv, PTL

-----------------------------------------------------------------------------
(* What goes over the pipes.  FramingKept and RepliesMatch need to know    *)
(* where the command, its reply, its payload and the request of the child  *)
(* are, at every moment between head and finish.                           *)

\* Nothing has broken the framing or the hand-over.
Clean == hist \cap {"mixed", "starved", "leftover"} = {}

\* A caller that has sent its command, or a part of it, and has no reply; a caller
\* that uses the pipes.
Out(c) == pc[c] \in {"args", "reply"}
Active(c) == pc[c] \in {"args", "reply", "read"}

\* The pipes are open while a caller uses them, and its command has a number.
Opened ==
  /\ life # "up" => \A c \in Callers : pc[c] = "idle"
  /\ ~handles /\ life = "up" => ~child.alive
  /\ \A c \in Callers : /\ pc[c] \in {"join", "start"} => ~handles
                        /\ pc[c] = "head" \/ Active(c) => handles
                        /\ pc[c] # "idle" => call[c].id # 0

\* The pipe of the commands holds one command at most: its first chunk at lo, unless
\* the child has taken it, then a of its arguments, and left are still to come.
Unsent(left) ==
  /\ \A c \in Callers : pc[c] = "args" => left = call[c].n
  /\ (\A c \in Callers : pc[c] # "args") => left = 0
Stream(lo, a, left) ==
  /\ lo + a <= Len(toChild)
  /\ left > 0 => lo + a = Len(toChild)
  /\ \A i \in 1 .. Len(toChild) :
       /\ toChild[i].k \in {"cmd", "arg", "answer"}
       /\ toChild[i].k = "arg" <=> (lo < i /\ i <= lo + a)
       /\ toChild[i].k = "cmd" => i = lo /\ toChild[i].n = a + left
  /\ child.st = "args" => lo = 0 /\ child.n = a + left
  /\ child.st # "args" /\ a + left > 0 => lo > 0 /\ toChild[lo].k = "cmd"
Framed ==
  /\ child.st # "lost"
  /\ child.alive => \E lo, a, left \in Nat : Unsent(left) /\ Stream(lo, a, left)

\* The request of the child, or its answer, is in one place.
Asking(q) ==
  /\ \A i \in 1 .. Len(fromChild) : fromChild[i].k = "request" => q = "asked"
  /\ handles /\ wpc = "answer" => q = "answering"
  /\ \A i \in 1 .. Len(toChild) : toChild[i].k = "answer" => q = "answered"
  /\ q # "none" => child.asked
  /\ \A i, j \in 1 .. Len(fromChild) :
       fromChild[i].k = "request" /\ fromChild[j].k = "request" => i = j
  /\ \A i, j \in 1 .. Len(toChild) :
       toChild[i].k = "answer" /\ toChild[j].k = "answer" => i = j
Asked == \E q \in {"none", "asked", "answering", "answered"} : Asking(q)

\* The command, or the reply to it, is in one place, and its caller waits for it.
InPipe(i) == child.alive /\ toChild[i].k = "cmd"
AtChild == child.alive /\ child.st \in {"args", "run"}
Own(i) == fromChild[i].k \in {"ok", "err"} /\ fromChild[i].id # 0
AtWorker == wpc \in {"text", "signal"} /\ wrep.rep.id # 0
Handed == s2c = 1 /\ reply.id # 0
At(s) ==
  /\ \A i \in 1 .. Len(toChild) : InPipe(i) => s = "sent"
  /\ AtChild => s = "child"
  /\ handles => \A i \in 1 .. Len(fromChild) : Own(i) => s = "back"
  /\ handles /\ AtWorker => s = "worker"
  /\ handles /\ Handed => s = "handed"
  /\ s # "none" => \E c \in Callers : Out(c)
  /\ s \in {"back", "worker", "handed"} => \E c \in Callers : pc[c] = "reply"
  /\ \A i, j \in 1 .. Len(fromChild) : Own(i) /\ Own(j) => i = j
Places == {"none", "sent", "child", "back", "worker", "handed"}
OnePlace == \E s \in Places : At(s)

\* It carries the number of that caller's command.
Same(c) ==
  /\ \A i \in 1 .. Len(toChild) :
       InPipe(i) => toChild[i].id = call[c].id /\ toChild[i].p = call[c].p
  /\ AtChild => child.id = call[c].id /\ child.p = call[c].p
  /\ handles => \A i \in 1 .. Len(fromChild) : Own(i) => fromChild[i].id = call[c].id
  /\ handles /\ AtWorker => wrep.rep.id = call[c].id
  /\ handles /\ Handed => reply.id = call[c].id
Numbered == \A c \in Callers : Out(c) => Same(c)

\* The pipe of the replies holds the payload of one command at most: d chunks of f,
\* of command g, after the reply at lo, or for the caller that has or gets the reply.
\* What is missing is still with the child, or lost with it.
Given == (wpc = "signal" /\ wrep.rep.ok) \/ (s2c = 1 /\ reply.ok)
Reader(c) == pc[c] = "read" \/ (pc[c] = "reply" /\ Given)
Front(f, g) ==
  /\ \A c \in Callers : Reader(c) => f = call[c].p /\ g = call[c].id
  /\ (\A c \in Callers : ~Reader(c)) => f = 0
Payload(lo, d, f, g) ==
  /\ lo + d <= Len(fromChild)
  /\ \A i \in 1 .. Len(fromChild) :
       /\ fromChild[i].k \in {"request", "ok", "err", "text", "data"}
       /\ fromChild[i].k = "data" <=> (lo < i /\ i <= lo + d)
       /\ fromChild[i].k = "data" => fromChild[i].id = g
       /\ fromChild[i].k = "ok" => i = lo /\ fromChild[i].id # 0
  /\ lo > 0 => /\ fromChild[lo].k = "ok"
               /\ \A c \in Callers : Out(c) => f = call[c].p /\ g = call[c].id
  /\ lo = 0 => Front(f, g)
  /\ d <= f
  /\ d < f => lo + d = Len(fromChild)
  /\ child.alive => IF child.st = "data" THEN d < f /\ child.p = f - d /\ child.id = g
                                         ELSE d = f
Paid == handles => \E lo, d, f, g \in Nat : Payload(lo, d, f, g)

\* The text of an error follows it, and nothing else is a text.
TextDue(i) == IF i = 0 THEN wpc = "text" ELSE fromChild[i].k = "err"
Texts ==
  handles =>
    /\ \A i \in 1 .. Len(fromChild) : fromChild[i].k = "text" <=> TextDue(i - 1)
    /\ child.alive => (TextDue(Len(fromChild)) <=> child.st \in {"text", "abort"})
    /\ wpc = "text" => ~wrep.rep.ok

\* The error of a child that gives up is the last it sends.
Gone(i) ==
  /\ "aborted" \in hist /\ child.st = "abort"
  /\ \A j \in 1 .. Len(fromChild) : j > i => fromChild[j].k = "text"
  /\ i < Len(fromChild) => ~child.alive
Lost(ok) == Gone(0) /\ ~child.alive /\ (ok => "swallowed" \in hist)
Aborts ==
  handles =>
    /\ \A i \in 1 .. Len(fromChild) : fromChild[i].k = "err" /\ fromChild[i].id = 0 => Gone(i)
    /\ wpc = "text" /\ wrep.rep.id = 0 => Gone(0)
    /\ wpc = "signal" /\ wrep.rep.id = 0 => Lost(wrep.rep.ok)
    /\ s2c = 1 /\ reply.id = 0 => Lost(reply.ok)

\* What a caller has taken is its own.
Matches(c) ==
  Inside(c) /\ call[c].took =>
    \/ call[c].got = call[c].id
    \/ "aborted" \in hist /\ call[c].got = 0 /\ (call[c].err \/ "swallowed" \in hist)
Matched == \A c \in Callers : Matches(c)

Talk == /\ Framed /\ Asked /\ OnePlace /\ Numbered /\ Paid /\ Texts /\ Aborts
        /\ Matched
Base == HandInv /\ CallersTakeTurns /\ Opened /\ Clean
TalkInv == HandInv /\ Opened /\ (Clean => Talk)

-----------------------------------------------------------------------------
\* The chunks of a pipe after one is taken or added.
LEMMA TailIs ==
  ASSUME NEW s \in Seq(Chunks), s # <<>>
  PROVE  /\ Len(s) \in Nat /\ Len(s) > 0 /\ Len(Tail(s)) = Len(s) - 1 /\ Head(s) = s[1]
         /\ \A i \in 1 .. Len(Tail(s)) : i + 1 \in 1 .. Len(s) /\ Tail(s)[i] = s[i + 1]
OBVIOUS

LEMMA AppendIs ==
  ASSUME NEW s \in Seq(Chunks), NEW m \in Chunks
  PROVE  /\ Len(s) \in Nat /\ Len(Append(s, m)) = Len(s) + 1 /\ Append(s, m)[Len(s) + 1] = m
         /\ \A i \in 1 .. Len(s) : Append(s, m)[i] = s[i]
OBVIOUS

\* What the hand-over says while nothing is broken.
LEMMA BaseFacts ==
  ASSUME Base
  PROVE  /\ TypeOK /\ Counters
         /\ s2c = 1 => wpc = "handshake"
         /\ \A c \in Callers : pc[c] = "read" => wpc = "handshake" /\ s2c = 0
         /\ \A c, d \in Callers : Inside(c) /\ Inside(d) => c = d
         /\ Len(toChild) \in Nat /\ Len(fromChild) \in Nat
BY DEF Base, HandInv, Rest, Typed, TypeOK, Handover, HasReply, Clean, CallersTakeTurns

\* Steps that leave the pipes, the child and the callers that use them as they are.
Quiet ==
  /\ UNCHANGED <<toChild, fromChild, child, s2c, reply, wrep>>
  /\ handles' => handles
  /\ hist \subseteq hist'
  /\ \/ wpc' = wpc
     \/ wpc \notin {"text", "signal"} /\ wpc' \notin {"text", "signal", "answer"}
  /\ \A c \in Callers : /\ Active(c)' <=> Active(c)
                        /\ Active(c) => pc'[c] = pc[c] /\ call'[c] = call[c]

LEMMA FramedFrame ==
  ASSUME Framed, child'.st # "lost",
         child'.alive => /\ UNCHANGED toChild /\ child.alive
                         /\ child'.st = "args" <=> child.st = "args"
                         /\ child'.n = child.n
                         /\ \A c \in Callers : /\ pc'[c] = "args" <=> pc[c] = "args"
                                               /\ pc[c] = "args" => call'[c].n = call[c].n
  PROVE  Framed'
<1> SUFFICES ASSUME child'.alive PROVE \E lo, a, left \in Nat : Unsent(left)' /\ Stream(lo, a, left)'
  BY DEF Framed
<1>1. PICK lo, a, left \in Nat : Unsent(left) /\ Stream(lo, a, left)
  BY DEF Framed
<1>2. Unsent(left)'
  BY <1>1 DEF Unsent
<1>3. Stream(lo, a, left)'
  BY <1>1 DEF Stream
<1> QED
  BY <1>2, <1>3

LEMMA QuietTalk ==
  ASSUME Base, Talk, Quiet, Clean', Matched'
  PROVE  Talk'
<1>1. Framed'
  <2>1. child.st # "lost"
    BY DEF Talk, Framed
  <2>2. \A c \in Callers : /\ pc'[c] = "args" <=> pc[c] = "args"
                           /\ pc[c] = "args" => call'[c].n = call[c].n
    BY DEF Quiet, Active
  <2> QED
    BY <2>1, <2>2, FramedFrame DEF Talk, Quiet
<1>2. Asked'
  BY DEF Talk, Asked, Asking, Quiet
<1>3. OnePlace'
  BY DEF Talk, OnePlace, At, Quiet, Out, Active, InPipe, AtChild, Own, AtWorker, Handed
<1>4. Numbered'
  BY DEF Talk, Numbered, Same, Quiet, Out, Active, InPipe, AtChild, Own, AtWorker, Handed
<1>5. Given' <=> Given
  BY DEF Given, Quiet
<1>6. \A c \in Callers : Reader(c)' <=> Reader(c)
  BY <1>5 DEF Quiet, Reader, Active
<1>7. Paid'
  <2> SUFFICES ASSUME handles' PROVE \E lo, d, f, g \in Nat : Payload(lo, d, f, g)'
    BY DEF Paid
  <2>1. PICK lo, d, f, g \in Nat : Payload(lo, d, f, g)
    BY DEF Talk, Paid, Quiet
  <2>2. Front(f, g) => Front(f, g)'
    BY <1>6 DEF Quiet, Front, Reader, Active
  <2>3. Payload(lo, d, f, g)'
    BY <2>1, <2>2 DEF Payload, Quiet, Out, Active
  <2> QED
    BY <2>3
<1>8. Texts'
  BY DEF Talk, Texts, TextDue, Quiet
<1>9. Aborts'
  BY DEF Talk, Aborts, Gone, Lost, Quiet
<1> QED
  BY <1>1, <1>2, <1>3, <1>4, <1>7, <1>8, <1>9 DEF Talk

LEMMA MatchedFrame ==
  ASSUME Matched, UNCHANGED <<pc, call>>, hist \subseteq hist'
  PROVE  Matched'
BY DEF Matched, Matches, Inside

LEMMA AskedFrame ==
  ASSUME Asked, UNCHANGED <<toChild, fromChild>>, child'.asked = child.asked,
         handles' /\ wpc' = "answer" => handles /\ wpc = "answer"
  PROVE  Asked'
BY DEF Asked, Asking

LEMMA TextsFrame ==
  ASSUME Texts,
         handles' => /\ handles /\ UNCHANGED <<fromChild, wrep>>
                     /\ wpc' = "text" <=> wpc = "text"
                     /\ child'.alive => /\ child.alive
                                        /\ child'.st \in {"text", "abort"} <=> child.st \in {"text", "abort"}
  PROVE  Texts'
BY DEF Texts, TextDue

LEMMA AbortsFrame ==
  ASSUME Aborts, hist \subseteq hist',
         handles' => /\ handles /\ UNCHANGED <<fromChild, wrep>>
                     /\ child.st = "abort" => child'.st = "abort"
                     /\ child'.alive => child.alive
                     /\ wpc' = "text" => wpc = "text"
                     /\ wpc' = "signal" => wpc = "signal"
                     /\ s2c' = 1 => s2c = 1 /\ reply' = reply
  PROVE  Aborts'
BY DEF Aborts, Gone, Lost

\* A new child finds nothing in the pipes, and no reply waits for anybody.
LEMMA StartTalk ==
  ASSUME Base, Talk, NEW c \in Callers, Start(c)
  PROVE  Talk'
<1>1. /\ pc[c] = "start" /\ handles' /\ wpc' = "header"
      /\ toChild' = <<>> /\ fromChild' = <<>> /\ child' = NewChild
      /\ UNCHANGED <<call, s2c, reply, hist>> /\ pc' = [pc EXCEPT ![c] = "head"]
  BY DEF Start, Goto, syncVars
<1>2. s2c = 0
  <2>1. wpc # "handshake"
    BY <1>1 DEF Base, HandInv, Rest, Handover
  <2> QED
    BY <2>1, BaseFacts DEF TypeOK
<1>3. \A d \in Callers : pc'[d] \in {"idle", "lock", "head"}
  BY <1>1, BaseFacts DEF TypeOK, Inside
<1>4. Len(toChild') = 0 /\ Len(fromChild') = 0
  BY <1>1
<1>5. child'.alive /\ child'.st = "idle" /\ ~child'.asked
  BY <1>1 DEF NewChild
<1>6. Framed'
  <2>1. Unsent(0)' /\ Stream(0, 0, 0)'
    BY <1>3, <1>4, <1>5 DEF Unsent, Stream
  <2> QED
    BY <2>1, <1>5 DEF Framed
<1>7. Asked'
  BY <1>1, <1>4 DEF Asked, Asking
<1>8. OnePlace'
  <2>1. At("none")'
    BY <1>1, <1>2, <1>4, <1>5 DEF At, AtChild, AtWorker, Handed
  <2> QED
    BY <2>1 DEF OnePlace, Places
<1>9. Numbered'
  BY <1>3 DEF Numbered, Out
<1>10. Paid'
  <2>1. Front(0, 0)'
    BY <1>3 DEF Front, Reader
  <2>2. Payload(0, 0, 0, 0)'
    BY <2>1, <1>4, <1>5 DEF Payload
  <2> QED
    BY <2>2 DEF Paid
<1>11. Texts'
  BY <1>1, <1>4, <1>5 DEF Texts, TextDue
<1>12. Aborts'
  BY <1>1, <1>2, <1>4 DEF Aborts
<1>13. Matched'
  <2>1. \A d \in Callers : Inside(d)' => d = c
    BY <1>1, BaseFacts DEF TypeOK, Inside
  <2>2. ~call[c].took
    BY <1>1 DEF Base, HandInv, Rest, NoReplyYet
  <2> QED
    BY <1>1, <2>1, <2>2 DEF Matched, Matches
<1> QED
  BY <1>6, <1>7, <1>8, <1>9, <1>10, <1>11, <1>12, <1>13 DEF Talk

\* The child is dead: the caller gives up.
LEMMA GiveUpTalk ==
  ASSUME Base, Talk, NEW c \in Callers, WriteFails(c) \/ ReadFails(c)
  PROVE  Talk'
<1>1. /\ ~child.alive /\ pc'[c] = "finish"
      /\ pc[c] \in {"head", "args", "read"}
      /\ call'[c].took = call[c].took /\ call'[c].got = call[c].got
      /\ call'[c].id = call[c].id /\ call'[c].err
      /\ pc[c] = "read" => fromChild = <<>>
      /\ \A d \in Callers \ {c} : pc'[d] = pc[d] /\ call'[d] = call[d]
      /\ UNCHANGED <<s2c, reply, wpc, wrep, handles, toChild, fromChild, child, hist>>
  BY BaseFacts DEF WriteFails, ReadFails, Fail, Goto, TypeOK, Calls, syncVars, processVars,
    workerVars, pipeVars, childVars
<1>2. \A d \in Callers \ {c} : ~Inside(d)
  BY <1>1, BaseFacts DEF Inside
<1>3. \A d \in Callers : ~Out(d)' /\ ~Reader(d)'
  BY <1>1, <1>2 DEF Out, Inside, Reader
<1>4. Framed'
  BY <1>1, FramedFrame DEF Talk, Framed
<1>5. Asked'
  BY <1>1, AskedFrame DEF Talk
<1>6. OnePlace'
  <2>1. PICK s \in Places : At(s)
    BY DEF Talk, OnePlace
  <2>2. s \notin {"back", "worker", "handed"}
    BY <2>1, <1>1, <1>2 DEF At, Inside
  <2>3. At("none")'
    BY <2>1, <2>2, <1>1 DEF At, InPipe, AtChild, Own, AtWorker, Handed
  <2> QED
    BY <2>3 DEF OnePlace, Places
<1>7. Numbered'
  BY <1>3 DEF Numbered
<1>8. Paid'
  <2> SUFFICES ASSUME handles' PROVE \E lo, d, f, g \in Nat : Payload(lo, d, f, g)'
    BY DEF Paid
  <2>1. PICK lo, d, f, g \in Nat : Payload(lo, d, f, g)
    BY <1>1 DEF Talk, Paid
  <2>2. CASE pc[c] = "read"
    <3>1. Len(fromChild') = 0
      BY <1>1, <2>2
    <3>2. Payload(0, 0, 0, 0)'
      BY <1>1, <1>3, <3>1 DEF Payload, Front
    <3> QED
      BY <3>2
  <2>3. CASE pc[c] # "read"
    <3>1. \A e \in Callers : ~Reader(e)
      BY <1>1, <1>2, <2>3 DEF Reader, Inside
    <3>2. Front(f, g) => Front(f, g)'
      BY <3>1, <1>3 DEF Front
    <3>3. Payload(lo, d, f, g)'
      BY <1>1, <1>3, <2>1, <3>2 DEF Payload
    <3> QED
      BY <3>3
  <2> QED
    BY <2>2, <2>3
<1>9. Texts'
  BY <1>1, TextsFrame DEF Talk
<1>10. Aborts'
  BY <1>1, AbortsFrame DEF Talk
<1>11. Matched'
  BY <1>1 DEF Talk, Matched, Matches, Inside
<1> QED
  BY <1>4, <1>5, <1>6, <1>7, <1>8, <1>9, <1>10, <1>11 DEF Talk

\* A reply without a number, for a caller in get_reply: of the child that gave up.
LEMMA HandedFacts ==
  ASSUME Base, Talk, NEW c \in Callers, pc[c] = "reply", s2c = 1
  PROVE  /\ \A i \in 1 .. Len(toChild) : ~InPipe(i)
         /\ ~AtChild
         /\ \A i \in 1 .. Len(fromChild) : ~Own(i)
         /\ reply.id = 0 => Lost(reply.ok)
         /\ reply.id # 0 => reply.id = call[c].id
<1>1. handles
  BY DEF Base, Opened, Active
<1>2. CASE reply.id = 0
  <2>1. Lost(reply.ok)
    BY <1>1, <1>2 DEF Talk, Aborts
  <2>2. ~child.alive /\ \A i \in 1 .. Len(fromChild) : fromChild[i].k = "text"
    BY <2>1 DEF Lost, Gone
  <2> QED
    BY <1>2, <2>1, <2>2 DEF InPipe, AtChild, Own
<1>3. CASE reply.id # 0
  <2>1. PICK s \in Places : At(s)
    BY DEF Talk, OnePlace
  <2>2. s = "handed"
    BY <2>1, <1>1, <1>3 DEF At, Handed
  <2>3. Same(c)
    BY DEF Talk, Numbered, Out
  <2> QED
    BY <1>1, <1>3, <2>1, <2>2, <2>3 DEF At, Same, Handed
<1> QED
  BY <1>2, <1>3

\* get_reply takes the reply of its own command, or of a child that gave up.
LEMMA GetReplyTalk ==
  ASSUME Base, Talk, NEW c \in Callers, GetReply(c)
  PROVE  Talk'
<1>1. /\ pc[c] = "reply" /\ s2c = 1 /\ s2c' = 0
      /\ pc'[c] = IF reply.ok /\ call[c].p > 0 THEN "read" ELSE "finish"
      /\ call'[c].took /\ call'[c].got = reply.id /\ call'[c].err = ~reply.ok
      /\ call'[c].id = call[c].id /\ call'[c].p = call[c].p
      /\ \A d \in Callers \ {c} : pc'[d] = pc[d] /\ call'[d] = call[d]
      /\ UNCHANGED <<wpc, wrep, handles, toChild, fromChild, child, hist>>
  BY BaseFacts DEF GetReply, Goto, TypeOK, Calls, processVars, workerVars, pipeVars, childVars
<1>2. wpc = "handshake" /\ \A d \in Callers \ {c} : ~Inside(d)
  BY <1>1, BaseFacts DEF Inside
<1>3. \A d \in Callers : ~Out(d)'
  BY <1>1, <1>2 DEF Out, Inside
<1>4. Framed'
  <2>1. \A d \in Callers : pc'[d] # "args" /\ pc[d] # "args"
    BY <1>1, <1>2 DEF Inside
  <2> QED
    BY <1>1, <2>1, FramedFrame DEF Talk, Framed
<1>5. Asked'
  BY <1>1, AskedFrame DEF Talk
<1>6. OnePlace'
  <2>1. \A i, j \in 1 .. Len(fromChild) : Own(i) /\ Own(j) => i = j
    BY <1>1, HandedFacts
  <2>2. At("none")'
    BY <1>1, <1>2, <2>1, HandedFacts DEF At, InPipe, AtChild, Own, AtWorker, Handed
  <2> QED
    BY <2>2 DEF OnePlace, Places
<1>7. Numbered'
  BY <1>3 DEF Numbered
<1>8. Paid'
  <2> SUFFICES ASSUME handles' PROVE \E lo, d, f, g \in Nat : Payload(lo, d, f, g)'
    BY DEF Paid
  <2>1. PICK lo, d, f, g \in Nat : Payload(lo, d, f, g)
    BY <1>1 DEF Talk, Paid
  <2>2. lo = 0
    <3>1. lo > 0 => lo \in 1 .. Len(fromChild) /\ Own(lo)
      BY <2>1, BaseFacts DEF Payload, Own
    <3> QED
      BY <1>1, <3>1, HandedFacts
  <2>3. \A e \in Callers : Reader(e) <=> (e = c /\ reply.ok)
    BY <1>1, <1>2 DEF Reader, Given, Inside
  <2>4. \A e \in Callers : Reader(e)' <=> (e = c /\ reply.ok /\ call[c].p > 0)
    BY <1>1, <1>2 DEF Reader, Given, Inside
  <2>5. call[c].p \in Nat
    BY BaseFacts DEF TypeOK, Calls
  <2>6. Front(f, g)'
    <3>1. Front(f, g)
      BY <2>1, <2>2 DEF Payload
    <3> QED
      BY <1>1, <2>3, <2>4, <2>5, <3>1 DEF Front
  <2>7. Payload(lo, d, f, g)'
    BY <1>1, <2>1, <2>2, <2>6 DEF Payload
  <2> QED
    BY <2>7
<1>9. Texts'
  BY <1>1, TextsFrame DEF Talk
<1>10. Aborts'
  BY <1>1, AbortsFrame DEF Talk
<1>11. Matched'
  <2>1. Matches(c)'
    BY <1>1, HandedFacts DEF Matches, Lost, Gone
  <2> QED
    BY <1>1, <2>1 DEF Talk, Matched, Matches, Inside
<1> QED
  BY <1>4, <1>5, <1>6, <1>7, <1>8, <1>9, <1>10, <1>11 DEF Talk

\* The first chunk of the replies is taken.
LEMMA GoneTail ==
  ASSUME fromChild \in Seq(Chunks), fromChild # <<>>, fromChild' = Tail(fromChild),
         UNCHANGED child, hist \subseteq hist',
         NEW i \in Nat, Gone(i + 1)
  PROVE  Gone(i)'
BY TailIs DEF Gone

LEMMA TextsTail ==
  ASSUME Texts, fromChild \in Seq(Chunks), fromChild # <<>>, fromChild' = Tail(fromChild),
         UNCHANGED <<child, handles>>,
         wpc' = "text" <=> Head(fromChild).k = "err",
         wpc' = "text" => ~wrep'.rep.ok
  PROVE  Texts'
<1> SUFFICES ASSUME handles PROVE Texts'
  BY DEF Texts
<1>1. /\ \A i \in 1 .. Len(fromChild) : fromChild[i].k = "text" <=> TextDue(i - 1)
      /\ child.alive => (TextDue(Len(fromChild)) <=> child.st \in {"text", "abort"})
  BY DEF Texts
<1>2. \A i \in 0 .. Len(fromChild') : TextDue(i)' <=> TextDue(i + 1)
  BY TailIs DEF TextDue
<1>3. \A i \in 1 .. Len(fromChild') : fromChild'[i].k = "text" <=> TextDue(i - 1)'
  <2> TAKE i \in 1 .. Len(fromChild')
  <2>1. i + 1 \in 1 .. Len(fromChild) /\ fromChild'[i] = fromChild[i + 1]
    BY TailIs
  <2>2. fromChild[i + 1].k = "text" <=> TextDue(i)
    BY <1>1, <2>1
  <2>3. i - 1 \in 0 .. Len(fromChild') /\ i - 1 + 1 = i
    BY TailIs
  <2> QED
    BY <1>2, <2>1, <2>2, <2>3
<1>4. TextDue(Len(fromChild))' <=> TextDue(Len(fromChild))
  <2>1. Len(fromChild') \in 0 .. Len(fromChild') /\ Len(fromChild') + 1 = Len(fromChild)
    BY TailIs
  <2> QED
    BY <1>2, <2>1
<1> QED
  BY <1>1, <1>3, <1>4 DEF Texts

LEMMA AskedTail ==
  ASSUME Asked, fromChild \in Seq(Chunks), fromChild # <<>>, fromChild' = Tail(fromChild),
         UNCHANGED <<toChild, child, handles>>, wpc' = "answer" /\ handles => wpc = "answer"
  PROVE  Asked'
<1>1. PICK q \in {"none", "asked", "answering", "answered"} : Asking(q)
  BY DEF Asked
<1>2. /\ \A i \in 1 .. Len(fromChild') : fromChild'[i].k = "request" => q = "asked"
      /\ \A i, j \in 1 .. Len(fromChild') :
           fromChild'[i].k = "request" /\ fromChild'[j].k = "request" => i = j
  <2>1. \A i \in 1 .. Len(fromChild') : i + 1 \in 1 .. Len(fromChild) /\ fromChild'[i] = fromChild[i + 1]
    BY TailIs
  <2>2. \A i, j \in 1 .. Len(fromChild') : i + 1 = j + 1 => i = j
    OBVIOUS
  <2> QED
    BY <1>1, <2>1, <2>2 DEF Asking
<1>3. Asking(q)'
  BY <1>1, <1>2 DEF Asking
<1> QED
  BY <1>3 DEF Asked

\* A caller that reads finds its own payload.
LEMMA ReadFacts ==
  ASSUME Base, Talk, NEW c \in Callers, pc[c] = "read", fromChild # <<>>
  PROVE  /\ \A i \in 1 .. Len(fromChild) : ~Own(i)
         /\ \A i \in 1 .. Len(toChild) : ~InPipe(i)
         /\ ~AtChild /\ ~Handed
         /\ \E d, f, g \in Nat : d > 0 /\ Payload(0, d, f, g) /\ f = call[c].p
         /\ Head(fromChild).k = "data" /\ Head(fromChild).id = call[c].id
<1>1. handles /\ \A d \in Callers \ {c} : ~Inside(d)
  BY BaseFacts DEF Base, Opened, Active, Inside
<1>2. PICK s \in Places : At(s)
  BY DEF Talk, OnePlace
<1>3. s = "none"
  BY <1>1, <1>2 DEF At, Out, Inside, Places
<1>4. \A i \in 1 .. Len(fromChild) : ~Own(i)
  BY <1>1, <1>2, <1>3 DEF At
<1>5. PICK lo, d, f, g \in Nat : Payload(lo, d, f, g)
  BY <1>1 DEF Talk, Paid
<1>6. lo = 0
  <2> SUFFICES ASSUME lo > 0 PROVE FALSE
    OBVIOUS
  <2>1. lo \in 1 .. Len(fromChild) /\ fromChild[lo].k = "ok"
    BY <1>5, BaseFacts DEF Payload
  <2>2. Own(lo)
    BY <1>5, <2>1 DEF Payload, Own
  <2> QED
    BY <1>4, <2>1, <2>2
<1>7. f = call[c].p /\ g = call[c].id
  BY <1>5, <1>6 DEF Payload, Front, Reader
<1>8. call[c].p > 0
  BY BaseFacts DEF Counters
<1>9. fromChild \in Seq(Chunks)
  BY BaseFacts DEF TypeOK
<1>10. d > 0
  BY <1>5, <1>6, <1>7, <1>8, <1>9, TailIs DEF Payload
<1>11. Head(fromChild).k = "data" /\ Head(fromChild).id = call[c].id
  BY <1>5, <1>6, <1>7, <1>9, <1>10, TailIs DEF Payload
<1> QED
  BY <1>1, <1>2, <1>3, <1>4, <1>5, <1>6, <1>7, <1>10, <1>11 DEF At

LEMMA ReadChunkTalk ==
  ASSUME Base, Talk, NEW c \in Callers, ReadChunk(c)
  PROVE  Talk'
<1>1. pc[c] = "read" /\ fromChild # <<>> /\ fromChild' = Tail(fromChild)
      /\ UNCHANGED <<s2c, reply, wpc, wrep, handles, toChild, child, hist>>
      /\ fromChild \in Seq(Chunks)
  BY BaseFacts DEF TypeOK, ReadChunk, syncVars, processVars, workerVars, childVars
<1>2. /\ wpc = "handshake" /\ s2c = 0
      /\ \A d \in Callers \ {c} : ~Inside(d)
  BY <1>1, BaseFacts DEF Inside
<1>3. Head(fromChild).k = "data" /\ Head(fromChild).id = call[c].id
  BY <1>1, ReadFacts
<1>4. /\ call'[c].p = call[c].p - 1
      /\ call'[c].took = call[c].took /\ call'[c].got = call[c].got
      /\ call'[c].id = call[c].id /\ call'[c].err = call[c].err
      /\ pc'[c] = IF call[c].p - 1 = 0 THEN "finish" ELSE "read"
      /\ \A d \in Callers \ {c} : pc'[d] = pc[d] /\ call'[d] = call[d]
  <2>1. call' = [call EXCEPT ![c].p = call[c].p - 1, ![c].got = call[c].got]
    BY <1>3 DEF ReadChunk
  <2>2. pc' = [pc EXCEPT ![c] = IF call[c].p - 1 = 0 THEN "finish" ELSE "read"]
    BY <1>3 DEF ReadChunk, Goto
  <2> QED
    BY <2>1, <2>2, BaseFacts DEF TypeOK, Calls
<1>5. \A d \in Callers : ~Out(d)' /\ pc'[d] # "args" /\ pc[d] # "args"
  BY <1>1, <1>2, <1>4 DEF Out, Inside
<1>6. Framed'
  BY <1>1, <1>5, FramedFrame DEF Talk, Framed
<1>7. Asked'
  BY <1>1, AskedTail DEF Talk
<1>8. OnePlace'
  <2>1. \A i \in 1 .. Len(fromChild') : ~Own(i)'
    BY <1>1, ReadFacts, TailIs DEF Own
  <2>2. At("none")'
    BY <1>1, <1>2, <2>1, ReadFacts DEF At, InPipe, AtChild, AtWorker, Handed
  <2> QED
    BY <2>2 DEF OnePlace, Places
<1>9. Numbered'
  BY <1>5 DEF Numbered
<1>10. Paid'
  <2>1. PICK d, f, g \in Nat : d > 0 /\ Payload(0, d, f, g) /\ f = call[c].p
    BY <1>1, ReadFacts
  <2>2. g = call[c].id
    BY <1>1, <2>1 DEF Payload, Front, Reader
  <2>3. f - 1 \in Nat /\ d - 1 \in Nat
    BY <2>1 DEF Payload
  <2>4. \A e \in Callers : Reader(e)' => e = c
    BY <1>1, <1>2, <1>4 DEF Reader, Inside
  <2>5. Reader(c)' <=> f - 1 > 0
    BY <1>4, <2>1, <2>3 DEF Reader
  <2>6. Front(f - 1, g)'
    BY <1>4, <2>1, <2>2, <2>3, <2>4, <2>5 DEF Front
  <2>7. Payload(0, d - 1, f - 1, g)'
    <3>1. \A i \in 1 .. Len(fromChild') :
            /\ fromChild'[i].k \in {"request", "ok", "err", "text", "data"}
            /\ fromChild'[i].k = "data" <=> (0 < i /\ i <= 0 + (d - 1))
            /\ fromChild'[i].k = "data" => fromChild'[i].id = g
            /\ fromChild'[i].k # "ok"
      BY <1>1, <2>1, TailIs DEF Payload
    <3>2. d - 1 <= Len(fromChild') /\ (d < f => d - 1 = Len(fromChild'))
      BY <1>1, <2>1, TailIs DEF Payload
    <3>3. child'.alive => IF child'.st = "data" THEN d - 1 < f - 1 /\ child'.p = (f - 1) - (d - 1) /\ child'.id = g
                                               ELSE d - 1 = f - 1
      BY <1>1, <2>1, <2>3 DEF Payload
    <3>4. d - 1 <= f - 1
      BY <2>1, <2>3 DEF Payload
    <3> QED
      BY <2>3, <2>6, <3>1, <3>2, <3>3, <3>4 DEF Payload
  <2> QED
    BY <2>3, <2>7 DEF Paid
<1>11. Texts'
  BY <1>1, <1>2, <1>3, TextsTail DEF Talk
<1>12. Aborts'
  <2> SUFFICES ASSUME handles PROVE Aborts'
    BY <1>1 DEF Aborts
  <2>1. ASSUME NEW i \in 1 .. Len(fromChild'), fromChild'[i].k = "err", fromChild'[i].id = 0
        PROVE  Gone(i)'
    <3>1. Gone(i + 1)
      BY <1>1, <2>1, TailIs DEF Talk, Aborts
    <3> QED
      BY <1>1, <3>1, GoneTail
  <2> QED
    BY <1>1, <1>2, <2>1 DEF Aborts
<1>13. Matched'
  BY <1>1, <1>4 DEF Talk, Matched, Matches, Inside
<1> QED
  BY <1>6, <1>7, <1>8, <1>9, <1>10, <1>11, <1>12, <1>13 DEF Talk

\* While the child lives and a caller sends, no reply is on its way.
LEMMA SendFacts ==
  ASSUME Base, Talk, NEW c \in Callers, pc[c] \in {"head", "args"}, child.alive
  PROVE  /\ ~Given
         /\ \A i \in 1 .. Len(fromChild) : ~Own(i)
         /\ \A d \in Callers \ {c} : ~Inside(d)
<1>1. handles /\ \A d \in Callers \ {c} : ~Inside(d)
  BY BaseFacts DEF Base, Opened, Active, Inside
<1>2. PICK s \in Places : At(s)
  BY DEF Talk, OnePlace
<1>3. s \notin {"back", "worker", "handed"}
  BY <1>1, <1>2 DEF At, Inside
<1>4. ~(wpc = "signal" /\ wrep.rep.ok)
  <2>1. wpc = "signal" => wrep.rep.id = 0
    BY <1>1, <1>2, <1>3 DEF At, AtWorker
  <2> QED
    BY <1>1, <2>1 DEF Talk, Aborts, Lost
<1>5. ~(s2c = 1 /\ reply.ok)
  <2>1. s2c = 1 => reply.id = 0
    BY <1>1, <1>2, <1>3 DEF At, Handed
  <2> QED
    BY <1>1, <2>1 DEF Talk, Aborts, Lost
<1> QED
  BY <1>1, <1>2, <1>3, <1>4, <1>5 DEF Given, At

\* What does not depend on whether the chunk is the first of the command.
LEMMA SendTalk ==
  ASSUME Base, Talk, NEW c \in Callers, pc[c] \in {"head", "args"}, child.alive,
         NEW m \in Chunks, m.k \in {"cmd", "arg"}, toChild' = Append(toChild, m),
         pc'[c] \in {"args", "reply"},
         call'[c].took = call[c].took, call'[c].got = call[c].got, call'[c].id = call[c].id,
         call'[c].p = call[c].p, call'[c].err = call[c].err,
         \A d \in Callers \ {c} : pc'[d] = pc[d] /\ call'[d] = call[d],
         UNCHANGED <<s2c, reply, wpc, wrep, handles, fromChild, child, hist>>
  PROVE  Asked' /\ Paid' /\ Texts' /\ Aborts' /\ Matched'
<1>1. Asked'
  <2>1. PICK q \in {"none", "asked", "answering", "answered"} : Asking(q)
    BY DEF Talk, Asked
  <2>2. \A i \in 1 .. Len(toChild') : toChild'[i].k = "answer" => i \in 1 .. Len(toChild) /\ toChild'[i] = toChild[i]
    BY AppendIs, BaseFacts DEF TypeOK
  <2>3. Asking(q)'
    BY <2>1, <2>2 DEF Asking
  <2> QED
    BY <2>3 DEF Asked
<1>2. Paid'
  <2> SUFFICES ASSUME handles PROVE \E lo, d, f, g \in Nat : Payload(lo, d, f, g)'
    BY DEF Paid
  <2>1. PICK lo, d, f, g \in Nat : Payload(lo, d, f, g)
    BY DEF Talk, Paid
  <2>2. lo = 0
    <3> SUFFICES ASSUME lo > 0 PROVE FALSE
      OBVIOUS
    <3>1. lo \in 1 .. Len(fromChild) /\ fromChild[lo].k = "ok"
      BY <2>1, BaseFacts DEF Payload
    <3>2. Own(lo)
      BY <2>1, <3>1 DEF Payload, Own
    <3> QED
      BY <3>1, <3>2, SendFacts
  <2>3. ~Given' /\ ~Given
    BY SendFacts DEF Given
  <2>4. \A e \in Callers : ~Reader(e) /\ ~Reader(e)'
    BY <2>3, SendFacts DEF Reader, Inside
  <2>5. Front(f, g)'
    BY <2>1, <2>2, <2>4 DEF Payload, Front
  <2>6. Payload(lo, d, f, g)'
    BY <2>1, <2>2, <2>5 DEF Payload
  <2> QED
    BY <2>6
<1>3. Texts'
  BY TextsFrame DEF Talk
<1>4. Aborts'
  BY AbortsFrame DEF Talk
<1>5. Matched'
  BY DEF Talk, Matched, Matches, Inside
<1> QED
  BY <1>1, <1>2, <1>3, <1>4, <1>5

\* The first chunk of a command finds no other command in the pipe.
LEMMA HeadTalk ==
  ASSUME Base, Talk, NEW c \in Callers, WriteChunk(c), pc[c] = "head"
  PROVE  Talk'
<1> DEFINE m == Chunk("cmd", call[c].id, call[c].n, call[c].p)
<1>1. /\ child.alive /\ toChild' = Append(toChild, m)
      /\ pc'[c] = IF call[c].n = 0 THEN "reply" ELSE "args"
      /\ call'[c].n = call[c].n /\ call'[c].id = call[c].id /\ call'[c].p = call[c].p
      /\ call'[c].took = call[c].took /\ call'[c].got = call[c].got /\ call'[c].err = call[c].err
      /\ \A d \in Callers \ {c} : pc'[d] = pc[d] /\ call'[d] = call[d]
      /\ UNCHANGED <<s2c, reply, wpc, wrep, handles, fromChild, child, hist>>
  BY BaseFacts DEF WriteChunk, TypeOK, Calls, Goto, syncVars, processVars, workerVars, childVars
<1>2. m \in Chunks /\ m.k = "cmd" /\ m.id = call[c].id /\ m.n = call[c].n /\ m.p = call[c].p
  BY BaseFacts DEF TypeOK, Calls, Chunk, Chunks, Kinds
<1> HIDE DEF m
<1>3. Asked' /\ Paid' /\ Texts' /\ Aborts' /\ Matched'
  BY <1>1, <1>2, SendTalk
<1>4. \A d \in Callers \ {c} : ~Inside(d) /\ ~Inside(d)'
  BY <1>1, SendFacts DEF Inside
<1>5. At("none")
  <2>1. PICK s \in Places : At(s)
    BY DEF Talk, OnePlace
  <2>2. \A d \in Callers : ~Out(d)
    BY <1>4 DEF Out, Inside
  <2> QED
    BY <2>1, <2>2 DEF At, Places
<1>6. toChild \in Seq(Chunks) /\ call[c].n \in Nat
  BY BaseFacts DEF TypeOK, Calls
<1>7. Framed'
  <2>1. PICK lo, a, left \in Nat : Unsent(left) /\ Stream(lo, a, left)
    BY <1>1 DEF Talk, Framed
  <2>2. a + left = 0
    <3>1. \A i \in 1 .. Len(toChild) : toChild[i].k # "cmd"
      BY <1>1, <1>5 DEF At, InPipe
    <3>2. child.st # "args"
      BY <1>1, <1>5 DEF At, AtChild
    <3>3. lo > 0 => lo \in 1 .. Len(toChild)
      BY <2>1, BaseFacts DEF Stream
    <3> QED
      BY <2>1, <3>1, <3>2, <3>3 DEF Stream
  <2>3. PICK l, n \in Nat : l = Len(toChild) + 1 /\ n = call[c].n
    BY <1>6, BaseFacts
  <2>4. Unsent(n)'
    BY <1>1, <1>4, <1>6, <2>3 DEF Unsent, Inside
  <2>5. Stream(l, 0, n)'
    <3>1. l > 0 /\ l = Len(toChild') /\ toChild'[l] = m
      BY <1>1, <1>2, <1>6, <2>3, AppendIs
    <3>2. \A i \in 1 .. Len(toChild') :
            i = l \/ (i < l /\ i \in 1 .. Len(toChild) /\ toChild'[i] = toChild[i])
      BY <1>1, <1>2, <1>6, <2>3, AppendIs
    <3>3. \A i \in 1 .. Len(toChild) : toChild[i].k = "answer"
      BY <2>1, <2>2, <1>1, <1>5 DEF Stream, At, InPipe
    <3>4. child'.st # "args"
      BY <1>1, <1>5 DEF At, AtChild
    <3>5. \A i \in 1 .. Len(toChild') :
       /\ toChild'[i].k \in {"cmd", "arg", "answer"}
       /\ toChild'[i].k = "arg" <=> (l < i /\ i <= l + 0)
       /\ toChild'[i].k = "cmd" => i = l /\ toChild'[i].n = 0 + n
      BY <1>2, <2>3, <3>1, <3>2, <3>3
    <3> QED
      BY <1>2, <3>1, <3>4, <3>5 DEF Stream
  <2> QED
    BY <1>1, <2>4, <2>5 DEF Framed, Talk
<1>8. \A i \in 1 .. Len(toChild') : toChild'[i].k = "cmd" => toChild'[i] = m
  <2>1. \A i \in 1 .. Len(toChild') : i = Len(toChild) + 1 \/ (i \in 1 .. Len(toChild) /\ toChild'[i] = toChild[i])
    BY <1>1, <1>2, <1>6, AppendIs
  <2> QED
    BY <1>1, <1>2, <1>5, <1>6, <2>1, AppendIs DEF At, InPipe
<1>9. Out(c)'
  BY <1>1 DEF Out
<1>10. OnePlace'
  <2>1. At("sent")'
    BY <1>1, <1>5, <1>9 DEF At, AtChild, Own, AtWorker, Handed
  <2> QED
    BY <2>1 DEF OnePlace, Places
<1>11. Numbered'
  <2>1. Same(c)'
    BY <1>1, <1>2, <1>5, <1>8 DEF Same, At, InPipe, AtChild, Own, AtWorker, Handed
  <2> QED
    BY <1>4, <2>1 DEF Numbered, Out, Inside
<1> QED
  BY <1>3, <1>7, <1>10, <1>11 DEF Talk

\* Each argument follows the one before it.
LEMMA ArgTalk ==
  ASSUME Base, Talk, NEW c \in Callers, WriteChunk(c), pc[c] = "args"
  PROVE  Talk'
<1> DEFINE m == Chunk("arg", call[c].id, 0, 0)
<1>1. /\ child.alive /\ toChild' = Append(toChild, m)
      /\ pc'[c] = IF call[c].n - 1 = 0 THEN "reply" ELSE "args"
      /\ call'[c].n = call[c].n - 1 /\ call'[c].id = call[c].id /\ call'[c].p = call[c].p
      /\ call'[c].took = call[c].took /\ call'[c].got = call[c].got /\ call'[c].err = call[c].err
      /\ \A d \in Callers \ {c} : pc'[d] = pc[d] /\ call'[d] = call[d]
      /\ UNCHANGED <<s2c, reply, wpc, wrep, handles, fromChild, child, hist>>
  BY BaseFacts DEF WriteChunk, TypeOK, Calls, Goto, syncVars, processVars, workerVars, childVars
<1>2. m \in Chunks /\ m.k = "arg"
  BY BaseFacts DEF TypeOK, Calls, Chunk, Chunks, Kinds
<1> HIDE DEF m
<1>3. Asked' /\ Paid' /\ Texts' /\ Aborts' /\ Matched'
  BY <1>1, <1>2, SendTalk
<1>4. \A d \in Callers \ {c} : ~Inside(d) /\ ~Inside(d)'
  BY <1>1, SendFacts DEF Inside
<1>5. toChild \in Seq(Chunks) /\ call[c].n \in Nat /\ call[c].n > 0
  BY BaseFacts DEF TypeOK, Counters, Calls
<1>6. \A i \in 1 .. Len(toChild') :
        i = Len(toChild) + 1 \/ (i \in 1 .. Len(toChild) /\ toChild'[i] = toChild[i])
  BY <1>1, <1>2, <1>5, AppendIs
<1>7. Len(toChild) \in Nat /\ Len(toChild') = Len(toChild) + 1 /\ toChild'[Len(toChild) + 1] = m
  BY <1>1, <1>2, <1>5, AppendIs
<1>8. Framed'
  <2>1. PICK lo, a, left \in Nat : Unsent(left) /\ Stream(lo, a, left)
    BY <1>1 DEF Talk, Framed
  <2>2. left = call[c].n /\ lo + a = Len(toChild)
    BY <1>5, <2>1 DEF Unsent, Stream
  <2>3. Unsent(left - 1)'
    BY <1>1, <1>4, <1>5, <2>2 DEF Unsent, Inside
  <2>4. \A i \in 1 .. Len(toChild') :
       /\ toChild'[i].k \in {"cmd", "arg", "answer"}
       /\ toChild'[i].k = "arg" <=> (lo < i /\ i <= lo + (a + 1))
       /\ toChild'[i].k = "cmd" => i = lo /\ toChild'[i].n = (a + 1) + (left - 1)
    BY <1>2, <1>6, <1>7, <2>1, <2>2 DEF Stream
  <2>5. child'.st # "args" /\ (a + 1) + (left - 1) > 0 => lo > 0 /\ toChild'[lo].k = "cmd"
    BY <1>1, <1>2, <1>5, <2>1, <2>2, AppendIs DEF Stream
  <2>6. Stream(lo, a + 1, left - 1)'
    <3>1. lo + (a + 1) = Len(toChild')
      BY <1>7, <2>2
    <3>2. child'.st = "args" => lo = 0 /\ child'.n = (a + 1) + (left - 1)
      <4>1. child.st = "args" => lo = 0 /\ child.n = a + left
        BY <2>1 DEF Stream
      <4>2. (a + 1) + (left - 1) = a + left
        OBVIOUS
      <4> QED
        BY <1>1, <4>1, <4>2
    <3> QED
      BY <2>4, <2>5, <3>1, <3>2 DEF Stream
  <2> QED
    BY <1>1, <1>5, <2>2, <2>3, <2>6 DEF Framed, Talk
<1>9. Out(c) /\ Out(c)'
  BY <1>1 DEF Out
<1>10. \A i \in 1 .. Len(toChild') : InPipe(i)' =>
         i \in 1 .. Len(toChild) /\ toChild'[i] = toChild[i] /\ InPipe(i)
  BY <1>1, <1>2, <1>6, <1>7 DEF InPipe
<1>11. OnePlace'
  <2>1. PICK s \in Places : At(s)
    BY DEF Talk, OnePlace
  <2>2. s \notin {"back", "worker", "handed"}
    BY <2>1, <1>4 DEF At, Inside
  <2>3. At(s)'
    BY <1>1, <1>9, <1>10, <2>1, <2>2 DEF At, AtChild, Own, AtWorker, Handed
  <2> QED
    BY <2>3 DEF OnePlace
<1>12. Numbered'
  <2>1. Same(c)
    BY <1>9 DEF Talk, Numbered
  <2>2. Same(c)'
    BY <1>1, <1>10, <2>1 DEF Same, AtChild, Own, AtWorker, Handed
  <2> QED
    BY <1>4, <2>2 DEF Numbered, Out, Inside
<1> QED
  BY <1>3, <1>8, <1>11, <1>12 DEF Talk

LEMMA PaidTail ==
  ASSUME fromChild \in Seq(Chunks), fromChild # <<>>, fromChild' = Tail(fromChild),
         UNCHANGED <<child, pc, call>>, Head(fromChild).k \notin {"ok", "data"},
         NEW lo \in Nat, NEW d \in Nat, NEW f \in Nat, NEW g \in Nat, Payload(lo, d, f, g),
         Front(f, g) => Front(f, g)'
  PROVE  \E l \in Nat : Payload(l, d, f, g)'
<1>1. /\ Len(fromChild) \in Nat /\ Len(fromChild') = Len(fromChild) - 1
      /\ Head(fromChild) = fromChild[1] /\ 1 \in 1 .. Len(fromChild)
      /\ \A i \in 1 .. Len(fromChild') : i + 1 \in 1 .. Len(fromChild) /\ fromChild'[i] = fromChild[i + 1]
  BY TailIs
<1>2. /\ lo + d <= Len(fromChild) /\ d <= f /\ (d < f => lo + d = Len(fromChild))
      /\ ~(lo < 1 /\ 1 <= lo + d)
      /\ lo > 0 => fromChild[lo].k = "ok"
  <2>1. fromChild[1].k = "data" <=> (lo < 1 /\ 1 <= lo + d)
    BY <1>1 DEF Payload
  <2>2. fromChild[1].k # "data"
    BY <1>1
  <2> QED
    BY <2>1, <2>2 DEF Payload
<1>3. CASE lo = 0
  <2>1. d = 0 /\ f = 0
    <3>1. Len(fromChild) \in Nat /\ Len(fromChild) > 0
      BY <1>1
    <3> QED
      BY <1>2, <1>3, <3>1
  <2>2. \A i \in 1 .. Len(fromChild') :
          /\ fromChild'[i].k \in {"request", "ok", "err", "text", "data"}
          /\ fromChild'[i].k # "data" /\ fromChild'[i].k # "ok"
    BY <1>1, <1>3, <2>1 DEF Payload
  <2>3. child.alive => child.st # "data"
    BY <2>1 DEF Payload
  <2>4. Payload(0, d, f, g)'
    BY <1>1, <1>3, <2>1, <2>2, <2>3 DEF Payload
  <2> QED
    BY <2>4
<1>4. CASE lo > 0
  <2>1. lo - 1 \in 1 .. Len(fromChild') /\ fromChild'[lo - 1].k = "ok"
    <3>1. lo # 1
      BY <1>1, <1>2, <1>4
    <3>4. lo <= Len(fromChild)
      <4>1. Len(fromChild) \in Nat
        BY <1>1
      <4> QED
        BY <1>2, <4>1
    <3>2. lo - 1 \in 1 .. Len(fromChild') /\ (lo - 1) + 1 = lo
      BY <1>1, <1>4, <3>1, <3>4
    <3>3. fromChild'[lo - 1] = fromChild[lo]
      BY <1>1, <3>2
    <3> QED
      BY <1>2, <1>4, <3>2, <3>3
  <2>2. \A i \in 1 .. Len(fromChild') :
       /\ fromChild'[i].k \in {"request", "ok", "err", "text", "data"}
       /\ fromChild'[i].k = "data" <=> (lo - 1 < i /\ i <= lo - 1 + d)
       /\ fromChild'[i].k = "data" => fromChild'[i].id = g
       /\ fromChild'[i].k = "ok" => i = lo - 1 /\ fromChild'[i].id # 0
    <3> TAKE i \in 1 .. Len(fromChild')
    <3>1. i + 1 \in 1 .. Len(fromChild) /\ fromChild'[i] = fromChild[i + 1]
      BY <1>1
    <3> QED
      BY <2>1, <3>1 DEF Payload
  <2>3. lo - 1 + d <= Len(fromChild') /\ (d < f => lo - 1 + d = Len(fromChild'))
    <3>1. PICK l \in Nat : l = Len(fromChild) /\ l - 1 = Len(fromChild')
      BY <1>1
    <3>2. lo + d <= l /\ (d < f => lo + d = l)
      BY <1>2, <3>1
    <3>3. lo - 1 + d <= l - 1 /\ (d < f => lo - 1 + d = l - 1)
      BY <3>2
    <3> QED
      BY <3>1, <3>3
  <2>4. \A c \in Callers : Out(c)' => f = call'[c].p /\ g = call'[c].id
    BY <1>4 DEF Payload, Out
  <2>5. d <= f /\ (child'.alive => IF child'.st = "data" THEN d < f /\ child'.p = f - d /\ child'.id = g
                                                         ELSE d = f)
    BY DEF Payload
  <2>6. Payload(lo - 1, d, f, g)'
    BY <2>1, <2>2, <2>3, <2>4, <2>5 DEF Payload
  <2> QED
    BY <2>1, <2>6
<1> QED
  BY <1>3, <1>4

\* What read_worker finds at its pipe: a reply or a request, never payload or a text.
LEMMA HeaderFacts ==
  ASSUME Base, Talk, handles, wpc = "header"
  PROVE  /\ s2c = 0 /\ \A c \in Callers : ~Reader(c)
         /\ fromChild # <<>> => Head(fromChild).k \in {"ok", "err", "request"}
<1>1. s2c = 0 /\ \A c \in Callers : ~Reader(c)
  BY BaseFacts DEF TypeOK, Reader, Given
<1>2. ASSUME fromChild # <<>> PROVE Head(fromChild).k \in {"ok", "err", "request"}
  <2>1. 1 \in 1 .. Len(fromChild) /\ Head(fromChild) = fromChild[1]
    BY <1>2, TailIs, BaseFacts DEF TypeOK
  <2>2. fromChild[1].k # "text"
    <3>1. ~TextDue(1 - 1)
      BY DEF TextDue
    <3> QED
      BY <2>1, <3>1 DEF Talk, Texts
  <2>3. PICK lo, d, f, g \in Nat : Payload(lo, d, f, g)
    BY DEF Talk, Paid
  <2>4. fromChild[1].k # "data"
    BY <1>1, <2>1, <2>3 DEF Payload, Front
  <2> QED
    BY <2>1, <2>2, <2>3, <2>4 DEF Payload
<1> QED
  BY <1>1, <1>2

\* The uniqueness of the reply to a command outlasts a chunk that is taken.
LEMMA OwnTail ==
  ASSUME fromChild \in Seq(Chunks), fromChild # <<>>, fromChild' = Tail(fromChild),
         NEW s \in Places, At(s)
  PROVE  /\ \A i \in 1 .. Len(fromChild') :
              Own(i)' => i + 1 \in 1 .. Len(fromChild) /\ Own(i + 1) /\ fromChild'[i].id = fromChild[i + 1].id
         /\ \A i, j \in 1 .. Len(fromChild') : Own(i)' /\ Own(j)' => i = j
         /\ Own(1) => \A i \in 1 .. Len(fromChild') : ~Own(i)'
<1>1. /\ Len(fromChild) \in Nat /\ 1 \in 1 .. Len(fromChild)
      /\ \A i \in 1 .. Len(fromChild') : i + 1 \in 1 .. Len(fromChild) /\ fromChild'[i] = fromChild[i + 1]
  BY TailIs
<1>2. \A i \in 1 .. Len(fromChild') :
        Own(i)' => i + 1 \in 1 .. Len(fromChild) /\ Own(i + 1) /\ fromChild'[i].id = fromChild[i + 1].id
  BY <1>1 DEF Own
<1>3. ASSUME NEW i \in 1 .. Len(fromChild'), NEW j \in 1 .. Len(fromChild'), Own(i)', Own(j)'
      PROVE  i = j
  <2>1. i + 1 = j + 1
    BY <1>2, <1>3 DEF At
  <2> QED
    BY <2>1
<1>4. ASSUME Own(1), NEW i \in 1 .. Len(fromChild'), Own(i)' PROVE FALSE
  <2>1. 1 = i + 1
    BY <1>1, <1>2, <1>4 DEF At
  <2> QED
    BY <2>1
<1> QED
  BY <1>2, <1>3, <1>4

LEMMA ReadHeaderTalk ==
  ASSUME Base, Talk, ReadHeader
  PROVE  Talk'
<1>1. /\ wpc = "header" /\ fromChild # <<>> /\ fromChild' = Tail(fromChild)
      /\ UNCHANGED <<pc, call, s2c, reply, handles, toChild, child, hist>>
      /\ fromChild \in Seq(Chunks)
  BY BaseFacts DEF TypeOK, ReadHeader, callerVars, syncVars, processVars, childVars
<1>2. ASSUME handles PROVE
        \/ Head(fromChild).k = "ok" /\ wpc' = "signal" /\ wrep'.rep = Rep(TRUE, Head(fromChild).id)
        \/ Head(fromChild).k = "err" /\ wpc' = "text" /\ wrep'.rep = Rep(FALSE, Head(fromChild).id)
        \/ Head(fromChild).k = "request" /\ wpc' = "answer"
  <2>1. Head(fromChild).k \notin {"data", "text"}
    BY <1>1, <1>2, HeaderFacts
  <2>2. \/ Head(fromChild).k = "ok" /\ wpc' = "signal" /\ wrep' = [rep |-> Rep(TRUE, Head(fromChild).id), fail |-> FALSE]
        \/ Head(fromChild).k = "err" /\ wpc' = "text" /\ wrep' = [rep |-> Rep(FALSE, Head(fromChild).id), fail |-> FALSE]
        \/ Head(fromChild).k = "request" /\ wpc' = "answer"
    BY <2>1 DEF ReadHeader, WorkerGoto
  <2>3. \A r \in {Rep(TRUE, Head(fromChild).id), Rep(FALSE, Head(fromChild).id)} :
          wrep' = [rep |-> r, fail |-> FALSE] => wrep'.rep = r
    OBVIOUS
  <2> QED
    BY <2>2, <2>3
<1>3. /\ Len(fromChild) \in Nat /\ Len(fromChild') = Len(fromChild) - 1
      /\ Head(fromChild) = fromChild[1] /\ 1 \in 1 .. Len(fromChild)
      /\ \A i \in 1 .. Len(fromChild') : i + 1 \in 1 .. Len(fromChild) /\ fromChild'[i] = fromChild[i + 1]
  BY <1>1, TailIs
<1>4. PICK s \in Places : At(s)
  BY DEF Talk, OnePlace
<1>5. handles /\ Own(1) => s = "back" /\ \E c \in Callers : pc[c] = "reply"
  BY <1>3, <1>4 DEF At
<1>6. handles => (AtWorker' <=> Own(1))
  <2>1. handles /\ Head(fromChild).k = "ok" => Head(fromChild).id # 0
    BY <1>3 DEF Talk, Paid, Payload
  <2> QED
    BY <1>2, <1>3, <2>1 DEF AtWorker, Own, Rep
<1>7. Framed'
  BY <1>1, FramedFrame DEF Talk, Framed
<1>8. Asked'
  <2>1. CASE handles /\ Head(fromChild).k = "request"
    <3>1. PICK q \in {"none", "asked", "answering", "answered"} : Asking(q)
      BY DEF Talk, Asked
    <3>2. q = "asked"
      BY <1>3, <2>1, <3>1 DEF Asking
    <3>3. ASSUME NEW i \in 1 .. Len(fromChild'), fromChild'[i].k = "request" PROVE FALSE
      <4>1. i + 1 \in 1 .. Len(fromChild) /\ fromChild[i + 1].k = "request"
        BY <1>3, <3>3
      <4>2. 1 = i + 1
        BY <1>3, <2>1, <3>1, <4>1 DEF Asking
      <4> QED
        BY <4>2
    <3>4. Asking("answering")'
      BY <1>1, <3>1, <3>2, <3>3 DEF Asking
    <3> QED
      BY <3>4 DEF Asked
  <2>2. CASE ~(handles /\ Head(fromChild).k = "request")
    BY <1>1, <1>2, <2>2, AskedTail DEF Talk
  <2> QED
    BY <2>1, <2>2
<1>9. OnePlace'
  <2>1. CASE handles /\ Own(1)
    <3>1. At("worker")'
      BY <1>1, <1>4, <1>5, <2>1, OwnTail, HeaderFacts DEF At, InPipe, AtChild, Handed, Out
    <3> QED
      BY <3>1 DEF OnePlace, Places
  <2>2. CASE ~(handles /\ Own(1))
    <3>1. At(s)'
      BY <1>1, <1>4, <1>6, <2>2, OwnTail DEF At, InPipe, AtChild, Handed, Out
    <3> QED
      BY <3>1 DEF OnePlace
  <2> QED
    BY <2>1, <2>2
<1>10. Numbered'
  <2> SUFFICES ASSUME NEW c \in Callers, Out(c)' PROVE Same(c)'
    BY DEF Numbered
  <2>1. Same(c)
    BY <1>1 DEF Talk, Numbered, Out
  <2>2. handles /\ Own(1) => wrep'.rep.id = call[c].id
    <3>1. handles /\ Own(1) => wrep'.rep.id = fromChild[1].id
      BY <1>2, <1>3 DEF Own, Rep
    <3> QED
      BY <1>3, <2>1, <3>1 DEF Same
  <2>3. handles => \A i \in 1 .. Len(fromChild') : Own(i)' => fromChild'[i].id = call[c].id
    BY <1>1, <1>4, <2>1, OwnTail DEF Same
  <2> QED
    BY <1>1, <1>6, <2>1, <2>2, <2>3 DEF Same, InPipe, AtChild, Handed
<1>11. Paid'
  <2> SUFFICES ASSUME handles PROVE \E lo, d, f, g \in Nat : Payload(lo, d, f, g)'
    BY <1>1 DEF Paid
  <2>1. PICK lo, d, f, g \in Nat : Payload(lo, d, f, g)
    BY DEF Talk, Paid
  <2>2. \A c \in Callers : ~Reader(c)
    BY <1>1, HeaderFacts
  <2>3. s2c' = 0 /\ \A c \in Callers : pc'[c] # "read"
    BY <1>1, <2>2, HeaderFacts DEF Reader
  <2>4. CASE Head(fromChild).k = "ok"
    <3>1. lo = 1 /\ Own(1)
      BY <1>3, <2>1, <2>4 DEF Payload, Own
    <3>2. PICK c \in Callers : pc[c] = "reply"
      BY <1>5, <3>1
    <3>3. \A e \in Callers : Reader(e)' => Out(e)
      BY <1>1, <2>3 DEF Reader, Out
    <3>4. Reader(c)'
      BY <1>1, <1>2, <2>4, <3>2 DEF Reader, Given, Rep
    <3>5. Front(f, g)'
      BY <1>1, <2>1, <3>1, <3>3, <3>4 DEF Front, Payload
    <3>6. \A i \in 1 .. Len(fromChild') :
         /\ fromChild'[i].k \in {"request", "ok", "err", "text", "data"}
         /\ fromChild'[i].k = "data" <=> (0 < i /\ i <= 0 + d)
         /\ fromChild'[i].k = "data" => fromChild'[i].id = g
         /\ fromChild'[i].k # "ok"
      <4> TAKE i \in 1 .. Len(fromChild')
      <4>1. i + 1 \in 1 .. Len(fromChild) /\ fromChild'[i] = fromChild[i + 1]
        BY <1>3
      <4> QED
        BY <2>1, <3>1, <4>1 DEF Payload
    <3>7. 0 + d <= Len(fromChild') /\ (d < f => 0 + d = Len(fromChild')) /\ d <= f
      BY <1>3, <2>1, <3>1 DEF Payload
    <3>8. child'.alive => IF child'.st = "data" THEN d < f /\ child'.p = f - d /\ child'.id = g
                                                ELSE d = f
      BY <1>1, <2>1 DEF Payload
    <3>9. Payload(0, d, f, g)'
      BY <3>5, <3>6, <3>7, <3>8 DEF Payload
    <3> QED
      BY <3>9
  <2>5. CASE Head(fromChild).k # "ok"
    <3>1. Head(fromChild).k \notin {"ok", "data"}
      BY <1>1, <2>5, HeaderFacts
    <3>2. \A e \in Callers : ~Reader(e)'
      BY <1>2, <2>3, <2>5 DEF Reader, Given, Rep
    <3>3. Front(f, g) => Front(f, g)'
      BY <2>2, <3>2 DEF Front
    <3>4. \E l \in Nat : Payload(l, d, f, g)'
      BY <1>1, <2>1, <3>1, <3>3, PaidTail
    <3> QED
      BY <3>4
  <2> QED
    BY <2>4, <2>5
<1>12. Texts'
  <2>1. CASE handles
    <3>1. wpc' = "text" <=> Head(fromChild).k = "err"
      BY <1>2, <2>1
    <3>2. wpc' = "text" => ~wrep'.rep.ok
      BY <1>2, <2>1 DEF Rep
    <3> QED
      BY <1>1, <3>1, <3>2, TextsTail DEF Talk
  <2>2. CASE ~handles
    BY <1>1, <2>2 DEF Texts
  <2> QED
    BY <2>1, <2>2
<1>13. Aborts'
  <2> SUFFICES ASSUME handles PROVE Aborts'
    BY <1>1 DEF Aborts
  <2>1. ASSUME NEW i \in 1 .. Len(fromChild'), fromChild'[i].k = "err", fromChild'[i].id = 0
        PROVE  Gone(i)'
    <3>1. Gone(i + 1)
      BY <1>3, <2>1 DEF Talk, Aborts
    <3> QED
      BY <1>1, <3>1, GoneTail
  <2>2. ASSUME wpc' = "text", wrep'.rep.id = 0 PROVE Gone(0)'
    <3>1. fromChild[1].k = "err" /\ fromChild[1].id = 0
      BY <1>2, <1>3, <2>2 DEF Rep
    <3>2. Gone(0 + 1)
      BY <1>3, <3>1 DEF Talk, Aborts
    <3> QED
      BY <1>1, <3>2, GoneTail
  <2>3. wpc' = "signal" => wrep'.rep.id # 0
    <3>1. wpc' = "signal" => fromChild[1].k = "ok" /\ wrep'.rep.id = fromChild[1].id
      BY <1>2, <1>3 DEF Rep
    <3> QED
      BY <1>3, <3>1 DEF Talk, Paid, Payload
  <2>4. s2c' = 0
    BY <1>1, HeaderFacts
  <2> QED
    BY <2>1, <2>2, <2>3, <2>4 DEF Aborts
<1>14. Matched'
  BY <1>1, MatchedFrame DEF Talk
<1> QED
  BY <1>7, <1>8, <1>9, <1>10, <1>11, <1>12, <1>13, <1>14 DEF Talk

\* The answer to a request goes into the pipe between two commands.
LEMMA WriteAnswerTalk ==
  ASSUME Base, Talk, WriteAnswer, Clean'
  PROVE  Talk'
<1> DEFINE m == Chunk("answer", 0, 0, 0)
<1>1. /\ wpc = "answer" /\ wpc' = "header" /\ handles /\ toChild' = Append(toChild, m)
      /\ UNCHANGED <<pc, call, s2c, reply, wrep, handles, fromChild, child>>
      /\ toChild \in Seq(Chunks)
  BY BaseFacts DEF TypeOK, WriteAnswer, WorkerGoto, callerVars, syncVars, processVars, childVars
<1>2. m \in Chunks /\ m.k = "answer"
  BY DEF Chunk, Chunks, Kinds
<1>3. hist' = hist /\ \A c \in Callers : pc[c] # "args"
  BY DEF WriteAnswer, Clean
<1> HIDE DEF m
<1>4. /\ Len(toChild) \in Nat /\ Len(toChild') = Len(toChild) + 1 /\ toChild'[Len(toChild) + 1] = m
      /\ \A i \in 1 .. Len(toChild') :
           \/ i = Len(toChild) + 1 /\ toChild'[i] = m
           \/ i \in 1 .. Len(toChild) /\ toChild'[i] = toChild[i]
      /\ \A i \in 1 .. Len(toChild) : toChild'[i] = toChild[i]
  BY <1>1, <1>2, AppendIs
<1>5. ~Given' /\ ~Given
  BY <1>1, BaseFacts DEF Given
<1>6. \A c \in Callers : ~Reader(c) /\ ~Reader(c)'
  BY <1>1, <1>5, BaseFacts DEF Reader
<1>7. \A i \in 1 .. Len(toChild') : InPipe(i)' => i \in 1 .. Len(toChild) /\ InPipe(i) /\ toChild'[i] = toChild[i]
  BY <1>1, <1>2, <1>4 DEF InPipe
<1>8. Framed'
  <2> SUFFICES ASSUME child'.alive PROVE \E lo, a, left \in Nat : Unsent(left)' /\ Stream(lo, a, left)'
    BY <1>1 DEF Talk, Framed
  <2>1. PICK lo, a, left \in Nat : Unsent(left) /\ Stream(lo, a, left)
    BY <1>1 DEF Talk, Framed
  <2>2. left = 0
    BY <1>3, <2>1 DEF Unsent
  <2>3. Unsent(left)'
    BY <1>1, <2>1 DEF Unsent
  <2>4. /\ lo + a <= Len(toChild)
        /\ child.st # "args" /\ a + left > 0 => lo > 0 /\ toChild[lo].k = "cmd"
        /\ child.st = "args" => lo = 0 /\ child.n = a + left
        /\ \A i \in 1 .. Len(toChild) :
             /\ toChild[i].k \in {"cmd", "arg", "answer"}
             /\ toChild[i].k = "arg" <=> (lo < i /\ i <= lo + a)
             /\ toChild[i].k = "cmd" => i = lo /\ toChild[i].n = a + left
    BY <2>1 DEF Stream
  <2>5. lo + a <= Len(toChild')
    BY <1>4, <2>4
  <2>6. \A i \in 1 .. Len(toChild') :
             /\ toChild'[i].k \in {"cmd", "arg", "answer"}
             /\ toChild'[i].k = "arg" <=> (lo < i /\ i <= lo + a)
             /\ toChild'[i].k = "cmd" => i = lo /\ toChild'[i].n = a + left
    BY <1>2, <1>4, <2>4
  <2>7. child.st # "args" /\ a + left > 0 => lo > 0 /\ toChild'[lo].k = "cmd"
    BY <1>4, <2>4
  <2>8. Stream(lo, a, left)'
    BY <1>1, <2>2, <2>4, <2>5, <2>6, <2>7 DEF Stream
  <2> QED
    BY <2>3, <2>8
<1>9. Asked'
  <2>1. PICK q \in {"none", "asked", "answering", "answered"} : Asking(q)
    BY DEF Talk, Asked
  <2>2. q = "answering"
    BY <1>1, <2>1 DEF Asking
  <2>3. \A i \in 1 .. Len(toChild') : toChild'[i].k = "answer" => i = Len(toChild) + 1
    BY <1>4, <2>1, <2>2 DEF Asking
  <2>4. \A i, j \in 1 .. Len(toChild') : toChild'[i].k = "answer" /\ toChild'[j].k = "answer" => i = j
    BY <2>3
  <2>5. Asking("answered")'
    BY <1>1, <2>1, <2>2, <2>4 DEF Asking
  <2> QED
    BY <2>5 DEF Asked
<1>10. OnePlace'
  <2>1. PICK s \in Places : At(s)
    BY DEF Talk, OnePlace
  <2>2. At(s)'
    BY <1>1, <1>7, <2>1 DEF At, Out, AtChild, Own, AtWorker, Handed
  <2> QED
    BY <2>2 DEF OnePlace
<1>11. Numbered'
  BY <1>1, <1>7 DEF Talk, Numbered, Same, Out, AtChild, Own, AtWorker, Handed
<1>12. Paid'
  <2>1. PICK lo, d, f, g \in Nat : Payload(lo, d, f, g)
    BY <1>1 DEF Talk, Paid
  <2>2. Front(f, g) => Front(f, g)'
    BY <1>6 DEF Front
  <2>3. Payload(lo, d, f, g)'
    BY <1>1, <2>1, <2>2 DEF Payload, Out
  <2> QED
    BY <2>3 DEF Paid
<1>13. Texts'
  BY <1>1, TextsFrame DEF Talk
<1>14. Aborts'
  BY <1>1, <1>3, AbortsFrame DEF Talk
<1>15. Matched'
  BY <1>1, <1>3, MatchedFrame DEF Talk
<1> QED
  BY <1>8, <1>9, <1>10, <1>11, <1>12, <1>13, <1>14, <1>15 DEF Talk

\* The text of an error is taken: the error can be handed over.
LEMMA ReadTextTalk ==
  ASSUME Base, Talk, ReadText
  PROVE  Talk'
<1>1. /\ wpc = "text" /\ wpc' = "signal" /\ fromChild # <<>> /\ fromChild' = Tail(fromChild)
      /\ UNCHANGED <<pc, call, s2c, reply, wrep, handles, toChild, child, hist>>
      /\ fromChild \in Seq(Chunks)
  BY BaseFacts DEF TypeOK, ReadText, WorkerGoto, callerVars, syncVars, processVars, childVars
<1>2. s2c = 0 /\ \A c \in Callers : pc[c] # "read"
  BY <1>1, BaseFacts DEF TypeOK
<1>3. 1 \in 1 .. Len(fromChild) /\ Head(fromChild) = fromChild[1] /\ 0 < Len(fromChild)
  BY <1>1, TailIs
<1>4. handles => ~wrep.rep.ok /\ Head(fromChild).k = "text"
  <2>1. TextDue(1 - 1)
    BY <1>1 DEF TextDue
  <2> QED
    BY <1>1, <1>3, <2>1 DEF Talk, Texts
<1>5. Framed'
  BY <1>1, FramedFrame DEF Talk, Framed
<1>6. Asked'
  BY <1>1, AskedTail DEF Talk
<1>7. PICK s \in Places : At(s)
  BY DEF Talk, OnePlace
<1>8. OnePlace'
  <2>1. At(s)'
    BY <1>1, <1>7, OwnTail DEF At, Out, InPipe, AtChild, AtWorker, Handed
  <2> QED
    BY <2>1 DEF OnePlace
<1>9. Numbered'
  <2> SUFFICES ASSUME NEW c \in Callers, Out(c)' PROVE Same(c)'
    BY DEF Numbered
  <2>1. Same(c)
    BY <1>1 DEF Talk, Numbered, Out
  <2>2. handles => \A i \in 1 .. Len(fromChild') : Own(i)' => fromChild'[i].id = call[c].id
    BY <1>1, <1>7, <2>1, OwnTail DEF Same
  <2> QED
    BY <1>1, <2>1, <2>2 DEF Same, InPipe, AtChild, AtWorker, Handed
<1>10. Paid'
  <2> SUFFICES ASSUME handles PROVE \E lo, d, f, g \in Nat : Payload(lo, d, f, g)'
    BY <1>1 DEF Paid
  <2>1. PICK lo, d, f, g \in Nat : Payload(lo, d, f, g)
    BY DEF Talk, Paid
  <2>2. ~Given' /\ ~Given
    BY <1>1, <1>2, <1>4 DEF Given
  <2>3. \A c \in Callers : ~Reader(c) /\ ~Reader(c)'
    BY <1>1, <1>2, <2>2 DEF Reader
  <2>4. Front(f, g) => Front(f, g)'
    BY <2>3 DEF Front
  <2>5. Head(fromChild).k \notin {"ok", "data"}
    BY <1>4
  <2>6. \E l \in Nat : Payload(l, d, f, g)'
    BY <1>1, <2>1, <2>4, <2>5, PaidTail
  <2> QED
    BY <2>6
<1>11. Texts'
  <2>1. CASE handles
    BY <1>1, <1>4, <2>1, TextsTail DEF Talk
  <2>2. CASE ~handles
    BY <1>1, <2>2 DEF Texts
  <2> QED
    BY <2>1, <2>2
<1>12. Aborts'
  <2> SUFFICES ASSUME handles PROVE Aborts'
    BY <1>1 DEF Aborts
  <2>1. ASSUME NEW i \in 1 .. Len(fromChild'), fromChild'[i].k = "err", fromChild'[i].id = 0
        PROVE  Gone(i)'
    <3>1. Gone(i + 1)
      BY <1>1, <2>1, TailIs DEF Talk, Aborts
    <3> QED
      BY <1>1, <3>1, GoneTail
  <2>2. ASSUME wrep.rep.id = 0 PROVE Lost(wrep.rep.ok)'
    <3>1. Gone(0)
      BY <1>1, <2>2 DEF Talk, Aborts
    <3>2. ~child.alive
      BY <1>3, <3>1 DEF Gone
    <3>3. Gone(0)'
      BY <1>1, <3>1, <3>2, TailIs DEF Gone
    <3> QED
      BY <1>1, <1>4, <3>2, <3>3 DEF Lost
  <2> QED
    BY <1>1, <1>2, <2>1, <2>2 DEF Aborts
<1>13. Matched'
  BY <1>1, MatchedFrame DEF Talk
<1> QED
  BY <1>5, <1>6, <1>8, <1>9, <1>10, <1>11, <1>12, <1>13 DEF Talk

\* Its text is lost with the child: the error becomes a success.
LEMMA TextFailsTalk ==
  ASSUME Base, Talk, TextFails
  PROVE  Talk'
<1>1. /\ wpc = "text" /\ wpc' = "signal" /\ wrep'.rep.id = wrep.rep.id /\ wrep'.rep.ok
      /\ handles => fromChild = <<>> /\ ~child.alive
      /\ hist' = hist \cup {"swallowed"}
      /\ UNCHANGED <<pc, call, s2c, reply, handles, toChild, fromChild, child>>
  BY BaseFacts DEF TypeOK, TextFails, TextLost, Handovers, Replies, callerVars, syncVars, processVars, pipeVars, childVars
<1>2. s2c = 0
  BY <1>1, BaseFacts DEF TypeOK
<1>3. Framed'
  BY <1>1, FramedFrame DEF Talk, Framed
<1>4. Asked'
  BY <1>1, AskedFrame DEF Talk
<1>5. OnePlace'
  BY <1>1 DEF Talk, OnePlace, At, Out, InPipe, AtChild, Own, AtWorker, Handed
<1>6. Numbered'
  BY <1>1 DEF Talk, Numbered, Same, Out, InPipe, AtChild, Own, AtWorker, Handed
<1>7. Paid'
  <2> SUFFICES ASSUME handles PROVE \E lo, d, f, g \in Nat : Payload(lo, d, f, g)'
    BY <1>1 DEF Paid
  <2>1. \E f, g \in Nat : Front(f, g)'
    <3>1. CASE \A c \in Callers : ~Reader(c)'
      BY <3>1 DEF Front
    <3>2. ASSUME NEW c \in Callers, Reader(c)' PROVE \E f, g \in Nat : Front(f, g)'
      <4>1. \A e \in Callers : Reader(e)' => e = c
        BY <1>1, <3>2, BaseFacts DEF Reader, Inside
      <4>2. call'[c].p \in Nat /\ call'[c].id \in Nat
        BY <1>1, BaseFacts DEF TypeOK, Calls
      <4>3. PICK f, g \in Nat : f = call'[c].p /\ g = call'[c].id
        BY <4>2
      <4>4. Front(f, g)'
        BY <3>2, <4>1, <4>3 DEF Front
      <4> QED
        BY <4>4
    <3> QED
      BY <3>1, <3>2
  <2>2. PICK f, g \in Nat : Front(f, g)'
    BY <2>1
  <2>3. Len(fromChild') = 0
    BY <1>1
  <2>4. Payload(0, 0, f, g)'
    BY <1>1, <2>2, <2>3 DEF Payload
  <2> QED
    BY <2>4
<1>8. Texts'
  <2>1. handles => Len(fromChild') = 0
    BY <1>1
  <2> QED
    BY <1>1, <2>1 DEF Texts
<1>9. Aborts'
  <2> SUFFICES ASSUME handles PROVE Aborts'
    BY <1>1 DEF Aborts
  <2>1. Len(fromChild') = 0 /\ ~child.alive
    BY <1>1
  <2>2. wrep.rep.id = 0 => Gone(0)
    BY <1>1 DEF Talk, Aborts
  <2>3. wrep.rep.id = 0 => Lost(wrep.rep.ok)'
    BY <1>1, <2>1, <2>2 DEF Gone, Lost
  <2> QED
    BY <1>1, <1>2, <2>1, <2>3 DEF Aborts, Lost, Gone
<1>10. Matched'
  BY <1>1, MatchedFrame DEF Talk
<1> QED
  BY <1>3, <1>4, <1>5, <1>6, <1>7, <1>8, <1>9, <1>10 DEF Talk

\* The reply is handed over to the caller that waits.
LEMMA SignalTalk ==
  ASSUME Base, Talk, Signal
  PROVE  Talk'
<1>1. /\ wpc = "signal" /\ wpc' = "handshake" /\ s2c' = 1 /\ reply' = wrep.rep
      /\ UNCHANGED <<pc, call, wrep, handles, toChild, fromChild, child, hist>>
  BY DEF Signal, WorkerGoto, callerVars, processVars, pipeVars, childVars
<1>2. s2c = 0
  BY <1>1, BaseFacts DEF TypeOK
<1>3. Framed'
  BY <1>1, FramedFrame DEF Talk, Framed
<1>4. Asked'
  BY <1>1, AskedFrame DEF Talk
<1>5. OnePlace'
  <2>1. PICK s \in Places : At(s)
    BY DEF Talk, OnePlace
  <2>2. CASE handles /\ AtWorker
    <3>1. At("handed")'
      BY <1>1, <2>1, <2>2 DEF At, Out, InPipe, AtChild, Own, AtWorker, Handed
    <3> QED
      BY <3>1 DEF OnePlace, Places
  <2>3. CASE ~(handles /\ AtWorker)
    <3>1. At(s)'
      BY <1>1, <2>1, <2>3 DEF At, Out, InPipe, AtChild, Own, AtWorker, Handed
    <3> QED
      BY <3>1 DEF OnePlace
  <2> QED
    BY <2>2, <2>3
<1>6. Numbered'
  BY <1>1 DEF Talk, Numbered, Same, Out, InPipe, AtChild, Own, AtWorker, Handed
<1>7. Paid'
  <2> SUFFICES ASSUME handles PROVE \E lo, d, f, g \in Nat : Payload(lo, d, f, g)'
    BY <1>1 DEF Paid
  <2>1. PICK lo, d, f, g \in Nat : Payload(lo, d, f, g)
    BY DEF Talk, Paid
  <2>2. Given' <=> Given
    BY <1>1, <1>2 DEF Given
  <2>3. \A c \in Callers : Reader(c)' <=> Reader(c)
    BY <1>1, <2>2 DEF Reader
  <2>4. Front(f, g) => Front(f, g)'
    BY <1>1, <2>3 DEF Front
  <2>5. Payload(lo, d, f, g)'
    BY <1>1, <2>1, <2>4 DEF Payload, Out
  <2> QED
    BY <2>5
<1>8. Texts'
  BY <1>1, TextsFrame DEF Talk
<1>9. Aborts'
  BY <1>1 DEF Talk, Aborts, Gone, Lost
<1>10. Matched'
  BY <1>1, MatchedFrame DEF Talk
<1> QED
  BY <1>3, <1>4, <1>5, <1>6, <1>7, <1>8, <1>9, <1>10 DEF Talk

\* What the child finds at its pipe is what it waits for.
LEMMA ReadsFacts ==
  ASSUME Base, Talk, ChildReads
  PROVE  LET m == Head(toChild) IN
         \/ /\ child.st = "idle" /\ m.k = "cmd"
            /\ child' = [child EXCEPT !.st = IF m.n = 0 THEN "run" ELSE "args", !.id = m.id, !.n = m.n, !.p = m.p]
         \/ /\ child.st = "idle" /\ m.k = "answer" /\ child' = [child EXCEPT !.asked = FALSE]
         \/ /\ child.st = "args" /\ m.k = "arg"
            /\ child' = [child EXCEPT !.st = IF child.n - 1 = 0 THEN "run" ELSE "args", !.n = child.n - 1]
<1>1. child.alive /\ toChild # <<>> /\ child.st \in {"idle", "args"}
  BY DEF ChildReads, Talk, Framed
<1>2. 1 \in 1 .. Len(toChild) /\ Head(toChild) = toChild[1] /\ Len(toChild) > 0
  BY <1>1, TailIs, BaseFacts DEF TypeOK
<1>3. PICK lo, a, left \in Nat : Unsent(left) /\ Stream(lo, a, left)
  BY <1>1 DEF Talk, Framed
<1>4. /\ toChild[1].k \in {"cmd", "arg", "answer"}
      /\ toChild[1].k = "arg" <=> (lo < 1 /\ 1 <= lo + a)
      /\ left > 0 => lo + a = Len(toChild)
      /\ child.st = "args" => lo = 0 /\ child.n = a + left
      /\ child.st # "args" /\ a + left > 0 => lo > 0
  BY <1>2, <1>3 DEF Stream
<1>5. CASE child.st = "idle"
  <2>1. toChild[1].k # "arg"
    BY <1>4, <1>5
  <2>2. toChild[1].k = "answer" => child.asked
    BY <1>2 DEF Talk, Asked, Asking
  <2>3. CASE toChild[1].k = "cmd"
    BY <1>2, <1>5, <2>3 DEF ChildReads
  <2>4. CASE toChild[1].k = "answer"
    BY <1>2, <1>5, <2>2, <2>4 DEF ChildReads
  <2> QED
    BY <1>4, <2>1, <2>3, <2>4
<1>6. CASE child.st = "args"
  <2>1. child.n > 0
    BY <1>6, BaseFacts DEF Counters
  <2>2. a > 0
    BY <1>2, <1>4, <1>6, <2>1
  <2>3. toChild[1].k = "arg"
    BY <1>4, <1>6, <2>2
  <2> QED
    BY <1>2, <1>6, <2>3 DEF ChildReads
<1> QED
  BY <1>1, <1>5, <1>6

\* What a child that reads does not change.
LEMMA ReadsFrame ==
  ASSUME Base, Talk, ChildReads
  PROVE  /\ child.alive /\ child'.alive /\ toChild' = Tail(toChild) /\ toChild # <<>>
         /\ child.st \in {"idle", "args"} /\ child'.st \in {"idle", "args", "run"}
         /\ toChild \in Seq(Chunks) /\ Head(toChild) = toChild[1] /\ 1 \in 1 .. Len(toChild)
         /\ UNCHANGED <<pc, call, s2c, reply, wpc, wrep, handles, fromChild, hist>>
         /\ Paid' /\ Texts' /\ Aborts' /\ Matched'
<1>1. /\ child.alive /\ child'.alive /\ toChild' = Tail(toChild) /\ toChild # <<>>
      /\ child.st \in {"idle", "args"} /\ child'.st \in {"idle", "args", "run"}
      /\ UNCHANGED <<pc, call, s2c, reply, wpc, wrep, handles, fromChild, hist>>
  BY ReadsFacts, BaseFacts DEF TypeOK, Children, ChildReads, ChildUnchanged, callerVars, syncVars, processVars, workerVars
<1>2. toChild \in Seq(Chunks) /\ Head(toChild) = toChild[1] /\ 1 \in 1 .. Len(toChild)
  BY <1>1, TailIs, BaseFacts DEF TypeOK
<1>3. Paid'
  <2> SUFFICES ASSUME handles PROVE \E lo, d, f, g \in Nat : Payload(lo, d, f, g)'
    BY <1>1 DEF Paid
  <2>1. PICK lo, d, f, g \in Nat : Payload(lo, d, f, g)
    BY DEF Talk, Paid
  <2>2. Front(f, g) => Front(f, g)'
    BY <1>1 DEF Front, Reader, Given
  <2>3. Payload(lo, d, f, g)'
    BY <1>1, <2>1, <2>2 DEF Payload, Out
  <2> QED
    BY <2>3
<1>4. Texts'
  BY <1>1, TextsFrame DEF Talk
<1>5. Aborts'
  BY <1>1, AbortsFrame DEF Talk
<1>6. Matched'
  BY <1>1, MatchedFrame DEF Talk
<1> QED
  BY <1>1, <1>2, <1>3, <1>4, <1>5, <1>6

LEMMA ReadsCmdTalk ==
  ASSUME Base, Talk, ChildReads, Head(toChild).k = "cmd"
  PROVE  Talk'
<1>1. /\ child.alive /\ child'.alive /\ toChild' = Tail(toChild) /\ toChild # <<>>
      /\ toChild \in Seq(Chunks) /\ Head(toChild) = toChild[1] /\ 1 \in 1 .. Len(toChild)
      /\ UNCHANGED <<pc, call, s2c, reply, wpc, wrep, handles, fromChild, hist>>
      /\ Paid' /\ Texts' /\ Aborts' /\ Matched'
  BY ReadsFrame
<1>2. /\ child.st = "idle" /\ child'.id = toChild[1].id /\ child'.n = toChild[1].n /\ child'.p = toChild[1].p
      /\ child'.asked = child.asked
      /\ child'.st = IF toChild[1].n = 0 THEN "run" ELSE "args"
  BY <1>1, ReadsFacts, BaseFacts DEF TypeOK, Children
<1>3. \A i \in 1 .. Len(toChild') : i + 1 \in 1 .. Len(toChild) /\ toChild'[i] = toChild[i + 1]
  BY <1>1, TailIs
<1>4. Len(toChild) \in Nat /\ Len(toChild') = Len(toChild) - 1
  BY <1>1, TailIs
<1>5. PICK lo, a, left \in Nat : Unsent(left) /\ Stream(lo, a, left)
  BY <1>1 DEF Talk, Framed
<1>6. lo = 1 /\ toChild[1].n = a + left /\ lo + a <= Len(toChild)
      /\ (left > 0 => lo + a = Len(toChild))
  BY <1>1, <1>5 DEF Stream
<1>7. \A i \in 1 .. Len(toChild') :
       /\ toChild'[i].k \in {"arg", "answer"}
       /\ toChild'[i].k = "arg" <=> (0 < i /\ i <= 0 + a)
  <2> TAKE i \in 1 .. Len(toChild')
  <2>1. i + 1 \in 1 .. Len(toChild) /\ toChild'[i] = toChild[i + 1] /\ i + 1 # 1
    BY <1>3
  <2> QED
    BY <1>5, <1>6, <2>1 DEF Stream
<1>8. Framed'
  <2>1. Unsent(left)'
    BY <1>1, <1>5 DEF Unsent
  <2>2. 0 + a <= Len(toChild') /\ (left > 0 => 0 + a = Len(toChild'))
    BY <1>4, <1>6
  <2>3. Stream(0, a, left)'
    BY <1>2, <1>6, <1>7, <2>2 DEF Stream
  <2> QED
    BY <1>2, <2>1, <2>3 DEF Framed
<1>9. Asked'
  <2>1. PICK q \in {"none", "asked", "answering", "answered"} : Asking(q)
    BY DEF Talk, Asked
  <2>2. \A i, j \in 1 .. Len(toChild') : toChild'[i].k = "answer" /\ toChild'[j].k = "answer" => i = j
    <3>1. \A i, j \in 1 .. Len(toChild') : i + 1 = j + 1 => i = j
      OBVIOUS
    <3> QED
      BY <1>3, <2>1, <3>1 DEF Asking
  <2>3. \A i \in 1 .. Len(toChild') : toChild'[i].k = "answer" => q = "answered"
    BY <1>3, <2>1 DEF Asking
  <2>4. Asking(q)'
    BY <1>1, <1>2, <2>1, <2>2, <2>3 DEF Asking
  <2> QED
    BY <2>4 DEF Asked
<1>10. PICK s \in Places : At(s)
  BY DEF Talk, OnePlace
<1>11. s = "sent" /\ InPipe(1)
  BY <1>1, <1>10 DEF At, InPipe
<1>12. \A i \in 1 .. Len(toChild') : ~InPipe(i)'
  BY <1>7 DEF InPipe
<1>13. OnePlace'
  <2>1. At("child")'
    BY <1>1, <1>10, <1>11, <1>12 DEF At, Out, Own, AtWorker, Handed
  <2> QED
    BY <2>1 DEF OnePlace, Places
<1>14. Numbered'
  BY <1>1, <1>2, <1>11, <1>12 DEF Talk, Numbered, Same, Out, Own, AtWorker, Handed
<1> QED
  BY <1>1, <1>8, <1>9, <1>13, <1>14 DEF Talk

LEMMA ReadsAnswerTalk ==
  ASSUME Base, Talk, ChildReads, Head(toChild).k = "answer"
  PROVE  Talk'
<1>1. /\ child.alive /\ child'.alive /\ toChild' = Tail(toChild) /\ toChild # <<>>
      /\ toChild \in Seq(Chunks) /\ Head(toChild) = toChild[1] /\ 1 \in 1 .. Len(toChild)
      /\ UNCHANGED <<pc, call, s2c, reply, wpc, wrep, handles, fromChild, hist>>
      /\ Paid' /\ Texts' /\ Aborts' /\ Matched'
  BY ReadsFrame
<1>2. /\ child.st = "idle" /\ child'.id = child.id /\ child'.n = child.n /\ child'.p = child.p
      /\ child'.st = "idle"
  BY <1>1, ReadsFacts, BaseFacts DEF TypeOK, Children
<1>3. \A i \in 1 .. Len(toChild') : i + 1 \in 1 .. Len(toChild) /\ toChild'[i] = toChild[i + 1]
  BY <1>1, TailIs
<1>4. Len(toChild) \in Nat /\ Len(toChild') = Len(toChild) - 1
  BY <1>1, TailIs
<1>5. PICK lo, a, left \in Nat : Unsent(left) /\ Stream(lo, a, left)
  BY <1>1 DEF Talk, Framed
<1>6. /\ lo + a <= Len(toChild) /\ (left > 0 => lo + a = Len(toChild))
      /\ a + left > 0 => lo > 0 /\ toChild[lo].k = "cmd"
  BY <1>2, <1>5 DEF Stream
<1>7. Unsent(left)'
  BY <1>1, <1>5 DEF Unsent
<1>8. Framed'
  <2>1. CASE lo > 1
    <3>1. PICK l \in Nat : l + 1 = lo
      BY <2>1
    <3>2. \A i \in 1 .. Len(toChild') :
         /\ toChild'[i].k \in {"cmd", "arg", "answer"}
         /\ toChild'[i].k = "arg" <=> (l < i /\ i <= l + a)
         /\ toChild'[i].k = "cmd" => i = l /\ toChild'[i].n = a + left
      <4> TAKE i \in 1 .. Len(toChild')
      <4>1. i + 1 \in 1 .. Len(toChild) /\ toChild'[i] = toChild[i + 1]
        BY <1>3
      <4> QED
        BY <1>5, <3>1, <4>1 DEF Stream
    <3>3. PICK n \in Nat : n + 1 = Len(toChild) /\ n = Len(toChild')
      <4>1. Len(toChild) > 0
        BY <1>1, <1>4
      <4>2. Len(toChild') \in Nat /\ Len(toChild') + 1 = Len(toChild)
        BY <1>4, <4>1
      <4> QED
        BY <4>2
    <3>4. l + a <= n /\ (left > 0 => l + a = n)
      BY <1>6, <3>1, <3>3
    <3>5. a + left > 0 => l > 0 /\ toChild'[l].k = "cmd"
      <4>1. a + left > 0 => l \in 1 .. Len(toChild')
        BY <2>1, <3>1, <3>3, <3>4
      <4> QED
        BY <1>3, <1>6, <3>1, <4>1
    <3>6. Stream(l, a, left)'
      BY <1>2, <3>2, <3>3, <3>4, <3>5 DEF Stream
    <3> QED
      BY <1>2, <1>7, <3>6 DEF Framed
  <2>2. CASE lo <= 1
    <3>1. a = 0 /\ left = 0
      <4>1. a + left > 0 => lo = 1
        BY <1>6, <2>2
      <4> QED
        BY <1>1, <1>6, <4>1
    <3>2. \A i \in 1 .. Len(toChild') : toChild'[i].k = "answer"
      <4> TAKE i \in 1 .. Len(toChild')
      <4>1. i + 1 \in 1 .. Len(toChild) /\ toChild'[i] = toChild[i + 1] /\ i + 1 # lo
        BY <1>3, <2>2
      <4> QED
        BY <1>5, <2>2, <3>1, <4>1 DEF Stream
    <3>3. Stream(0, 0, 0)'
      BY <1>2, <1>4, <1>1, <3>2 DEF Stream
    <3> QED
      BY <1>2, <1>7, <3>1, <3>3 DEF Framed
  <2> QED
    BY <2>1, <2>2
<1>9. Asked'
  <2>1. PICK q \in {"none", "asked", "answering", "answered"} : Asking(q)
    BY DEF Talk, Asked
  <2>2. q = "answered"
    BY <1>1, <2>1 DEF Asking
  <2>3. ASSUME NEW i \in 1 .. Len(toChild'), toChild'[i].k = "answer" PROVE FALSE
    <3>1. i + 1 \in 1 .. Len(toChild) /\ toChild[i + 1].k = "answer"
      BY <1>3, <2>3
    <3>2. 1 = i + 1
      BY <1>1, <2>1, <3>1 DEF Asking
    <3> QED
      BY <3>2
  <2>4. Asking("none")'
    BY <1>1, <2>1, <2>2, <2>3 DEF Asking
  <2> QED
    BY <2>4 DEF Asked
<1>10. \A i \in 1 .. Len(toChild') : InPipe(i)' => i + 1 \in 1 .. Len(toChild) /\ InPipe(i + 1) /\ toChild'[i] = toChild[i + 1]
  BY <1>1, <1>3 DEF InPipe
<1>11. OnePlace'
  <2>1. PICK s \in Places : At(s)
    BY DEF Talk, OnePlace
  <2>2. At(s)'
    BY <1>1, <1>2, <1>10, <2>1 DEF At, Out, AtChild, Own, AtWorker, Handed
  <2> QED
    BY <2>2 DEF OnePlace
<1>12. Numbered'
  BY <1>1, <1>2, <1>10 DEF Talk, Numbered, Same, Out, AtChild, Own, AtWorker, Handed
<1> QED
  BY <1>1, <1>8, <1>9, <1>11, <1>12 DEF Talk

LEMMA ReadsArgTalk ==
  ASSUME Base, Talk, ChildReads, Head(toChild).k = "arg"
  PROVE  Talk'
<1>1. /\ child.alive /\ child'.alive /\ toChild' = Tail(toChild) /\ toChild # <<>>
      /\ toChild \in Seq(Chunks) /\ Head(toChild) = toChild[1] /\ 1 \in 1 .. Len(toChild)
      /\ UNCHANGED <<pc, call, s2c, reply, wpc, wrep, handles, fromChild, hist>>
      /\ Paid' /\ Texts' /\ Aborts' /\ Matched'
  BY ReadsFrame
<1>2. /\ child.st = "args" /\ child'.id = child.id /\ child'.n = child.n - 1 /\ child'.p = child.p
      /\ child'.asked = child.asked
      /\ child'.st = IF child.n - 1 = 0 THEN "run" ELSE "args"
  BY <1>1, ReadsFacts, BaseFacts DEF TypeOK, Children
<1>3. \A i \in 1 .. Len(toChild') : i + 1 \in 1 .. Len(toChild) /\ toChild'[i] = toChild[i + 1]
  BY <1>1, TailIs
<1>4. PICK n \in Nat : n + 1 = Len(toChild) /\ n = Len(toChild')
  <2>1. Len(toChild) \in Nat /\ Len(toChild) > 0 /\ Len(toChild') = Len(toChild) - 1
    BY <1>1, TailIs
  <2>2. Len(toChild') \in Nat /\ Len(toChild') + 1 = Len(toChild)
    BY <2>1
  <2> QED
    BY <2>2
<1>5. PICK lo, a, left \in Nat : Unsent(left) /\ Stream(lo, a, left)
  BY <1>1 DEF Talk, Framed
<1>6. /\ lo = 0 /\ child.n = a + left /\ a <= Len(toChild) /\ (left > 0 => a = Len(toChild))
      /\ a > 0
  <2>1. toChild[1].k = "arg" <=> (lo < 1 /\ 1 <= lo + a)
    BY <1>1, <1>5 DEF Stream
  <2> QED
    BY <1>1, <1>2, <1>5, <2>1 DEF Stream
<1>7. PICK b \in Nat : b + 1 = a
  BY <1>6
<1>8. Framed'
  <2>1. Unsent(left)'
    BY <1>1, <1>5 DEF Unsent
  <2>2. 0 + b <= n /\ (left > 0 => 0 + b = n)
    BY <1>4, <1>6, <1>7
  <2>3. \A i \in 1 .. Len(toChild') :
       /\ toChild'[i].k \in {"arg", "answer"}
       /\ toChild'[i].k = "arg" <=> (0 < i /\ i <= 0 + b)
    <3> TAKE i \in 1 .. Len(toChild')
    <3>1. i + 1 \in 1 .. Len(toChild) /\ toChild'[i] = toChild[i + 1]
      BY <1>3
    <3> QED
      BY <1>5, <1>6, <1>7, <3>1 DEF Stream
  <2>4. child'.n = b + left /\ (child'.st # "args" => b + left = 0)
    BY <1>2, <1>6, <1>7
  <2>5. Stream(0, b, left)'
    BY <1>4, <2>2, <2>3, <2>4 DEF Stream
  <2>6. child'.st # "lost"
    BY <1>2
  <2> QED
    BY <2>1, <2>5, <2>6 DEF Framed
<1>9. Asked'
  <2>1. PICK q \in {"none", "asked", "answering", "answered"} : Asking(q)
    BY DEF Talk, Asked
  <2>2. \A i, j \in 1 .. Len(toChild') : toChild'[i].k = "answer" /\ toChild'[j].k = "answer" => i = j
    <3>1. \A i, j \in 1 .. Len(toChild') : i + 1 = j + 1 => i = j
      OBVIOUS
    <3> QED
      BY <1>3, <2>1, <3>1 DEF Asking
  <2>3. \A i \in 1 .. Len(toChild') : toChild'[i].k = "answer" => q = "answered"
    BY <1>3, <2>1 DEF Asking
  <2>4. Asking(q)'
    BY <1>1, <1>2, <2>1, <2>2, <2>3 DEF Asking
  <2> QED
    BY <2>4 DEF Asked
<1>10. \A i \in 1 .. Len(toChild') : InPipe(i)' => i + 1 \in 1 .. Len(toChild) /\ InPipe(i + 1) /\ toChild'[i] = toChild[i + 1]
  BY <1>1, <1>3 DEF InPipe
<1>11. AtChild
  BY <1>1, <1>2 DEF AtChild
<1>12. OnePlace'
  <2>1. PICK s \in Places : At(s)
    BY DEF Talk, OnePlace
  <2>2. At(s)'
    BY <1>1, <1>10, <1>11, <2>1 DEF At, Out, Own, AtWorker, Handed
  <2> QED
    BY <2>2 DEF OnePlace
<1>13. Numbered'
  BY <1>1, <1>2, <1>10, <1>11 DEF Talk, Numbered, Same, Out, Own, AtWorker, Handed
<1> QED
  BY <1>1, <1>8, <1>9, <1>12, <1>13 DEF Talk

\* A chunk that the child sends.
LEMMA SentIs ==
  ASSUME TypeOK, NEW m \in Chunks, fromChild' = Append(fromChild, m)
  PROVE  /\ Len(fromChild) \in Nat /\ Len(fromChild') = Len(fromChild) + 1
         /\ fromChild'[Len(fromChild) + 1] = m
         /\ \A i \in 1 .. Len(fromChild') :
              \/ i = Len(fromChild) + 1 /\ fromChild'[i] = m
              \/ i \in 1 .. Len(fromChild) /\ i # Len(fromChild) + 1 /\ fromChild'[i] = fromChild[i]
         /\ \A i \in 1 .. Len(fromChild) : fromChild'[i] = fromChild[i]
BY AppendIs DEF TypeOK

LEMMA TextsAppend ==
  ASSUME TypeOK, Texts, child.alive, NEW m \in Chunks, fromChild' = Append(fromChild, m),
         m.k = "text" <=> child.st \in {"text", "abort"},
         child'.alive => (m.k = "err" <=> child'.st \in {"text", "abort"}),
         UNCHANGED <<wpc, wrep, handles>>
  PROVE  Texts'
<1> SUFFICES ASSUME handles PROVE Texts'
  BY DEF Texts
<1>1. PICK l \in Nat : l = Len(fromChild)
  BY SentIs
<1>2. \A i \in 0 .. l : TextDue(i)' <=> TextDue(i)
  BY <1>1, SentIs DEF TextDue
<1>3. TextDue(l + 1)' <=> m.k = "err"
  BY <1>1, SentIs DEF TextDue
<1>4. \A i \in 1 .. Len(fromChild') : fromChild'[i].k = "text" <=> TextDue(i - 1)'
  <2> TAKE i \in 1 .. Len(fromChild')
  <2>1. CASE i = l + 1 /\ fromChild'[i] = m
    <3>1. TextDue(l)' <=> child.st \in {"text", "abort"}
      BY <1>1, <1>2 DEF Texts
    <3> QED
      BY <2>1, <3>1
  <2>2. CASE i \in 1 .. l /\ fromChild'[i] = fromChild[i]
    <3>1. TextDue(i - 1)' <=> TextDue(i - 1)
      BY <1>2, <2>2
    <3> QED
      BY <1>1, <2>2, <3>1 DEF Texts
  <2> QED
    BY <1>1, <2>1, <2>2, SentIs
<1>5. child'.alive => (TextDue(Len(fromChild))' <=> child'.st \in {"text", "abort"})
  <2>1. Len(fromChild') = l + 1
    BY <1>1, SentIs
  <2> QED
    BY <1>3, <2>1
<1>6. wpc' = "text" => ~wrep'.rep.ok
  BY DEF Texts
<1> QED
  BY <1>4, <1>5, <1>6 DEF Texts

LEMMA AskedAppend ==
  ASSUME TypeOK, Asked, NEW m \in Chunks, m.k # "request", fromChild' = Append(fromChild, m),
         UNCHANGED <<toChild, wpc, handles>>, child'.asked = child.asked
  PROVE  Asked'
<1>1. PICK q \in {"none", "asked", "answering", "answered"} : Asking(q)
  BY DEF Asked
<1>2. \A i \in 1 .. Len(fromChild') : fromChild'[i].k = "request" => i \in 1 .. Len(fromChild) /\ fromChild[i].k = "request"
  BY SentIs
<1>3. Asking(q)'
  BY <1>1, <1>2 DEF Asking
<1> QED
  BY <1>3 DEF Asked

\* Unless it gives up, no error of a child that gives up is on its way.
LEMMA AbortsAppend ==
  ASSUME TypeOK, Aborts, child.st # "abort", UNCHANGED <<wpc, wrep, s2c, reply, handles>>,
         NEW m \in Chunks, ~(m.k = "err" /\ m.id = 0), fromChild' = Append(fromChild, m)
  PROVE  Aborts'
<1>1. \A i \in 1 .. Len(fromChild) : ~Gone(i) /\ ~Gone(0)
  BY DEF Gone
<1>2. ~Gone(0)
  BY DEF Gone
<1> QED
  BY <1>1, <1>2, SentIs DEF Aborts, Lost

\* What the child says that is neither a reply to a command nor payload.
LEMMA SayTalk ==
  ASSUME Base, Talk, child.alive,
         NEW m \in Chunks, m.k \in {"request", "err", "text"}, m.k = "err" => m.id = 0,
         fromChild' = Append(fromChild, m),
         child.st \in {"idle", "text", "abort"}, child'.st \in {"idle", "text", "abort"},
         child'.n = child.n,
         m.k = "text" <=> child.st \in {"text", "abort"},
         child'.alive => (m.k = "err" <=> child'.st \in {"text", "abort"}),
         UNCHANGED <<pc, call, s2c, reply, wpc, wrep, handles, toChild>>, hist \subseteq hist'
  PROVE  Framed' /\ OnePlace' /\ Numbered' /\ Paid' /\ Texts' /\ Matched'
<1>1. Framed'
  BY FramedFrame DEF Talk
<1>2. \A i \in 1 .. Len(fromChild') : Own(i)' => i \in 1 .. Len(fromChild) /\ Own(i) /\ fromChild'[i] = fromChild[i]
  BY SentIs, BaseFacts DEF Own
<1>3. \A i \in 1 .. Len(toChild') : InPipe(i)' => InPipe(i)
  BY DEF InPipe
<1>4. ~AtChild'
  BY DEF AtChild
<1>5. OnePlace'
  <2>1. PICK s \in Places : At(s)
    BY DEF Talk, OnePlace
  <2>2. At(s)'
    BY <1>2, <1>3, <1>4, <2>1 DEF At, Out, AtWorker, Handed
  <2> QED
    BY <2>2 DEF OnePlace
<1>6. Numbered'
  BY <1>2, <1>3, <1>4 DEF Talk, Numbered, Same, Out, AtWorker, Handed
<1>7. Paid'
  <2> SUFFICES ASSUME handles PROVE \E lo, d, f, g \in Nat : Payload(lo, d, f, g)'
    BY DEF Paid
  <2>1. PICK lo, d, f, g \in Nat : Payload(lo, d, f, g)
    BY DEF Talk, Paid
  <2>2. Front(f, g) => Front(f, g)'
    BY DEF Front, Reader, Given
  <2>3. d = f /\ lo + d <= Len(fromChild) /\ lo + d <= Len(fromChild')
    BY <2>1, SentIs, BaseFacts DEF Payload
  <2>4. \A i \in 1 .. Len(fromChild') :
       /\ fromChild'[i].k \in {"request", "ok", "err", "text", "data"}
       /\ fromChild'[i].k = "data" <=> (lo < i /\ i <= lo + d)
       /\ fromChild'[i].k = "data" => fromChild'[i].id = g
       /\ fromChild'[i].k = "ok" => i = lo /\ fromChild'[i].id # 0
    <3> TAKE i \in 1 .. Len(fromChild')
    <3>1. CASE i = Len(fromChild) + 1 /\ fromChild'[i] = m
      <4>1. ~(i <= lo + d)
        BY <2>3, <3>1, BaseFacts
      <4> QED
        BY <3>1, <4>1
    <3>2. CASE i \in 1 .. Len(fromChild) /\ fromChild'[i] = fromChild[i]
      BY <2>1, <3>2 DEF Payload
    <3> QED
      BY <3>1, <3>2, SentIs, BaseFacts
  <2>5. lo > 0 => /\ fromChild'[lo].k = "ok"
                  /\ \A c \in Callers : Out(c)' => f = call'[c].p /\ g = call'[c].id
    <3> SUFFICES ASSUME lo > 0 PROVE fromChild'[lo].k = "ok" /\ \A c \in Callers : Out(c)' => f = call'[c].p /\ g = call'[c].id
      OBVIOUS
    <3>1. lo \in 1 .. Len(fromChild)
      BY <2>3, BaseFacts
    <3>2. fromChild'[lo] = fromChild[lo]
      BY <3>1, SentIs, BaseFacts
    <3> QED
      BY <2>1, <3>2 DEF Payload, Out
  <2>6. Payload(lo, d, f, g)'
    BY <2>1, <2>2, <2>3, <2>4, <2>5 DEF Payload
  <2> QED
    BY <2>6
<1>8. Texts'
  BY TextsAppend, BaseFacts DEF Talk
<1>9. Matched'
  BY MatchedFrame DEF Talk
<1> QED
  BY <1>1, <1>5, <1>6, <1>7, <1>8, <1>9

LEMMA AsksTalk ==
  ASSUME Base, Talk, ChildAsks
  PROVE  Talk'
<1> DEFINE m == Chunk("request", 0, 0, 0)
<1>1. /\ child.alive /\ child.st = "idle" /\ ~child.asked /\ fromChild' = Append(fromChild, m)
      /\ UNCHANGED <<pc, call, s2c, reply, wpc, wrep, handles, toChild, hist>>
      /\ child'.st = "idle" /\ child'.alive /\ child'.asked /\ child'.n = child.n
  BY BaseFacts DEF TypeOK, Children, ChildAsks, ChildSends, ChildUnchanged, callerVars, syncVars, processVars, workerVars
<1>2. m \in Chunks /\ m.k = "request"
  BY DEF Chunk, Chunks, Kinds
<1> HIDE DEF m
<1>3. Framed' /\ OnePlace' /\ Numbered' /\ Paid' /\ Texts' /\ Matched'
  BY <1>1, <1>2, SayTalk
<1>4. Asked'
  <2>1. PICK q \in {"none", "asked", "answering", "answered"} : Asking(q)
    BY DEF Talk, Asked
  <2>2. q = "none"
    BY <1>1, <2>1 DEF Asking
  <2>3. \A i \in 1 .. Len(fromChild') : fromChild'[i].k = "request" => i = Len(fromChild) + 1
    BY <1>1, <1>2, <2>1, <2>2, SentIs, BaseFacts DEF Asking
  <2>4. \A i, j \in 1 .. Len(fromChild') :
          fromChild'[i].k = "request" /\ fromChild'[j].k = "request" => i = j
    BY <2>3
  <2>5. Asking("asked")'
    BY <1>1, <2>1, <2>2, <2>4 DEF Asking
  <2> QED
    BY <2>5 DEF Asked
<1>5. Aborts'
  BY <1>1, <1>2, AbortsAppend, BaseFacts DEF Talk
<1> QED
  BY <1>3, <1>4, <1>5 DEF Talk

LEMMA AbortTalk ==
  ASSUME Base, Talk, ChildAborts
  PROVE  Talk'
<1> DEFINE m == Chunk("err", 0, 0, 0)
<1>1. /\ child.alive /\ child.st = "idle" /\ fromChild' = Append(fromChild, m)
      /\ UNCHANGED <<pc, call, s2c, reply, wpc, wrep, handles, toChild>>
      /\ hist' = hist \cup {"aborted"}
      /\ child'.st = "abort" /\ child'.alive /\ child'.asked = child.asked /\ child'.n = child.n
  BY BaseFacts DEF TypeOK, Children, ChildAborts, Failure, ChildSends, ChildUnchanged, callerVars, syncVars, processVars, workerVars
<1>2. m \in Chunks /\ m.k = "err" /\ m.id = 0
  BY DEF Chunk, Chunks, Kinds
<1> HIDE DEF m
<1>3. Framed' /\ OnePlace' /\ Numbered' /\ Paid' /\ Texts' /\ Matched'
  BY <1>1, <1>2, SayTalk
<1>4. Asked'
  BY <1>1, <1>2, AskedAppend, BaseFacts DEF Talk
<1>5. Aborts'
  <2> SUFFICES ASSUME handles PROVE Aborts'
    BY <1>1 DEF Aborts
  <2>1. ASSUME NEW i \in Nat PROVE ~Gone(i)
    BY <1>1 DEF Gone
  <2>2. \A i \in 1 .. Len(fromChild') : fromChild'[i].k = "err" /\ fromChild'[i].id = 0 => i = Len(fromChild) + 1
    BY <1>1, <1>2, <2>1, SentIs, BaseFacts DEF Talk, Aborts
  <2>3. ASSUME NEW i \in 1 .. Len(fromChild'), i = Len(fromChild) + 1 PROVE Gone(i)'
    BY <1>1, <1>2, <2>3, SentIs, BaseFacts DEF Gone
  <2>4. /\ ~(wpc = "text" /\ wrep.rep.id = 0) /\ ~(wpc = "signal" /\ wrep.rep.id = 0)
        /\ ~(s2c = 1 /\ reply.id = 0)
    BY <2>1 DEF Talk, Aborts, Lost
  <2> QED
    BY <1>1, <2>2, <2>3, <2>4 DEF Aborts
<1> QED
  BY <1>3, <1>4, <1>5 DEF Talk

\* A child that ends: only what is in the pipes is left of it.
LEMMA DiesTalk ==
  ASSUME Base, Talk, Dies
  PROVE  Talk'
<1>1. /\ ~child'.alive /\ child'.st = child.st /\ child'.asked = child.asked
      /\ UNCHANGED <<pc, call, s2c, reply, wpc, wrep, handles, toChild, fromChild, hist>>
  BY BaseFacts DEF TypeOK, Children, Dies, ChildUnchanged, callerVars, syncVars, processVars, workerVars, pipeVars
<1>2. Framed'
  BY <1>1 DEF Talk, Framed
<1>3. Asked'
  BY <1>1, AskedFrame DEF Talk
<1>4. OnePlace'
  BY <1>1 DEF Talk, OnePlace, At, Out, InPipe, AtChild, Own, AtWorker, Handed
<1>5. Numbered'
  BY <1>1 DEF Talk, Numbered, Same, Out, InPipe, AtChild, Own, AtWorker, Handed
<1>6. Paid'
  <2> SUFFICES ASSUME handles PROVE \E lo, d, f, g \in Nat : Payload(lo, d, f, g)'
    BY <1>1 DEF Paid
  <2>1. PICK lo, d, f, g \in Nat : Payload(lo, d, f, g)
    BY DEF Talk, Paid
  <2>2. Front(f, g) => Front(f, g)'
    BY <1>1 DEF Front, Reader, Given
  <2>3. Payload(lo, d, f, g)'
    BY <1>1, <2>1, <2>2 DEF Payload, Out
  <2> QED
    BY <2>3
<1>7. Texts'
  BY <1>1, TextsFrame DEF Talk
<1>8. Aborts'
  BY <1>1, AbortsFrame DEF Talk
<1>9. Matched'
  BY <1>1, MatchedFrame DEF Talk
<1> QED
  BY <1>2, <1>3, <1>4, <1>5, <1>6, <1>7, <1>8, <1>9 DEF Talk

\* The child carries out the command of the caller that waits for its reply.
LEMMA RunFacts ==
  ASSUME Base, Talk, child.alive, child.st = "run"
  PROVE  /\ handles /\ At("child") /\ ~Given
         /\ \E g \in Nat : Payload(0, 0, 0, g)
         /\ \E c \in Callers : /\ pc[c] = "reply" /\ child.id = call[c].id /\ child.p = call[c].p
                               /\ call[c].id # 0 /\ \A e \in Callers : Out(e) => e = c
<1>1. PICK s \in Places : At(s)
  BY DEF Talk, OnePlace
<1>2. s = "child"
  BY <1>1 DEF At, AtChild
<1>3. PICK c \in Callers : Out(c)
  BY <1>1, <1>2 DEF At
<1>4. handles /\ call[c].id # 0 /\ \A e \in Callers : Out(e) => e = c
  BY <1>3, BaseFacts DEF Base, Opened, Active, Out, Inside
<1>5. pc[c] = "reply"
  <2> SUFFICES ASSUME pc[c] = "args" PROVE FALSE
    BY <1>3 DEF Out
  <2>1. PICK lo, a, left \in Nat : Unsent(left) /\ Stream(lo, a, left)
    BY DEF Talk, Framed
  <2>2. left > 0
    BY <2>1, BaseFacts DEF Unsent, Counters
  <2>3. lo > 0 /\ lo <= Len(toChild) /\ toChild[lo].k = "cmd"
    BY <2>1, <2>2, BaseFacts DEF Stream
  <2>4. lo \in 1 .. Len(toChild) /\ InPipe(lo)
    BY <2>1, <2>3, BaseFacts DEF InPipe
  <2> QED
    BY <1>1, <1>2, <2>4 DEF At
<1>6. child.id = call[c].id /\ child.p = call[c].p
  BY <1>3 DEF Talk, Numbered, Same, AtChild
<1>7. ~Given
  <2>1. wpc = "signal" => wrep.rep.id = 0
    BY <1>1, <1>2, <1>4 DEF At, AtWorker
  <2>2. s2c = 1 => reply.id = 0
    BY <1>1, <1>2, <1>4 DEF At, Handed
  <2> QED
    BY <1>4, <2>1, <2>2 DEF Talk, Aborts, Lost, Given
<1>8. \E g \in Nat : Payload(0, 0, 0, g)
  <2>1. PICK lo, d, f, g \in Nat : Payload(lo, d, f, g)
    BY <1>4 DEF Talk, Paid
  <2>2. lo = 0
    <3> SUFFICES ASSUME lo > 0 PROVE FALSE
      OBVIOUS
    <3>1. lo \in 1 .. Len(fromChild) /\ fromChild[lo].k = "ok"
      BY <2>1, BaseFacts DEF Payload
    <3>2. Own(lo)
      BY <2>1, <3>1 DEF Payload, Own
    <3> QED
      BY <1>1, <1>2, <1>4, <3>1, <3>2 DEF At
  <2>3. \A e \in Callers : ~Reader(e)
    <3>1. \A e \in Callers : Inside(e) => e = c
      BY <1>5, BaseFacts DEF Inside
    <3> QED
      BY <1>5, <1>7, <3>1 DEF Reader, Inside
  <2>4. f = 0 /\ d = 0
    BY <2>1, <2>2, <2>3 DEF Payload, Front
  <2> QED
    BY <2>1, <2>2, <2>4
<1> QED
  BY <1>1, <1>2, <1>4, <1>5, <1>6, <1>7, <1>8

\* What the two replies of the child have in common.
LEMMA ReplyTalk ==
  ASSUME Base, Talk, child.alive, child.st = "run",
         NEW m \in Chunks, m.k \in {"ok", "err"}, m.id = child.id, fromChild' = Append(fromChild, m),
         child'.alive, child'.asked = child.asked, child'.n = child.n,
         child'.st = IF m.k = "err" THEN "text" ELSE IF child.p = 0 THEN "idle" ELSE "data",
         UNCHANGED <<pc, call, s2c, reply, wpc, wrep, handles, toChild, hist>>
  PROVE  Framed' /\ Asked' /\ OnePlace' /\ Numbered' /\ Texts' /\ Aborts' /\ Matched'
<1>1. PICK c \in Callers : /\ pc[c] = "reply" /\ child.id = call[c].id /\ child.p = call[c].p
                           /\ call[c].id # 0 /\ \A e \in Callers : Out(e) => e = c
  BY RunFacts
<1>2. Framed'
  BY FramedFrame DEF Talk
<1>3. Asked'
  BY AskedAppend, BaseFacts DEF Talk
<1>4. \A i \in 1 .. Len(fromChild) : ~Own(i)
  BY RunFacts DEF At
<1>5. \A i \in 1 .. Len(fromChild') : Own(i)' => i = Len(fromChild) + 1 /\ fromChild'[i].id = call[c].id
  BY <1>1, <1>4, SentIs, BaseFacts DEF Own
<1>6. ~AtChild' /\ \A i \in 1 .. Len(toChild') : InPipe(i)' <=> InPipe(i)
  BY DEF AtChild, InPipe
<1>7. OnePlace'
  <2>1. At("back")'
    BY <1>1, <1>5, <1>6, RunFacts DEF At, Out, AtWorker, Handed
  <2> QED
    BY <2>1 DEF OnePlace, Places
<1>8. Numbered'
  <2> SUFFICES ASSUME NEW e \in Callers, Out(e)' PROVE Same(e)'
    BY DEF Numbered
  <2>1. e = c /\ Same(c)
    BY <1>1 DEF Talk, Numbered, Out
  <2> QED
    BY <1>5, <1>6, <2>1 DEF Same, AtWorker, Handed, InPipe
<1>9. Texts'
  BY TextsAppend, BaseFacts DEF Talk
<1>10. Aborts'
  BY <1>1, AbortsAppend, BaseFacts DEF Talk
<1>11. Matched'
  BY MatchedFrame DEF Talk
<1> QED
  BY <1>2, <1>3, <1>7, <1>8, <1>9, <1>10, <1>11

LEMMA RepliesTalk ==
  ASSUME Base, Talk, ChildReplies
  PROVE  Talk'
<1>1. /\ child.alive /\ child.st = "run"
      /\ UNCHANGED <<pc, call, s2c, reply, wpc, wrep, handles, toChild, hist>>
      /\ child'.alive /\ child'.asked = child.asked /\ child'.n = child.n
      /\ child'.id = child.id /\ child'.p = child.p
  BY BaseFacts DEF TypeOK, Children, ChildReplies, ChildSends, ChildUnchanged, callerVars, syncVars, processVars, workerVars
<1>2. PICK c \in Callers : /\ pc[c] = "reply" /\ child.id = call[c].id /\ child.p = call[c].p
                           /\ call[c].id # 0 /\ \A e \in Callers : Out(e) => e = c
  BY <1>1, RunFacts
<1>3. PICK g \in Nat : Payload(0, 0, 0, g)
  BY <1>1, RunFacts
<1>4. child.p \in Nat /\ child.id \in Nat
  BY BaseFacts DEF TypeOK, Children
<1>5. \A e \in Callers : ~Reader(e) /\ ~Reader(e)'
  <2>1. ~Given /\ ~Given'
    BY <1>1, RunFacts DEF Given
  <2>2. \A e \in Callers : Inside(e) => e = c
    BY <1>2, BaseFacts DEF Inside
  <2> QED
    BY <1>1, <1>2, <2>1, <2>2 DEF Reader, Inside
<1>6. \A i \in 1 .. Len(fromChild) : fromChild[i].k \in {"request", "err", "text"}
  BY <1>3 DEF Payload
<1>7. CASE fromChild' = Append(fromChild, Chunk("ok", child.id, 0, 0))
           /\ child' = [child EXCEPT !.st = IF child.p = 0 THEN "idle" ELSE "data"]
  <2> DEFINE m == Chunk("ok", child.id, 0, 0)
  <2>1. m \in Chunks /\ m.k = "ok" /\ m.id = child.id /\ fromChild' = Append(fromChild, m)
    BY <1>4, <1>7 DEF Chunk, Chunks, Kinds
  <2>2. child'.st = IF child.p = 0 THEN "idle" ELSE "data"
    BY <1>7, BaseFacts DEF TypeOK, Children
  <2> HIDE DEF m
  <2>3. Framed' /\ Asked' /\ OnePlace' /\ Numbered' /\ Texts' /\ Aborts' /\ Matched'
    BY <1>1, <2>1, <2>2, ReplyTalk
  <2>4. PICK l, f, h \in Nat : l = Len(fromChild) + 1 /\ f = child.p /\ h = child.id
    BY <1>4, BaseFacts
  <2>5. l = Len(fromChild') /\ l > 0 /\ fromChild'[l] = m
    BY <2>1, <2>4, SentIs, BaseFacts
  <2>6. \A i \in 1 .. Len(fromChild') :
         /\ fromChild'[i].k \in {"request", "ok", "err", "text", "data"}
         /\ fromChild'[i].k # "data"
         /\ fromChild'[i].k = "ok" => i = l /\ fromChild'[i].id # 0
    BY <1>2, <1>6, <2>1, <2>4, SentIs, BaseFacts
  <2>7. child'.alive => IF child'.st = "data" THEN 0 < f /\ child'.p = f - 0 /\ child'.id = h ELSE 0 = f
    BY <1>1, <1>4, <2>2, <2>4
  <2>8. \A e \in Callers : Out(e)' => f = call'[e].p /\ h = call'[e].id
    BY <1>1, <1>2, <2>4 DEF Out
  <2>9. Payload(l, 0, f, h)'
    BY <2>1, <2>5, <2>6, <2>7, <2>8 DEF Payload
  <2>10. Paid'
    BY <2>9 DEF Paid
  <2> QED
    BY <2>3, <2>10 DEF Talk
<1>8. CASE fromChild' = Append(fromChild, Chunk("err", child.id, 0, 0))
           /\ child' = [child EXCEPT !.st = "text"]
  <2> DEFINE m == Chunk("err", child.id, 0, 0)
  <2>1. m \in Chunks /\ m.k = "err" /\ m.id = child.id /\ fromChild' = Append(fromChild, m)
    BY <1>4, <1>8 DEF Chunk, Chunks, Kinds
  <2>2. child'.st = "text"
    BY <1>8, BaseFacts DEF TypeOK, Children
  <2> HIDE DEF m
  <2>3. Framed' /\ Asked' /\ OnePlace' /\ Numbered' /\ Texts' /\ Aborts' /\ Matched'
    BY <1>1, <2>1, <2>2, ReplyTalk
  <2>4. \A i \in 1 .. Len(fromChild') : fromChild'[i].k \in {"request", "err", "text"}
    BY <1>6, <2>1, SentIs, BaseFacts
  <2>5. Front(0, g)'
    BY <1>5 DEF Front
  <2>6. Len(fromChild') \in Nat
    BY <2>1, SentIs, BaseFacts
  <2>7. Payload(0, 0, 0, g)'
    BY <1>1, <2>2, <2>4, <2>5, <2>6 DEF Payload
  <2>8. Paid'
    BY <2>7 DEF Paid
  <2> QED
    BY <2>3, <2>8 DEF Talk
<1> QED
  BY <1>7, <1>8 DEF ChildReplies, ChildSends

\* The payload follows the reply, chunk by chunk.
LEMMA DataTalk ==
  ASSUME Base, Talk, child.alive, child.st = "data",
         fromChild' = Append(fromChild, Chunk("data", child.id, 0, 0)),
         child' = [child EXCEPT !.p = child.p - 1, !.st = IF child.p = 1 THEN "idle" ELSE "data"],
         UNCHANGED <<pc, call, s2c, reply, wpc, wrep, handles, toChild, hist>>
  PROVE  Talk'
<1> DEFINE m == Chunk("data", child.id, 0, 0)
<1>1. m \in Chunks /\ m.k = "data" /\ m.id = child.id /\ fromChild' = Append(fromChild, m)
  BY BaseFacts DEF TypeOK, Children, Chunk, Chunks, Kinds
<1> HIDE DEF m
<1>2. /\ child'.alive /\ child'.asked = child.asked /\ child'.n = child.n /\ child'.id = child.id
      /\ child'.p = child.p - 1 /\ child'.st = IF child.p = 1 THEN "idle" ELSE "data"
  BY BaseFacts DEF TypeOK, Children
<1>3. Framed'
  BY <1>2, FramedFrame DEF Talk
<1>4. Asked'
  BY <1>1, <1>2, AskedAppend, BaseFacts DEF Talk
<1>5. \A i \in 1 .. Len(fromChild') : Own(i)' => i \in 1 .. Len(fromChild) /\ Own(i) /\ fromChild'[i] = fromChild[i]
  BY <1>1, SentIs, BaseFacts DEF Own
<1>6. ~AtChild' /\ \A i \in 1 .. Len(toChild') : InPipe(i)' <=> InPipe(i)
  BY <1>2 DEF AtChild, InPipe
<1>7. OnePlace'
  <2>1. PICK s \in Places : At(s)
    BY DEF Talk, OnePlace
  <2>2. At(s)'
    BY <1>5, <1>6, <2>1 DEF At, Out, AtWorker, Handed
  <2> QED
    BY <2>2 DEF OnePlace
<1>8. Numbered'
  BY <1>5, <1>6 DEF Talk, Numbered, Same, Out, AtWorker, Handed
<1>9. Paid'
  <2> SUFFICES ASSUME handles PROVE \E lo, d, f, g \in Nat : Payload(lo, d, f, g)'
    BY DEF Paid
  <2>1. PICK lo, d, f, g \in Nat : Payload(lo, d, f, g)
    BY DEF Talk, Paid
  <2>2. d < f /\ child.p = f - d /\ child.id = g /\ lo + d = Len(fromChild)
    BY <2>1 DEF Payload
  <2>3. Front(f, g) => Front(f, g)'
    BY DEF Front, Reader, Given
  <2>4. lo + (d + 1) = Len(fromChild')
    BY <1>1, <2>2, SentIs, BaseFacts
  <2>5. \A i \in 1 .. Len(fromChild') :
       /\ fromChild'[i].k \in {"request", "ok", "err", "text", "data"}
       /\ fromChild'[i].k = "data" <=> (lo < i /\ i <= lo + (d + 1))
       /\ fromChild'[i].k = "data" => fromChild'[i].id = g
       /\ fromChild'[i].k = "ok" => i = lo /\ fromChild'[i].id # 0
    <3> TAKE i \in 1 .. Len(fromChild')
    <3>1. CASE i = Len(fromChild) + 1 /\ fromChild'[i] = m
      BY <1>1, <2>2, <3>1
    <3>2. CASE i \in 1 .. Len(fromChild) /\ fromChild'[i] = fromChild[i]
      <4>1. i <= lo + d /\ i <= lo + (d + 1)
        BY <2>2, <3>2
      <4> QED
        BY <2>1, <3>2, <4>1 DEF Payload
    <3> QED
      BY <1>1, <3>1, <3>2, SentIs, BaseFacts
  <2>6. lo > 0 => /\ fromChild'[lo].k = "ok"
                  /\ \A c \in Callers : Out(c)' => f = call'[c].p /\ g = call'[c].id
    <3> SUFFICES ASSUME lo > 0 PROVE fromChild'[lo].k = "ok" /\ \A c \in Callers : Out(c)' => f = call'[c].p /\ g = call'[c].id
      OBVIOUS
    <3>1. lo \in 1 .. Len(fromChild)
      BY <2>2, BaseFacts
    <3>2. fromChild'[lo] = fromChild[lo]
      BY <1>1, <3>1, SentIs, BaseFacts
    <3> QED
      BY <2>1, <3>2 DEF Payload, Out
  <2>7. IF child'.st = "data" THEN d + 1 < f /\ child'.p = f - (d + 1) /\ child'.id = g ELSE d + 1 = f
    BY <1>2, <2>2
  <2>8. d + 1 \in Nat /\ d + 1 <= f
    BY <2>2
  <2>9. Payload(lo, d + 1, f, g)'
    BY <2>1, <2>3, <2>4, <2>5, <2>6, <2>7, <2>8 DEF Payload
  <2> QED
    BY <2>8, <2>9
<1>10. Texts'
  BY <1>1, <1>2, TextsAppend, BaseFacts DEF Talk
<1>11. Aborts'
  BY <1>1, AbortsAppend, BaseFacts DEF Talk
<1>12. Matched'
  BY MatchedFrame DEF Talk
<1> QED
  BY <1>3, <1>4, <1>7, <1>8, <1>9, <1>10, <1>11, <1>12 DEF Talk

LEMMA ContinuesTalk ==
  ASSUME Base, Talk, ChildContinues
  PROVE  Talk'
<1>1. /\ child.alive
      /\ UNCHANGED <<pc, call, s2c, reply, wpc, wrep, handles, toChild, hist>>
  BY DEF ChildContinues, ChildUnchanged, callerVars, syncVars, processVars, workerVars
<1>2. CASE child.st = "data"
  <2>1. /\ fromChild' = Append(fromChild, Chunk("data", child.id, 0, 0))
        /\ child' = [child EXCEPT !.p = child.p - 1, !.st = IF child.p = 1 THEN "idle" ELSE "data"]
    BY <1>2 DEF ChildContinues, ChildSends
  <2> QED
    BY <1>1, <1>2, <2>1, DataTalk
<1>3. CASE child.st = "text"
  <2> DEFINE m == Chunk("text", child.id, 0, 0)
  <2>1. fromChild' = Append(fromChild, m) /\ child' = [child EXCEPT !.st = "idle"]
    BY <1>3 DEF ChildContinues, ChildSends
  <2>2. m \in Chunks /\ m.k = "text"
    BY BaseFacts DEF TypeOK, Children, Chunk, Chunks, Kinds
  <2> HIDE DEF m
  <2>3. child'.st = "idle" /\ child'.asked = child.asked /\ child'.n = child.n /\ child'.alive
    BY <1>1, <2>1, BaseFacts DEF TypeOK, Children
  <2>4. Framed' /\ OnePlace' /\ Numbered' /\ Paid' /\ Texts' /\ Matched'
    BY <1>1, <1>3, <2>1, <2>2, <2>3, SayTalk
  <2>5. Asked'
    BY <1>1, <2>1, <2>2, <2>3, AskedAppend, BaseFacts DEF Talk
  <2>6. Aborts'
    BY <1>1, <1>3, <2>1, <2>2, AbortsAppend, BaseFacts DEF Talk
  <2> QED
    BY <2>4, <2>5, <2>6 DEF Talk
<1>4. CASE child.st = "abort"
  <2> DEFINE m == Chunk("text", 0, 0, 0)
  <2>1. fromChild' = Append(fromChild, m) /\ child' = [child EXCEPT !.alive = FALSE]
    BY <1>4 DEF ChildContinues, ChildSends
  <2>2. m \in Chunks /\ m.k = "text"
    BY DEF Chunk, Chunks, Kinds
  <2> HIDE DEF m
  <2>3. child'.st = "abort" /\ child'.asked = child.asked /\ child'.n = child.n /\ ~child'.alive
    BY <1>4, <2>1, BaseFacts DEF TypeOK, Children
  <2>4. Framed' /\ OnePlace' /\ Numbered' /\ Paid' /\ Texts' /\ Matched'
    BY <1>1, <1>4, <2>1, <2>2, <2>3, SayTalk
  <2>5. Asked'
    BY <1>1, <2>1, <2>2, <2>3, AskedAppend, BaseFacts DEF Talk
  <2>6. Aborts'
    <3> SUFFICES ASSUME handles PROVE Aborts'
      BY <1>1 DEF Aborts
    <3>1. ASSUME NEW i \in Nat, Gone(i) PROVE Gone(i)'
      <4>1. \A j \in 1 .. Len(fromChild') : j > i => fromChild'[j].k = "text"
        BY <2>1, <2>2, <3>1, SentIs, BaseFacts DEF Gone
      <4> QED
        BY <1>1, <2>3, <3>1, <4>1 DEF Gone
    <3>2. \A i \in 1 .. Len(fromChild') : fromChild'[i].k = "err" => i \in 1 .. Len(fromChild) /\ fromChild'[i] = fromChild[i]
      BY <2>1, <2>2, SentIs, BaseFacts
    <3>3. \A i \in 1 .. Len(fromChild') : fromChild'[i].k = "err" /\ fromChild'[i].id = 0 => Gone(i)'
      BY <3>1, <3>2 DEF Talk, Aborts
    <3>4. wpc = "text" /\ wrep.rep.id = 0 => Gone(0)'
      BY <3>1 DEF Talk, Aborts
    <3>5. ~(wpc = "signal" /\ wrep.rep.id = 0) /\ ~(s2c = 1 /\ reply.id = 0)
      BY <1>1 DEF Talk, Aborts, Lost
    <3> QED
      BY <1>1, <3>3, <3>4, <3>5 DEF Aborts
  <2> QED
    BY <2>4, <2>5, <2>6 DEF Talk
<1> QED
  BY <1>2, <1>3, <1>4 DEF ChildContinues

\* The pipes are open while a caller uses them, whatever has broken.
LEMMA CallerOpened ==
  ASSUME TypeOK, CallersTakeTurns, Opened, NEW c \in Callers, Call(c) \/ CallerStep(c)
  PROVE  Opened'
<1>1. /\ \A d \in Callers \ {c} : pc'[d] = pc[d] /\ call'[d] = call[d]
      /\ UNCHANGED life /\ life = "up"
  BY DEF TypeOK, Opened, Call, CallerStep, Lock, Check, Join, Start, StartFails, WriteChunk,
    WriteFails, GetReply, ReadChunk, ReadFails, ReadStarves, Failure, Finish, Unlock, Fail, Goto, processVars
<1>2. CASE Call(c) \/ Lock(c)
  <2>1. UNCHANGED <<handles, child>> /\ pc'[c] \in {"lock", "check"}
    BY <1>2 DEF TypeOK, Call, Lock, Goto, processVars, childVars
  <2>2. call'[c].id # 0
    <3>1. CASE Call(c)
      <4>1. PICK cmd \in Commands, n \in Nat : call' = [call EXCEPT ![c] = [NoCall EXCEPT !.id = tally.issued + 1, !.n = n, !.p = Shape[cmd].reads, !.sized = Shape[cmd].sized]]
        BY <3>1, ShapeType, ClientAssumption DEF Call
      <4>2. tally.issued \in Nat
        BY DEF TypeOK, Tallies
      <4> QED
        BY <4>1, <4>2 DEF TypeOK, NoCall
    <3>2. CASE Lock(c)
      BY <3>2 DEF Lock, Opened
    <3> QED
      BY <1>2, <3>1, <3>2
  <2> QED
    BY <1>1, <2>1, <2>2 DEF Opened, Active
<1>3. CASE ~(Call(c) \/ Lock(c))
  <2>1. Inside(c) /\ pc[c] # "idle"
    BY <1>3 DEF Inside, CallerStep, Check, Join, Start, StartFails, WriteChunk, WriteFails,
      GetReply, ReadChunk, ReadFails, ReadStarves, Failure, Finish, Unlock
  <2>2. \A d \in Callers \ {c} : ~Inside(d)
    BY <2>1 DEF CallersTakeTurns
  <2>3. call'[c].id = call[c].id
    BY <1>3 DEF TypeOK, Calls, CallerStep, Check, Join, Start, StartFails, WriteChunk, WriteFails,
      GetReply, ReadChunk, ReadFails, ReadStarves, Failure, Finish, Unlock, Fail, Goto
  <2>4. \/ UNCHANGED child
        \/ handles' /\ pc'[c] = "head"
    BY <1>3 DEF TypeOK, CallerStep, Check, Join, Start, StartFails, WriteChunk, WriteFails,
      GetReply, ReadChunk, ReadFails, ReadStarves, Failure, Finish, Unlock, Fail, Goto, childVars
  <2>5. /\ ~handles' => ~child'.alive
        /\ pc'[c] \in {"join", "start"} => ~handles'
        /\ pc'[c] = "head" \/ Active(c)' => handles'
    <3>1. CASE Check(c)
      BY <1>1, <3>1 DEF TypeOK, Check, Goto, Opened, Active, childVars
    <3>2. CASE Join(c)
      BY <1>1, <3>2 DEF TypeOK, Join, Goto, Opened, Active, childVars
    <3>3. CASE Start(c)
      BY <3>3 DEF TypeOK, Start, Goto, Active
    <3>4. CASE StartFails(c) \/ WriteFails(c) \/ ReadFails(c) \/ ReadStarves(c) \/ Finish(c) \/ Unlock(c)
      <4>1. UNCHANGED <<handles, child>> /\ pc'[c] \in {"finish", "unlock", "idle"}
        BY <3>4 DEF TypeOK, StartFails, WriteFails, ReadFails, ReadStarves, Failure, Finish, Unlock, Fail, Goto,
          processVars, childVars
      <4> QED
        BY <1>1, <4>1 DEF Opened, Active
    <3>5. CASE WriteChunk(c) \/ GetReply(c) \/ ReadChunk(c)
      <4>1. UNCHANGED <<handles, child>> /\ pc'[c] \in {"args", "reply", "read", "finish"}
        BY <3>5 DEF TypeOK, WriteChunk, GetReply, ReadChunk, Fail, Goto, processVars, childVars
      <4>2. handles
        BY <3>5 DEF WriteChunk, GetReply, ReadChunk, Opened, Active
      <4> QED
        BY <1>1, <4>1, <4>2 DEF Opened
    <3> QED
      BY <1>3, <3>1, <3>2, <3>3, <3>4, <3>5 DEF CallerStep
  <2>6. \A d \in Callers \ {c} : pc'[d] \in {"idle", "lock"}
    BY <1>1, <2>2 DEF Inside
  <2> QED
    BY <1>1, <2>1, <2>3, <2>5, <2>6 DEF Opened, Active
<1> QED
  BY <1>2, <1>3

LEMMA StepOpened ==
  ASSUME TypeOK, CallersTakeTurns, Opened, [Next]_vars
  PROVE  Opened'
<1>1. ASSUME NEW c \in Callers, Call(c) \/ CallerStep(c) PROVE Opened'
  BY <1>1, CallerOpened
<1>2. CASE WorkerStep \/ UNCHANGED vars
  <2>1. UNCHANGED <<pc, call, handles, life, child>>
    BY <1>2 DEF WorkerStep, ReadHeader, HeaderFails, WriteAnswer, AnswerFails, AnswerStarves, Failure, ReadText,
      TextFails, TextStarves, TextLost, Signal, Handshake, WorkerUnlock, vars, callerVars, processVars, childVars
  <2> QED
    BY <2>1 DEF Opened, Active
<1>3. CASE Exit \/ ExitJoin
  BY <1>3 DEF Opened, Active, Exit, ExitJoin, callerVars, childVars
<1>4. CASE ChildStep \/ ChildAsks \/ ChildAborts \/ ChildComplains \/ Crash
  <2>1. UNCHANGED <<pc, call, handles, life>>
    BY <1>4 DEF ChildStep, ChildReads, ChildReplies, ChildContinues, ChildEof, ChildAsks,
      ChildAborts, Failure, ChildComplains, Crash, Dies, ChildUnchanged, callerVars, processVars
  <2>2. child'.alive => child.alive
    BY <1>4 DEF ChildStep, ChildReads, ChildReplies, ChildContinues, ChildEof, ChildAsks,
      ChildAborts, Failure, ChildComplains, Crash, Dies, TypeOK, Children
  <2> QED
    BY <2>1, <2>2 DEF Opened, Active
<1> QED
  BY <1>1, <1>2, <1>3, <1>4 DEF Next

-----------------------------------------------------------------------------
\* The steps of a caller that touch no pipe.
LEMMA CallerQuietTalk ==
  ASSUME Base, Talk, NEW c \in Callers, Clean',
         \/ Call(c) \/ Lock(c) \/ Check(c) \/ Join(c) \/ StartFails(c) \/ Finish(c) \/ Unlock(c)
  PROVE  Talk'
<1>1. TypeOK /\ NoReplyYet
  BY DEF Base, HandInv, Rest, Typed
<1>2. /\ UNCHANGED <<toChild, fromChild, child, s2c, reply, wrep, wpc>>
      /\ \A d \in Callers \ {c} : pc'[d] = pc[d] /\ call'[d] = call[d]
      /\ ~Active(c) /\ ~Active(c)'
      /\ hist \subseteq hist' /\ (handles' => handles)
  <2>1. UNCHANGED <<toChild, fromChild, child, s2c, reply, wrep, wpc>>
    BY DEF Call, Lock, Check, Join, StartFails, Failure, Finish, Unlock, syncVars, workerVars, pipeVars,
      childVars
  <2>2. hist \subseteq hist' /\ (handles' => handles)
    <3>1. CASE Check(c)
      BY <3>1 DEF Check
    <3>2. CASE Finish(c)
      BY <3>2 DEF Finish, processVars
    <3>3. CASE Call(c) \/ StartFails(c)
      <4>1. UNCHANGED <<hist, handles>>
        BY <3>3 DEF Call, StartFails, Failure, processVars
      <4> QED
        BY <4>1
    <3>4. CASE Lock(c) \/ Join(c) \/ Unlock(c)
      BY <3>4 DEF Lock, Join, Unlock, processVars
    <3> QED
      BY <3>1, <3>2, <3>3, <3>4
  <2>3. \A d \in Callers \ {c} : pc'[d] = pc[d] /\ call'[d] = call[d]
    BY <1>1 DEF TypeOK, Call, Lock, Check, Join, StartFails, Failure, Finish, Unlock, Fail, Goto
  <2>4. ~Active(c) /\ ~Active(c)'
    BY <1>1 DEF TypeOK, Active, Call, Lock, Check, Join, StartFails, Failure, Finish, Unlock, Fail, Goto
  <2> QED
    BY <2>1, <2>2, <2>3, <2>4
<1>3. Quiet
  BY <1>2 DEF Quiet, Active
<1>4. Matches(c)'
  <2>1. CASE Call(c) \/ Unlock(c)
    BY <1>1, <2>1 DEF TypeOK, Call, Unlock, Goto, Matches, Inside
  <2>2. CASE Lock(c) \/ StartFails(c)
    <3>1. ~call[c].took
      BY <1>1, <2>2 DEF NoReplyYet, Lock, StartFails, Failure
    <3>2. call'[c].took = call[c].took
      BY <1>1, <2>2 DEF TypeOK, Calls, Lock, StartFails, Failure, Fail
    <3> QED
      BY <3>1, <3>2 DEF Matches
  <2>3. CASE Check(c) \/ Join(c) \/ Finish(c)
    BY <1>2, <2>3 DEF Check, Join, Finish, Talk, Matched, Matches, Inside
  <2> QED
    BY <2>1, <2>2, <2>3
<1>5. Matched'
  BY <1>2, <1>4 DEF Talk, Matched, Matches, Inside
<1> QED
  BY <1>3, <1>5, QuietTalk

\* The steps of the worker that touch no pipe, and ipc_exit.
LEMMA WorkerQuietTalk ==
  ASSUME Base, Talk, Clean',
         \/ HeaderFails \/ AnswerFails \/ Handshake \/ WorkerUnlock
         \/ Exit \/ ExitJoin \/ UNCHANGED vars
  PROVE  Talk'
<1>1. /\ UNCHANGED <<toChild, fromChild, child, s2c, reply, wrep, pc, call>>
      /\ hist \subseteq hist' /\ (handles' => handles)
  BY DEF HeaderFails, AnswerFails, Handshake, WorkerUnlock, WorkerReturns, WorkerGoto, Exit,
    ExitJoin, vars, callerVars, syncVars, processVars, workerVars, pipeVars, childVars
<1>2. \/ wpc' = wpc
      \/ wpc \notin {"text", "signal"} /\ wpc' \notin {"text", "signal", "answer"}
  BY DEF HeaderFails, AnswerFails, Handshake, WorkerUnlock, WorkerReturns, WorkerGoto, Exit,
    ExitJoin, vars, workerVars
<1>3. Quiet
  BY <1>1, <1>2 DEF Quiet, Active
<1>4. Matched'
  BY <1>1, MatchedFrame DEF Talk
<1> QED
  BY <1>3, <1>4, QuietTalk

LEMMA CallerTalk ==
  ASSUME Base, Talk, Clean', NEW c \in Callers, Call(c) \/ CallerStep(c)
  PROVE  Talk'
<1>1. CASE WriteChunk(c)
  BY <1>1, HeadTalk, ArgTalk DEF WriteChunk
<1>2. ~ReadStarves(c)
  BY DEF ReadStarves, Clean
<1> QED
  BY <1>1, <1>2, CallerQuietTalk, StartTalk, GiveUpTalk, GetReplyTalk, ReadChunkTalk DEF CallerStep

LEMMA WorkerTalk ==
  ASSUME Base, Talk, Clean', WorkerStep
  PROVE  Talk'
<1>1. ~AnswerStarves /\ ~TextStarves
  BY DEF AnswerStarves, TextStarves, Clean
<1> QED
  BY <1>1, WorkerQuietTalk, ReadHeaderTalk, WriteAnswerTalk, ReadTextTalk, TextFailsTalk, SignalTalk
  DEF WorkerStep

LEMMA ChildTalk ==
  ASSUME Base, Talk, ChildStep \/ ChildAsks \/ ChildAborts \/ ChildComplains \/ Crash
  PROVE  Talk'
<1>1. CASE ChildReads
  <2>1. Head(toChild).k \in {"cmd", "arg", "answer"}
    BY <1>1, ReadsFacts
  <2> QED
    BY <1>1, <2>1, ReadsCmdTalk, ReadsAnswerTalk, ReadsArgTalk
<1>2. CASE ChildComplains
  BY <1>2 DEF ChildComplains, Talk, Framed
<1>3. CASE Crash \/ ChildEof
  BY <1>3, DiesTalk DEF Crash, ChildEof
<1> QED
  BY <1>1, <1>2, <1>3, RepliesTalk, ContinuesTalk, AsksTalk, AbortTalk DEF ChildStep

\* What has happened stays.
LEMMA HistGrows ==
  ASSUME [Next]_vars
  PROVE  hist \subseteq hist'
<1>1. ASSUME NEW c \in Callers, Call(c) \/ CallerStep(c) PROVE hist \subseteq hist'
  BY <1>1 DEF Call, CallerStep, Lock, Check, Join, Start, StartFails, WriteChunk, WriteFails,
    GetReply, ReadChunk, ReadFails, ReadStarves, Failure, Finish, Unlock
<1>2. CASE WorkerStep
  BY <1>2 DEF WorkerStep, ReadHeader, HeaderFails, WriteAnswer, AnswerFails, AnswerStarves, Failure, ReadText,
    TextFails, TextStarves, TextLost, Signal, Handshake, WorkerUnlock, WorkerReturns
<1>3. CASE Exit \/ ExitJoin \/ UNCHANGED vars
  BY <1>3 DEF Exit, ExitJoin, vars
<1>4. CASE ChildStep \/ ChildAsks \/ ChildAborts \/ ChildComplains \/ Crash
  BY <1>4 DEF ChildStep, ChildReads, ChildReplies, ChildContinues, ChildEof, ChildAsks,
    ChildAborts, Failure, ChildComplains, Crash, Dies
<1> QED
  BY <1>1, <1>2, <1>3, <1>4 DEF Next

LEMMA StaysClean ==
  ASSUME [Next]_vars, Clean'
  PROVE  Clean
BY HistGrows DEF Clean

LEMMA InitTalk == Init => TalkInv
<1> SUFFICES ASSUME Init PROVE TalkInv
  OBVIOUS
<1>1. HandInv
  BY InitTyped, InitRest DEF HandInv
<1>2. Opened
  BY DEF Init, Opened, Active, NoChild, NewChild
<1>3. /\ ~child.alive /\ child.st = "idle" /\ ~handles /\ toChild = <<>> /\ fromChild = <<>>
      /\ Len(toChild) = 0 /\ Len(fromChild) = 0
      /\ \A c \in Callers : pc[c] = "idle"
  BY DEF Init, NoChild, NewChild
<1>4. Framed
  BY <1>3 DEF Framed
<1>5. Asked
  BY <1>3 DEF Asked, Asking
<1>6. OnePlace
  BY <1>3 DEF OnePlace, Places, At, InPipe, AtChild
<1>7. Numbered /\ Paid /\ Texts /\ Aborts /\ Matched
  BY <1>3 DEF Numbered, Out, Paid, Texts, Aborts, Matched, Matches, Inside
<1> QED
  BY <1>1, <1>2, <1>4, <1>5, <1>6, <1>7 DEF TalkInv, Talk

LEMMA StepTalk ==
  ASSUME TurnsAssumption, TalkInv, [Next]_vars
  PROVE  TalkInv'
<1>1. HandInv /\ TypeOK /\ CallersTakeTurns /\ Opened
  BY OwnedTurns DEF TalkInv, HandInv, Rest, Typed
<1>2. HandInv'
  BY <1>1, StepRest
<1>3. Opened'
  BY <1>1, StepOpened
<1>4. ASSUME Clean' PROVE Talk'
  <2>1. Base /\ Talk
    BY <1>1, <1>4, StaysClean DEF Base, TalkInv
  <2> QED
    BY <1>4, <2>1, CallerTalk, WorkerTalk, ChildTalk, WorkerQuietTalk DEF Next
<1> QED
  BY <1>2, <1>3, <1>4 DEF TalkInv

LEMMA AlwaysTalk == TurnsAssumption => (Spec => []TalkInv)
<1> SUFFICES ASSUME TurnsAssumption PROVE Spec => []TalkInv
  OBVIOUS
<1>1. TalkInv /\ [Next]_vars => TalkInv'
  BY StepTalk
<1> QED
  BY <1>1, InitTalk, PTL DEF Spec

\* The child takes every chunk for what it was meant to be, unless the worker wrote its
\* answer into a command or a failed command signalled c2s.
THEOREM FramingStays == TurnsAssumption => (Spec => []FramingKept)
<1> SUFFICES ASSUME TurnsAssumption PROVE Spec => []FramingKept
  OBVIOUS
<1>1. TalkInv => FramingKept
  BY DEF TalkInv, Clean, Talk, Framed, FramingKept
<1> QED
  BY <1>1, AlwaysTalk, PTL

\* A caller takes the reply and the payload of its own command, over every restart of the
\* child; the only other reply is the error of a child that gives up.
THEOREM RepliesAreOwn == TurnsAssumption => (Spec => []RepliesMatch)
<1> SUFFICES ASSUME TurnsAssumption PROVE Spec => []RepliesMatch
  OBVIOUS
<1>1. TalkInv => RepliesMatch
  BY DEF TalkInv, Clean, Talk, Matched, Matches, RepliesMatch
<1> QED
  BY <1>1, AlwaysTalk, PTL

-----------------------------------------------------------------------------
(* The refinement.  A call of another process needs to know besides that a *)
(* command was issued before it is served, and that success was earned.    *)

\* The promise is off.
Off == hist \cap {"mixed", "starved", "leftover", "swallowed"} # {}

\* A command on its way is not newer than the newest call, nor is one that was served.
Issued(i) == \E c \in Callers : i <= call[c].id
Known ==
  /\ \A c \in Callers : call[c].id <= tally.issued
  /\ \A i \in served : i <= tally.issued
  /\ \A i \in 1 .. Len(toChild) : toChild[i].k = "cmd" => Issued(toChild[i].id)
  /\ child.st \in {"args", "run"} => Issued(child.id)

\* What is reported as a success was served, on the whole way from the child to the end
\* of the call.
Earned(i) == i \in served \/ Off
Succeeds ==
  /\ \A i \in 1 .. Len(fromChild) : fromChild[i].k = "ok" => fromChild[i].id \in served
  /\ handles /\ wpc = "signal" /\ wrep.rep.ok => Earned(wrep.rep.id)
  /\ handles /\ s2c = 1 /\ reply.ok => Earned(reply.id)
  /\ \A c \in Callers :
       pc[c] \in {"read", "finish", "unlock"} /\ ~call[c].err => Earned(call[c].id)

CallInv == TalkInv /\ Known /\ Succeeds

\* Commands stay known while none is issued or served.
LEMMA KnownFrame ==
  ASSUME Known, UNCHANGED <<served, call>>, tally'.issued = tally.issued,
         \A i \in 1 .. Len(toChild') : toChild'[i].k = "cmd" => Issued(toChild'[i].id),
         child'.st \in {"args", "run"} => Issued(child'.id)
  PROVE  Known'
BY DEF Known, Issued

LEMMA CallerKnown ==
  ASSUME TypeOK, Known, NEW c \in Callers, Call(c) \/ CallerStep(c)
  PROVE  Known'
<1>1. call \in [Callers -> Calls] /\ tally.issued \in Nat /\ \A d \in Callers : call[d].id \in Nat
  BY DEF TypeOK, Calls, Tallies
<1>2. CASE Call(c)
  <2>1. PICK cmd \in Commands, n \in Nat : call' = [call EXCEPT ![c] = [NoCall EXCEPT !.id = tally.issued + 1, !.n = n, !.p = Shape[cmd].reads, !.sized = Shape[cmd].sized]]
    BY <1>2, ShapeType, ClientAssumption DEF Call
  <2>2. call'[c].id = tally.issued + 1 /\ \A d \in Callers \ {c} : call'[d] = call[d]
    BY <1>1, <2>1 DEF NoCall
  <2>3. tally'.issued = tally.issued + 1
    BY <1>2 DEF Call, Count, TypeOK, Tallies
  <2>4. UNCHANGED <<served, toChild, child>>
    BY <1>2 DEF Call, pipeVars, childVars
  <2>5. \A d \in Callers : call[d].id <= call'[d].id /\ call'[d].id \in Nat /\ call'[d].id <= tally'.issued
    BY <1>1, <2>2, <2>3 DEF Known
  <2>6. \A i \in Nat : Issued(i) => Issued(i)'
    BY <1>1, <2>5 DEF Issued
  <2>7. /\ \A i \in 1 .. Len(toChild) : toChild[i].id \in Nat
        /\ child.id \in Nat /\ served \subseteq Nat
    <3>1. \A i \in 1 .. Len(toChild) : toChild[i] \in Chunks
      BY DEF TypeOK
    <3>2. child.id \in Nat /\ served \subseteq Nat
      BY DEF TypeOK, Children
    <3> QED
      BY <3>1, <3>2 DEF Chunks
  <2> QED
    BY <1>1, <2>3, <2>4, <2>5, <2>6, <2>7 DEF Known
<1>3. CASE ~Call(c)
  <2>1. served' = served /\ tally'.issued = tally.issued /\ \A d \in Callers : call'[d].id = call[d].id
    <3>1. served' = served
      BY <1>3 DEF CallerStep, Lock, Check, Join, Start, StartFails, WriteChunk, WriteFails,
        GetReply, ReadChunk, ReadFails, ReadStarves, Failure, Finish, Unlock, childVars
    <3>2. tally'.issued = tally.issued
      BY <1>3 DEF CallerStep, Lock, Check, Join, Start, StartFails, WriteChunk, WriteFails,
        GetReply, ReadChunk, ReadFails, ReadStarves, Failure, Finish, Unlock, Count, TypeOK, Tallies
    <3>3. \A d \in Callers : call'[d].id = call[d].id
      <4>1. \A d \in Callers \ {c} : call'[d] = call[d]
        BY <1>1, <1>3 DEF CallerStep, Lock, Check, Join, Start, StartFails, WriteChunk, WriteFails,
          GetReply, ReadChunk, ReadFails, ReadStarves, Failure, Finish, Unlock, Fail
      <4> DEFINE Kept == call'[c].id = call[c].id
      <4>2. ASSUME StartFails(c) \/ WriteFails(c) \/ ReadFails(c) \/ ReadStarves(c) PROVE Kept
        BY <1>1, <4>2 DEF Calls, StartFails, WriteFails, ReadFails, ReadStarves, Failure, Fail
      <4>3. ASSUME WriteChunk(c) PROVE Kept
        BY <1>1, <4>3 DEF Calls, WriteChunk
      <4>4. ASSUME GetReply(c) PROVE Kept
        BY <1>1, <4>4 DEF Calls, GetReply
      <4>5. ASSUME ReadChunk(c) PROVE Kept
        BY <1>1, <4>5 DEF Calls, ReadChunk, Fail
      <4>6. ASSUME Lock(c) \/ Check(c) \/ Join(c) \/ Start(c) \/ Finish(c) \/ Unlock(c) PROVE Kept
        BY <4>6 DEF Lock, Check, Join, Start, Finish, Unlock
      <4>7. call'[c].id = call[c].id
        BY <1>3, <4>2, <4>3, <4>4, <4>5, <4>6 DEF CallerStep
      <4> QED
        BY <4>1, <4>7
    <3> QED
      BY <3>1, <3>2, <3>3
  <2>2. child'.st \in {"args", "run"} => child' = child
    BY <1>3 DEF NewChild, CallerStep, Lock, Check, Join, Start, StartFails, WriteChunk,
      WriteFails, GetReply, ReadChunk, ReadFails, ReadStarves, Failure, Finish, Unlock, childVars
  <2>3. \A i \in 1 .. Len(toChild') : toChild'[i].k = "cmd" => Issued(toChild'[i].id)
    <3>1. CASE WriteChunk(c)
      <4>1. PICK m \in Chunks : toChild' = Append(toChild, m) /\ (m.k = "cmd" => m.id = call[c].id)
        <5>1. Chunk("cmd", call[c].id, call[c].n, call[c].p) \in Chunks /\ Chunk("arg", call[c].id, 0, 0) \in Chunks
          BY <1>1 DEF Calls, Chunk, Chunks, Kinds
        <5> QED
          BY <3>1, <5>1 DEF WriteChunk, Chunk
      <4>2. \A i \in 1 .. Len(toChild') : i \in 1 .. Len(toChild) \/ i = Len(toChild) + 1
        BY <4>1, AppendIs DEF TypeOK
      <4>3. Issued(call[c].id)
        BY <1>1 DEF Issued
      <4> QED
        BY <4>1, <4>2, <4>3, AppendIs DEF TypeOK, Known
    <3>2. CASE ~WriteChunk(c)
      <4>1. toChild' = toChild \/ toChild' = <<>>
        BY <1>3, <3>2 DEF CallerStep, Lock, Check, Join, Start, StartFails,
          WriteFails, GetReply, ReadChunk, ReadFails, ReadStarves, Failure, Finish, Unlock, pipeVars
      <4>2. CASE toChild' = <<>>
        BY <4>2
      <4> QED
        BY <4>1, <4>2 DEF Known
    <3> QED
      BY <3>1, <3>2
  <2>4. \A i : Issued(i) => Issued(i)'
    BY <2>1 DEF Issued
  <2> QED
    BY <2>1, <2>2, <2>3, <2>4 DEF Known
<1> QED
  BY <1>2, <1>3

LEMMA WorkerKnown ==
  ASSUME TypeOK, Known, WorkerStep \/ Exit \/ ExitJoin \/ UNCHANGED vars
  PROVE  Known'
<1>1. UNCHANGED <<served, call, child>> /\ tally'.issued = tally.issued
  BY DEF TypeOK, Tallies, WorkerStep, ReadHeader, HeaderFails, WriteAnswer, AnswerFails, AnswerStarves, Failure, Count, ReadText, TextFails, TextStarves, TextLost,
    Signal, Handshake, WorkerUnlock, Exit, ExitJoin, vars, callerVars, childVars
<1>2. \A i \in 1 .. Len(toChild') : toChild'[i].k = "cmd" => Issued(toChild'[i].id)
  <2>1. CASE WriteAnswer
    <3>1. Chunk("answer", 0, 0, 0) \in Chunks /\ Chunk("answer", 0, 0, 0).k # "cmd"
      BY DEF Chunk, Chunks, Kinds
    <3>2. toChild' = Append(toChild, Chunk("answer", 0, 0, 0))
      BY <2>1 DEF WriteAnswer
    <3>3. \A i \in 1 .. Len(toChild') : i \in 1 .. Len(toChild) \/ i = Len(toChild) + 1
      BY <3>1, <3>2, AppendIs DEF TypeOK
    <3> QED
      BY <3>1, <3>2, <3>3, AppendIs DEF TypeOK, Known
  <2>2. CASE ~WriteAnswer
    <3>1. toChild' = toChild
      BY <2>2 DEF WorkerStep, ReadHeader, HeaderFails, AnswerFails, AnswerStarves, Failure, ReadText, TextFails, TextStarves, TextLost,
        Signal, Handshake, WorkerUnlock, Exit, ExitJoin, vars, pipeVars
    <3> QED
      BY <3>1 DEF Known
  <2> QED
    BY <2>1, <2>2
<1> QED
  BY <1>1, <1>2, KnownFrame DEF Known

LEMMA ChildKnown ==
  ASSUME TypeOK, Known, ChildStep \/ ChildAsks \/ ChildAborts \/ ChildComplains \/ Crash
  PROVE  Known'
<1>1. UNCHANGED call /\ tally'.issued = tally.issued
  BY DEF ChildStep, ChildReads, ChildReplies, ChildContinues, ChildEof, ChildAsks, ChildAborts, Failure,
    ChildComplains, Crash, Dies, ChildUnchanged, callerVars, Count, TypeOK, Tallies
<1>2. CASE ChildReads
  <2>1. served' = served /\ toChild # <<>> /\ toChild' = Tail(toChild)
    BY <1>2 DEF ChildReads
  <2>2. \A i \in 1 .. Len(toChild') : toChild'[i].k = "cmd" => Issued(toChild'[i].id)
    BY <2>1, TailIs DEF TypeOK, Known
  <2>3. child'.st \in {"args", "run"} => Issued(child'.id)
    <3>1. \/ child'.st \notin {"args", "run"}
          \/ child'.id = Head(toChild).id /\ Head(toChild).k = "cmd"
          \/ child'.id = child.id /\ child.st = "args"
      BY <1>2 DEF ChildReads, TypeOK, Children
    <3>2. Head(toChild) = toChild[1] /\ 1 \in 1 .. Len(toChild)
      BY <2>1, TailIs DEF TypeOK
    <3> QED
      BY <3>1, <3>2 DEF Known
  <2> QED
    BY <1>1, <2>1, <2>2, <2>3, KnownFrame
<1>3. CASE ~ChildReads
  <2>1. toChild' = toChild
    BY <1>3 DEF ChildStep, ChildReplies, ChildContinues, ChildEof, ChildAsks, ChildAborts, Failure,
      ChildComplains, Crash, Dies, pipeVars
  <2>2. child'.st \in {"args", "run"} => child.st = child'.st /\ child'.id = child.id
    <3>1. CASE ChildReplies
      BY <3>1 DEF ChildReplies, ChildSends, TypeOK, Children
    <3>2. CASE ChildContinues
      BY <3>2 DEF ChildContinues, ChildSends, TypeOK, Children
    <3>3. CASE ChildEof \/ Crash
      BY <3>3 DEF ChildEof, Crash, Dies, TypeOK, Children
    <3>4. CASE ChildAsks \/ ChildAborts \/ ChildComplains
      BY <3>4 DEF ChildAsks, ChildAborts, Failure, ChildComplains, ChildSends, TypeOK, Children
    <3> QED
      BY <1>3, <3>1, <3>2, <3>3, <3>4 DEF ChildStep
  <2>3. \A i \in served' : i <= tally.issued
    <3>1. CASE ChildReplies
      <4>1. PICK c \in Callers : child.id <= call[c].id
        BY <3>1 DEF ChildReplies, Known, Issued
      <4>2. child.id \in Nat /\ call[c].id \in Nat /\ tally.issued \in Nat /\ call[c].id <= tally.issued
        BY DEF TypeOK, Children, Calls, Tallies, Known
      <4>3. \A i \in served' : i \in served \/ i = child.id
        BY <3>1 DEF ChildReplies
      <4> QED
        BY <4>1, <4>2, <4>3 DEF Known
    <3>2. CASE ~ChildReplies
      <4>1. served' = served
        BY <1>3, <3>2 DEF ChildStep, ChildContinues, ChildEof, ChildAsks, ChildAborts, Failure,
          ChildComplains, Crash, Dies
      <4> QED
        BY <4>1 DEF Known
    <3> QED
      BY <3>1, <3>2
  <2> QED
    BY <1>1, <2>1, <2>2, <2>3 DEF Known, Issued
<1> QED
  BY <1>2, <1>3

LEMMA StepKnown ==
  ASSUME TypeOK, Known, [Next]_vars
  PROVE  Known'
BY CallerKnown, WorkerKnown, ChildKnown DEF Next

\* What was earned stays so.
LEMMA EarnedStays ==
  ASSUME [Next]_vars
  PROVE  (Off => Off') /\ \A i : Earned(i) => (i \in served' \/ Off')
<1>1. served \subseteq served'
  <2>1. ASSUME NEW c \in Callers, Call(c) \/ CallerStep(c) PROVE served' = served
    BY <2>1 DEF Call, CallerStep, Lock, Check, Join, Start, StartFails, WriteChunk, WriteFails,
      GetReply, ReadChunk, ReadFails, ReadStarves, Failure, Finish, Unlock, childVars
  <2>2. CASE WorkerStep
    BY <2>2 DEF WorkerStep, ReadHeader, HeaderFails, WriteAnswer, AnswerFails, AnswerStarves, Failure, ReadText,
      TextFails, TextStarves, TextLost, Signal, Handshake, WorkerUnlock, childVars
  <2>3. CASE Exit \/ ExitJoin \/ UNCHANGED vars
    BY <2>3 DEF Exit, ExitJoin, vars, childVars
  <2>4. CASE ChildStep \/ ChildAsks \/ ChildAborts \/ ChildComplains \/ Crash
    BY <2>4 DEF ChildStep, ChildReads, ChildReplies, ChildContinues, ChildEof, ChildAsks,
      ChildAborts, Failure, ChildComplains, Crash, Dies
  <2> QED
    BY <2>1, <2>2, <2>3, <2>4 DEF Next
<1> QED
  BY <1>1, HistGrows DEF Earned, Off

LEMMA OffUnlessClean == ~Off => Clean
BY DEF Off, Clean

\* A success that a caller takes is that of its own command.
LEMMA TakenIsEarned ==
  ASSUME HandInv, CallersTakeTurns, TalkInv, Succeeds,
         NEW c \in Callers, pc[c] = "reply", s2c = 1, reply.ok
  PROVE  Earned(call[c].id)
<1> SUFFICES ASSUME ~Off PROVE call[c].id \in served
  BY DEF Earned
<1>1. Base /\ Talk
  BY OffUnlessClean DEF Base, TalkInv
<1>2. reply.id \in served
  BY DEF Succeeds, TalkInv, Opened, Active, Earned
<1>3. reply.id # 0
  BY <1>1, HandedFacts DEF Lost, Off
<1> QED
  BY <1>1, <1>2, <1>3, HandedFacts

LEMMA CallerSucceeds ==
  ASSUME HandInv, CallersTakeTurns, TalkInv, Succeeds, [Next]_vars,
         NEW c \in Callers, Call(c) \/ CallerStep(c)
  PROVE  Succeeds'
<1>1. TypeOK /\ Handover
  BY DEF HandInv, Typed, Rest
<1>2. /\ \A d \in Callers \ {c} : pc'[d] = pc[d] /\ call'[d] = call[d]
      /\ served' = served
  BY <1>1 DEF TypeOK, Call, CallerStep, Lock, Check, Join, Start, StartFails, WriteChunk, WriteFails,
    GetReply, ReadChunk, ReadFails, ReadStarves, Failure, Finish, Unlock, Fail, Goto, childVars
<1>3. /\ handles' /\ wpc' = "signal" => handles /\ wpc = "signal" /\ wrep' = wrep
      /\ s2c' = 1 => s2c = 1 /\ reply' = reply
      /\ handles' => handles \/ Start(c)
  <2>1. CASE Start(c)
    BY <2>1 DEF Start, syncVars
  <2>2. CASE Check(c)
    BY <2>2 DEF Check, syncVars, workerVars
  <2>3. CASE GetReply(c)
    BY <2>3 DEF GetReply, processVars, workerVars
  <2>4. CASE ~(Start(c) \/ Check(c) \/ GetReply(c))
    <3>1. UNCHANGED <<s2c, reply, handles, wpc, wrep>>
      BY <2>4 DEF Call, CallerStep, Lock, Join, StartFails, WriteChunk, WriteFails, ReadChunk,
        ReadFails, ReadStarves, Failure, Finish, Unlock, syncVars, processVars, workerVars
    <3> QED
      BY <3>1
  <2> QED
    BY <2>1, <2>2, <2>3, <2>4
<1>4. \A i \in 1 .. Len(fromChild') : fromChild'[i].k = "ok" => fromChild'[i].id \in served'
  <2>1. \/ fromChild' = fromChild
        \/ fromChild' = <<>>
        \/ fromChild # <<>> /\ fromChild' = Tail(fromChild)
    BY DEF Call, CallerStep, Lock, Check, Join, Start, StartFails, WriteChunk, WriteFails,
      GetReply, ReadChunk, ReadFails, ReadStarves, Failure, Finish, Unlock, pipeVars
  <2>2. CASE fromChild' = <<>>
    BY <2>2
  <2>3. CASE fromChild # <<>> /\ fromChild' = Tail(fromChild)
    BY <1>1, <1>2, <2>3, TailIs DEF TypeOK, Succeeds, Earned
  <2> QED
    BY <1>2, <2>1, <2>2, <2>3 DEF Succeeds, Earned
<1>5. handles' /\ wpc' = "signal" /\ wrep'.rep.ok => (wrep'.rep.id \in served' \/ Off')
  BY <1>3, EarnedStays DEF Succeeds, Earned
<1>6. handles' /\ s2c' = 1 /\ reply'.ok => (reply'.id \in served' \/ Off')
  <2>1. CASE Start(c)
    <3>1. s2c = 1 => Off
      BY <1>1, <2>1 DEF Handover, Start, Off
    <3>2. s2c = 1 => Off'
      BY <3>1, HistGrows DEF Off
    <3> QED
      BY <1>3, <3>2 DEF Earned
  <2>2. CASE ~Start(c)
    BY <1>3, <2>2, EarnedStays DEF Succeeds, Earned
  <2> QED
    BY <2>1, <2>2
<1>7. pc'[c] \in {"read", "finish", "unlock"} /\ ~call'[c].err => (call'[c].id \in served' \/ Off')
  <2>1. CASE StartFails(c) \/ WriteFails(c) \/ ReadFails(c) \/ ReadStarves(c)
    <3>1. call'[c].err
      BY <1>1, <2>1 DEF TypeOK, Calls, StartFails, WriteFails, ReadFails, ReadStarves, Failure, Fail
    <3> QED
      BY <3>1
  <2>2. CASE GetReply(c)
    <3>1. /\ call'[c].id = call[c].id /\ call'[c].err = ~reply.ok
          /\ pc[c] = "reply" /\ s2c = 1
      BY <1>1, <2>2 DEF TypeOK, Calls, GetReply
    <3> QED
      BY <3>1, TakenIsEarned, EarnedStays DEF Earned
  <2>3. CASE ReadChunk(c)
    <3>1. pc[c] = "read" /\ call'[c].id = call[c].id /\ (call'[c].err \/ call'[c].err = call[c].err)
      BY <1>1, <2>3 DEF TypeOK, Calls, ReadChunk, Fail
    <3> QED
      BY <3>1, EarnedStays DEF Succeeds, Earned
  <2>4. CASE Finish(c)
    BY <2>4, EarnedStays DEF Finish, Succeeds, Earned
  <2>5. CASE Call(c) \/ Lock(c) \/ Check(c) \/ Join(c) \/ Start(c) \/ WriteChunk(c) \/ Unlock(c)
    <3>1. pc'[c] \notin {"read", "finish", "unlock"}
      BY <1>1, <2>5 DEF TypeOK, Call, Lock, Check, Join, Start, WriteChunk, Unlock, Goto
    <3> QED
      BY <3>1
  <2> QED
    BY <2>1, <2>2, <2>3, <2>4, <2>5 DEF CallerStep
<1>8. \A d \in Callers \ {c} :
        pc'[d] \in {"read", "finish", "unlock"} /\ ~call'[d].err => (call'[d].id \in served' \/ Off')
  BY <1>2, EarnedStays DEF Succeeds, Earned
<1> QED
  BY <1>4, <1>5, <1>6, <1>7, <1>8 DEF Succeeds, Earned

LEMMA WorkerSucceeds ==
  ASSUME HandInv, CallersTakeTurns, TalkInv, Succeeds, [Next]_vars,
         WorkerStep \/ Exit \/ ExitJoin \/ UNCHANGED vars
  PROVE  Succeeds'
<1>1. TypeOK
  BY DEF HandInv, Typed
<1>2. UNCHANGED <<pc, call, served>> /\ (handles' => handles)
  <2>1. CASE Exit
    BY <2>1 DEF Exit, callerVars, childVars
  <2>2. CASE ~Exit
    <3>1. UNCHANGED <<pc, call, served, handles>>
      BY <2>2 DEF WorkerStep, ReadHeader, HeaderFails, WriteAnswer, AnswerFails, AnswerStarves, Failure, ReadText, TextFails, TextStarves, TextLost,
        Signal, Handshake, WorkerUnlock, ExitJoin, vars, callerVars, processVars, childVars
    <3> QED
      BY <3>1
  <2> QED
    BY <2>1, <2>2
<1>3. \A i \in 1 .. Len(fromChild') : fromChild'[i].k = "ok" => fromChild'[i].id \in served'
  <2>1. \/ fromChild' = fromChild
        \/ fromChild # <<>> /\ fromChild' = Tail(fromChild)
    BY DEF WorkerStep, ReadHeader, HeaderFails, WriteAnswer, AnswerFails, AnswerStarves, Failure, ReadText, TextFails, TextStarves, TextLost,
      Signal, Handshake, WorkerUnlock, Exit, ExitJoin, vars, pipeVars
  <2>2. CASE fromChild # <<>> /\ fromChild' = Tail(fromChild)
    BY <1>1, <1>2, <2>2, TailIs DEF TypeOK, Succeeds, Earned
  <2> QED
    BY <1>2, <2>1, <2>2 DEF Succeeds, Earned
<1>4. handles' /\ wpc' = "signal" /\ wrep'.rep.ok => (wrep'.rep.id \in served' \/ Off')
  <2>1. CASE ReadHeader
    <3>1. /\ wpc = "header" /\ fromChild # <<>>
          /\ wpc' = "signal" => /\ Head(fromChild).k = "ok"
                                /\ wrep'.rep.id = Head(fromChild).id
      BY <2>1 DEF ReadHeader, WorkerGoto, Rep
    <3>2. Head(fromChild) = fromChild[1] /\ 1 \in 1 .. Len(fromChild)
      BY <1>1, <3>1, TailIs DEF TypeOK
    <3> QED
      BY <1>2, <3>1, <3>2 DEF Succeeds, Earned
  <2>2. CASE ReadText
    <3>1. wpc = "text" /\ UNCHANGED <<wrep, handles>>
      BY <2>2 DEF ReadText, WorkerGoto, processVars
    <3>2. ~Off /\ handles => ~wrep.rep.ok
      BY <3>1, OffUnlessClean DEF TalkInv, Talk, Texts
    <3>3. Off => Off'
      BY HistGrows DEF Off
    <3> QED
      BY <3>1, <3>2, <3>3 DEF Earned
  <2>3. CASE TextFails \/ TextStarves
    BY <2>3 DEF TextFails, TextStarves, Earned, Off
  <2>4. CASE ~(ReadHeader \/ ReadText \/ TextFails \/ TextStarves)
    <3>1. wpc' = "signal" => wpc = "signal" /\ wrep' = wrep
      BY <2>4 DEF WorkerStep, HeaderFails, WriteAnswer, AnswerFails, AnswerStarves, Failure, Signal, Handshake,
        WorkerUnlock, WorkerReturns, WorkerGoto, Exit, ExitJoin, vars, workerVars
    <3> QED
      BY <1>2, <3>1, EarnedStays DEF Succeeds, Earned
  <2> QED
    BY <2>1, <2>2, <2>3, <2>4
<1>5. handles' /\ s2c' = 1 /\ reply'.ok => (reply'.id \in served' \/ Off')
  <2>1. CASE Signal
    BY <1>2, <2>1, EarnedStays DEF Signal, WorkerGoto, Succeeds, Earned
  <2>2. CASE ~Signal
    <3>1. UNCHANGED <<s2c, reply>>
      BY <2>2 DEF WorkerStep, ReadHeader, HeaderFails, WriteAnswer, AnswerFails, AnswerStarves, Failure, ReadText, TextFails, TextStarves, TextLost,
        Handshake, WorkerUnlock, Exit, ExitJoin, vars, syncVars
    <3> QED
      BY <1>2, <3>1, EarnedStays DEF Succeeds, Earned
  <2> QED
    BY <2>1, <2>2
<1> QED
  BY <1>2, <1>3, <1>4, <1>5, EarnedStays DEF Succeeds, Earned

LEMMA ChildSucceeds ==
  ASSUME TypeOK, Succeeds, [Next]_vars,
         ChildStep \/ ChildAsks \/ ChildAborts \/ ChildComplains \/ Crash
  PROVE  Succeeds'
<1>1. UNCHANGED <<pc, call, wpc, wrep, s2c, reply, handles>>
  BY DEF ChildStep, ChildReads, ChildReplies, ChildContinues, ChildEof, ChildAsks, ChildAborts, Failure,
    ChildComplains, Crash, Dies, ChildUnchanged, callerVars, syncVars, processVars, workerVars
<1>2. served \subseteq served'
  BY DEF ChildStep, ChildReads, ChildReplies, ChildContinues, ChildEof, ChildAsks, ChildAborts, Failure,
    ChildComplains, Crash, Dies
<1>3. \/ fromChild' = fromChild
      \/ \E m \in Chunks : fromChild' = Append(fromChild, m) /\ (m.k = "ok" => m.id \in served')
  <2>1. /\ child.id \in Nat
        /\ \A k \in Kinds : Chunk(k, child.id, 0, 0) \in Chunks /\ Chunk(k, 0, 0, 0) \in Chunks
    BY DEF TypeOK, Children, Chunk, Chunks
  <2>2. CASE ChildReplies
    BY <2>1, <2>2 DEF ChildReplies, ChildSends, Chunk, Kinds
  <2>3. CASE ChildContinues
    BY <2>1, <2>3 DEF ChildContinues, ChildSends, Chunk, Kinds
  <2>4. CASE ChildAsks \/ ChildAborts \/ ChildComplains
    BY <2>1, <2>4 DEF ChildAsks, ChildAborts, Failure, ChildComplains, ChildSends, Chunk, Kinds
  <2>5. CASE ChildReads \/ ChildEof \/ Crash
    BY <2>5 DEF ChildReads, ChildEof, Crash, Dies, pipeVars
  <2> QED
    BY <2>2, <2>3, <2>4, <2>5 DEF ChildStep
<1>4. \A i \in 1 .. Len(fromChild') : fromChild'[i].k = "ok" => fromChild'[i].id \in served'
  <2>1. CASE fromChild' = fromChild
    BY <1>2, <2>1 DEF Succeeds, Earned
  <2>2. ASSUME NEW m \in Chunks, fromChild' = Append(fromChild, m), m.k = "ok" => m.id \in served'
        PROVE  \A i \in 1 .. Len(fromChild') : fromChild'[i].k = "ok" => fromChild'[i].id \in served'
    BY <1>2, <2>2, SentIs DEF Succeeds, Earned
  <2> QED
    BY <1>3, <2>1, <2>2
<1> QED
  BY <1>1, <1>4, EarnedStays DEF Succeeds, Earned

LEMMA StepCallInv ==
  ASSUME TurnsAssumption, CallInv, [Next]_vars
  PROVE  CallInv'
<1>1. HandInv /\ TypeOK /\ CallersTakeTurns /\ TalkInv /\ Known /\ Succeeds
  BY OwnedTurns DEF CallInv, TalkInv, HandInv, Rest, Typed
<1>2. TalkInv' /\ Known'
  BY <1>1, StepTalk, StepKnown
<1>3. Succeeds'
  BY <1>1, CallerSucceeds, WorkerSucceeds, ChildSucceeds DEF Next, Earned
<1> QED
  BY <1>2, <1>3 DEF CallInv

LEMMA AlwaysCallInv == TurnsAssumption => (Spec => []CallInv)
<1> SUFFICES ASSUME TurnsAssumption PROVE Spec => []CallInv
  OBVIOUS
<1>1. Init => CallInv
  <2> SUFFICES ASSUME Init PROVE CallInv
    OBVIOUS
  <2>1. Known
    BY DEF Init, Known, NoCall, NoChild, NewChild
  <2>2. Succeeds
    BY DEF Init, Succeeds, Earned
  <2> QED
    BY <2>1, <2>2, InitTalk DEF CallInv
<1>2. CallInv /\ [Next]_vars => CallInv'
  BY StepCallInv
<1> QED
  BY <1>1, <1>2, PTL DEF Spec

-----------------------------------------------------------------------------
(* The steps of a call of another process.                                 *)

\* What RemoteCall sees of a caller.
Seen(c) == IF pc[c] = "idle" THEN "idle" ELSE IF pc[c] = "lock" THEN "waiting" ELSE "inside"

\* A step that RemoteCall does not see.
LEMMA UnseenStep ==
  ASSUME \A c \in Callers : /\ Seen(c)' = Seen(c) /\ Result(c)' = Result(c)
                            /\ call'[c].id = call[c].id,
         served' = served, Off' <=> Off
  PROVE  UNCHANGED Remote!vars
<1>1. UNCHANGED <<[c \in Callers |-> Seen(c)], [c \in Callers |-> call[c].id],
                  [c \in Callers |-> Result(c)], served, Off>>
  BY DEF Off
<1> QED
  BY <1>1 DEF Remote!vars, Seen, Off

\* A step by which the promise ends.
LEMMA BreakStep ==
  ASSUME \A c \in Callers : /\ Seen(c)' = Seen(c) /\ Result(c)' = Result(c)
                            /\ call'[c].id = call[c].id,
         served' = served, Off'
  PROVE  Remote!Break
<1>1. UNCHANGED <<[c \in Callers |-> Seen(c)], [c \in Callers |-> call[c].id],
                  [c \in Callers |-> Result(c)], served>>
  OBVIOUS
<1> QED
  BY <1>1 DEF Remote!Break, Seen, Off

LEMMA CallStep ==
  ASSUME TypeOK, Known, NEW c \in Callers, Call(c)
  PROVE  Remote!Call(c)
<1>1. /\ call \in [Callers -> Calls] /\ pc \in [Callers -> CallerStates]
      /\ tally.issued \in Nat /\ served \subseteq Nat /\ \A d \in Callers : call[d].id \in Nat
  BY DEF TypeOK, Calls, Tallies
<1>2. PICK cmd \in Commands, n \in Nat : call' = [call EXCEPT ![c] = [NoCall EXCEPT !.id = tally.issued + 1, !.n = n, !.p = Shape[cmd].reads, !.sized = Shape[cmd].sized]]
  BY ShapeType, ClientAssumption DEF Call
<1>3. call'[c].id = tally.issued + 1 /\ \A d \in Callers \ {c} : call'[d] = call[d]
  BY <1>1, <1>2 DEF NoCall
<1>4. /\ pc[c] = "idle" /\ pc'[c] = "lock" /\ \A d \in Callers \ {c} : pc'[d] = pc[d]
      /\ UNCHANGED <<served, hist>>
  BY <1>1 DEF Call, Goto, childVars
<1> DEFINE state == [d \in Callers |-> Seen(d)]
           id == [d \in Callers |-> call[d].id]
           result == [d \in Callers |-> Result(d)]
<1>5. state[c] = "idle" /\ state' = [state EXCEPT ![c] = "waiting"]
  BY <1>4 DEF Seen
<1>6. id'[c] = tally.issued + 1 /\ id' = [id EXCEPT ![c] = id'[c]]
  BY <1>3
<1>7. id'[c] \in Nat \ served /\ \A d \in Callers : id[d] < id'[c]
  BY <1>1, <1>6 DEF Known
<1>8. result' = [result EXCEPT ![c] = "none"]
  <2>1. \A d \in Callers \ {c} : Result(d)' = Result(d)
    BY <1>3, <1>4 DEF Result
  <2>2. Result(c)' = "none"
    BY <1>4 DEF Result
  <2> QED
    BY <2>1, <2>2
<1> QED
  BY <1>4, <1>5, <1>6, <1>7, <1>8 DEF Remote!Call, Seen

LEMMA EnterStep ==
  ASSUME TurnsAssumption, TypeOK, Owned, NEW c \in Callers, Lock(c)
  PROVE  Remote!Enter(c)
<1>1. /\ pc[c] = "lock" /\ pc'[c] = "check" /\ \A d \in Callers \ {c} : pc'[d] = pc[d]
      /\ UNCHANGED <<call, served, hist>>
  BY DEF TypeOK, Lock, Goto, childVars
<1>2. \A d \in Callers : ~Inside(d)
  <2>1. CASE ForeignUnlock = {"ignored"}
    BY <2>1, ClientAssumption DEF Owned, Lock
  <2>2. CASE \A d, e \in Callers : d = e
    BY <1>1, <2>2 DEF Inside
  <2> QED
    BY <2>1, <2>2 DEF TurnsAssumption
<1> DEFINE state == [d \in Callers |-> Seen(d)]
<1>3. /\ state[c] = "waiting" /\ \A d \in Callers : state[d] # "inside"
      /\ state' = [state EXCEPT ![c] = "inside"]
  BY <1>1, <1>2 DEF Seen, Inside
<1>4. UNCHANGED [d \in Callers |-> Result(d)]
  BY <1>1 DEF Result
<1> QED
  BY <1>1, <1>3, <1>4 DEF Remote!Enter, Seen

LEMMA ReturnStep ==
  ASSUME TypeOK, Opened, Succeeds, NEW c \in Callers, Unlock(c)
  PROVE  Remote!Return(c)
<1>1. /\ pc[c] = "unlock" /\ pc'[c] = "idle" /\ \A d \in Callers \ {c} : pc'[d] = pc[d]
      /\ UNCHANGED <<call, served, hist>>
  BY DEF TypeOK, Unlock, Goto, childVars
<1> DEFINE state == [d \in Callers |-> Seen(d)]
           result == [d \in Callers |-> Result(d)]
           r == IF call[c].err THEN "error" ELSE "success"
<1>2. state[c] = "inside" /\ state' = [state EXCEPT ![c] = "idle"]
  BY <1>1 DEF Seen
<1>3. result' = [result EXCEPT ![c] = r]
  <2>1. \A d \in Callers \ {c} : Result(d)' = Result(d)
    BY <1>1 DEF Result
  <2>2. Result(c)' = r
    BY <1>1 DEF Result, Opened
  <2> QED
    BY <2>1, <2>2
<1>4. r \in {"success", "error"} /\ (r = "success" => call[c].id \in served \/ Off)
  BY <1>1 DEF Succeeds, Earned
<1> QED
  BY <1>1, <1>2, <1>3, <1>4 DEF Remote!Return, Seen, Off

\* The child carries a command out.
LEMMA ServeStep ==
  ASSUME HandInv, CallersTakeTurns, TalkInv, Known, ChildReplies
  PROVE  [Remote!Serve \/ Remote!ServeLate]_(Remote!vars)
<1>1. /\ UNCHANGED <<pc, call, hist>>
      /\ child.alive /\ child.st = "run"
      /\ served' = served \/ served' = served \cup {child.id}
  BY DEF ChildReplies, ChildUnchanged, callerVars
<1>2. UNCHANGED <<[c \in Callers |-> Seen(c)], [c \in Callers |-> call[c].id],
                  [c \in Callers |-> Result(c)], Off>>
  BY <1>1 DEF Seen, Result, Off
<1>3. CASE child.id \in served \/ served' = served
  BY <1>1, <1>2, <1>3 DEF Remote!vars, Seen, Off
<1>4. CASE child.id \notin served /\ served' = served \cup {child.id} /\ Off
  <2>1. \E c \in Callers : child.id <= call[c].id
    BY <1>1 DEF Known, Issued
  <2> QED
    BY <1>2, <1>4, <2>1 DEF Remote!ServeLate, Seen, Off
<1>5. CASE child.id \notin served /\ served' = served \cup {child.id} /\ ~Off
  <2>1. Base /\ Talk
    BY <1>5, OffUnlessClean DEF Base, TalkInv
  <2>2. PICK c \in Callers : pc[c] = "reply" /\ child.id = call[c].id
    BY <1>1, <2>1, RunFacts
  <2> QED
    BY <1>2, <1>5, <2>2 DEF Remote!Serve, Seen, Off
<1> QED
  BY <1>1, <1>3, <1>4, <1>5

\* Any other step is seen only when the promise ends.
LEMMA OtherStep ==
  ASSUME [Next]_vars, served' = served,
         \A c \in Callers : /\ Seen(c)' = Seen(c) /\ Result(c)' = Result(c)
                            /\ call'[c].id = call[c].id
  PROVE  [Remote!Break]_(Remote!vars)
<1>1. CASE Off'
  BY <1>1, BreakStep
<1>2. CASE ~Off'
  BY <1>2, UnseenStep, EarnedStays
<1> QED
  BY <1>1, <1>2

LEMMA CallerRefines ==
  ASSUME TurnsAssumption, CallInv, [Next]_vars, NEW c \in Callers, Call(c) \/ CallerStep(c)
  PROVE  [Remote!Next]_(Remote!vars)
<1>1. TypeOK /\ Owned /\ Opened /\ Known /\ Succeeds
  BY DEF CallInv, TalkInv, HandInv, Rest, Typed
<1>2. CASE Call(c)
  BY <1>1, <1>2, CallStep DEF Remote!Next
<1>3. CASE Lock(c)
  BY <1>1, <1>3, EnterStep DEF Remote!Next
<1>4. CASE Unlock(c)
  BY <1>1, <1>4, ReturnStep DEF Remote!Next
<1>5. CASE CallerStep(c) /\ ~Lock(c) /\ ~Unlock(c)
  <2>1. /\ \A d \in Callers \ {c} : pc'[d] = pc[d] /\ call'[d] = call[d]
        /\ served' = served
    BY <1>1, <1>5 DEF TypeOK, CallerStep, Check, Join, Start, StartFails, WriteChunk, WriteFails,
      GetReply, ReadChunk, ReadFails, ReadStarves, Failure, Finish, Fail, Goto, childVars
  <2>2. {pc[c], pc'[c]} \cap {"idle", "lock"} = {}
    BY <1>1, <1>5 DEF TypeOK, CallerStep, Check, Join, Start, StartFails, WriteChunk, WriteFails,
      GetReply, ReadChunk, ReadFails, ReadStarves, Failure, Finish, Fail, Goto
  <2>3. call'[c].id = call[c].id
    BY <1>1, <1>5 DEF TypeOK, Calls, CallerStep, Check, Join, Start, StartFails, WriteChunk,
      WriteFails, GetReply, ReadChunk, ReadFails, ReadStarves, Failure, Finish, Fail, Goto
  <2>4. \A d \in Callers : Seen(d)' = Seen(d) /\ Result(d)' = Result(d)
    BY <2>1, <2>2 DEF Seen, Result
  <2> QED
    BY <2>1, <2>3, <2>4, OtherStep DEF Remote!Next
<1> QED
  BY <1>2, <1>3, <1>4, <1>5

LEMMA StepRefines ==
  ASSUME TurnsAssumption, CallInv, [Next]_vars
  PROVE  [Remote!Next]_(Remote!vars)
<1>1. HandInv /\ CallersTakeTurns /\ TalkInv /\ Known
  BY OwnedTurns DEF CallInv, TalkInv, HandInv, Rest
<1>2. ASSUME NEW c \in Callers, Call(c) \/ CallerStep(c)
      PROVE  [Remote!Next]_(Remote!vars)
  BY <1>2, CallerRefines
<1>3. CASE ChildReplies
  BY <1>1, <1>3, ServeStep DEF Remote!Next
<1>4. CASE \/ WorkerStep \/ Exit \/ ExitJoin \/ UNCHANGED vars
           \/ (ChildStep /\ ~ChildReplies) \/ ChildAsks \/ ChildAborts \/ ChildComplains \/ Crash
  <2>1. UNCHANGED <<pc, call, served>>
    BY <1>4 DEF WorkerStep, ReadHeader, HeaderFails, WriteAnswer, AnswerFails, AnswerStarves, Failure, ReadText, TextFails, TextStarves, TextLost,
      Signal, Handshake, WorkerUnlock, Exit, ExitJoin, vars, ChildStep, ChildReads,
      ChildContinues, ChildEof, ChildAsks, ChildAborts, ChildComplains, Crash, Dies,
      ChildUnchanged, callerVars, childVars
  <2> QED
    BY <2>1, OtherStep DEF Remote!Next, Seen, Result
<1> QED
  BY <1>2, <1>3, <1>4 DEF Next, ChildStep

LEMMA InitRefines == Init => Remote!Init
<1> SUFFICES ASSUME Init PROVE Remote!Init
  OBVIOUS
<1>1. \A c \in Callers : Seen(c) = "idle" /\ call[c].id = 0 /\ Result(c) = "none"
  BY DEF Init, Seen, Result, NoCall
<1>2. served = {} /\ ~Off
  BY DEF Init, Off
<1> QED
  BY <1>1, <1>2 DEF Remote!Init, Seen, Off

\* With its threads, pipes, signals and restarts c/ipc.c is a call of another process: one
\* call inside at a time, each command carried out at most once and before its call
\* returns, and success only for what was carried out.
THEOREM ClientIsRemoteCall == TurnsAssumption => (Spec => IsRemoteCall)
<1> SUFFICES ASSUME TurnsAssumption PROVE Spec => IsRemoteCall
  OBVIOUS
<1>1. CallInv /\ [Next]_vars => [Remote!Next]_(Remote!vars)
  BY StepRefines
<1> QED
  BY <1>1, InitRefines, AlwaysCallInv, PTL DEF Spec, IsRemoteCall, Remote!Spec
=============================================================================
