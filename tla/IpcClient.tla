----------------------------- MODULE IpcClient -----------------------------
(***************************************************************************)
(* The AviUtl side of the pipe protocol (c/ipc.c): the threads that call   *)
(* the ipc_* functions, the read_worker thread, the mutex, the condition   *)
(* variables c2s and s2c, and the two anonymous pipes of the child process *)
(* PSDToolKit.exe.                                                         *)
(*                                                                         *)
(* One WriteFile or ReadFile of the code is one chunk of a pipe.  The      *)
(* child is an environment here, as much of it as the protocol fixes.      *)
(***************************************************************************)
EXTENDS Naturals, Sequences

CONSTANTS
  Callers,         \* the threads of AviUtl that call the ipc_* functions
  Commands,        \* the commands they send, a subset of DOMAIN Shape
  ForeignUnlock,   \* what mtx_unlock may do for a thread that is not the owner
  PipeCap,         \* chunks a pipe holds before WriteFile blocks
  MaxCommands,     \* bound: commands issued in one behaviour
  MaxCrashes,      \* bound: deaths of the child process
  MaxFailures,     \* bound: starts that fail, in start_process or in the child, and allocations
  MaxRequests      \* bound: requests the child sends

(***************************************************************************)
(* What the functions of c/ipc.c write after the four bytes of the command *)
(* and what they read after the reply, in chunks.  PROP writes 4 chunks    *)
(* without options; an option adds 2, or 3 when it is the layer state.     *)
(* A sized payload begins with its size, which the caller has to make room *)
(* for before it reads the rest.                                           *)
(***************************************************************************)
Shape ==
  [ADDF |-> [args |-> {3}, reads |-> 0, sized |-> FALSE],
   CLRF |-> [args |-> {0}, reads |-> 0, sized |-> FALSE],
   DSLZ |-> [args |-> {2}, reads |-> 1, sized |-> FALSE],
   DRAW |-> [args |-> {5}, reads |-> 2, sized |-> TRUE],
   LNAM |-> [args |-> {3}, reads |-> 2, sized |-> TRUE],
   SRLZ |-> [args |-> {0}, reads |-> 2, sized |-> TRUE],
   PROP |-> [args |-> {4, 6, 7, 8, 9, 10, 11, 12, 13, 15}, reads |-> 4, sized |-> FALSE],
   SGUI |-> [args |-> {0}, reads |-> 1, sized |-> FALSE],
   UPDP |-> [args |-> {2}, reads |-> 0, sized |-> FALSE]]

Nobody == "nobody"
Worker == "worker"

ASSUME ClientAssumption ==
  /\ Callers \cap {Nobody, Worker} = {}
  /\ Commands \subseteq DOMAIN Shape
  /\ ForeignUnlock \subseteq {"ignored", "released"} /\ ForeignUnlock # {}
  /\ PipeCap \in Nat \ {0}
  /\ {MaxCommands, MaxCrashes, MaxFailures, MaxRequests} \subseteq Nat

VARIABLES
  pc,        \* where each caller is in its ipc_* function
  call,      \* the command it is sending
  mtx,       \* the owner of ipc->mtx
  c2s, s2c,  \* ipc->c2s.var and ipc->s2c.var
  reply,     \* ipc->reply
  handles,   \* ipc->process, pipe_in_w and pipe_out_r are open
  running,   \* ipc->thread_running
  wpc, wrep, \* where read_worker is; the reply it is handing over
  life,      \* how far ipc_exit has come
  toChild, fromChild, \* the pipes
  child,     \* the child process
  tally,     \* how often each bounded event has happened
  hist,      \* the rare events that have happened so far
  served     \* the commands the child has carried out

callerVars == <<pc, call>>
syncVars == <<mtx, c2s, s2c, reply>>
processVars == <<handles, running, life>>
workerVars == <<wpc, wrep>>
pipeVars == <<toChild, fromChild>>
childVars == <<child, served>>
vars == <<callerVars, syncVars, processVars, workerVars, pipeVars, childVars, tally, hist>>

-----------------------------------------------------------------------------
(* Data.                                                                   *)

Kinds == {"cmd", "arg", "answer", "ok", "err", "text", "data", "request"}

\* A chunk: its kind, the serial number of its command, and in the first chunk
\* of a command how many chunks follow (n) and how many the reply has (p).
Chunk(k, id, n, p) == [k |-> k, id |-> id, n |-> n, p |-> p]
Chunks == [k : Kinds, id : Nat, n : Nat, p : Nat]

Rep(ok, id) == [ok |-> ok, id |-> id]
Replies == [ok : BOOLEAN, id : Nat]
NoReply == Rep(TRUE, 0)
Handovers == [rep : Replies, fail : BOOLEAN]

\* id: serial number; n, p: chunks still to write and to read; sized: as in Shape; took: it has
\* taken a reply; got: the serial number of that reply, 0 once the caller has
\* read a chunk of something else; err: what the function will return.
Calls == [id : Nat, n : Nat, p : Nat, sized : BOOLEAN, took : BOOLEAN, got : Nat, err : BOOLEAN]
NoCall == [id |-> 0, n |-> 0, p |-> 0, sized |-> FALSE, took |-> FALSE, got |-> 0, err |-> FALSE]

ChildStates == {"idle", "args", "run", "data", "text", "abort", "lost"}
Children ==
  [alive : BOOLEAN, st : ChildStates, id : Nat, n : Nat, p : Nat, asked : BOOLEAN]
NewChild == [alive |-> TRUE, st |-> "idle", id |-> 0, n |-> 0, p |-> 0, asked |-> FALSE]
NoChild == [NewChild EXCEPT !.alive = FALSE]

CallerStates ==
  {"idle", "lock", "check", "join", "start", "head", "args", "reply", "read",
   "finish", "unlock"}
WorkerStates ==
  {"none", "header", "answer", "text", "signal", "handshake", "unlock", "exited"}

\* "leftover": a command that took no reply has signalled c2s.
\* "mixed": the worker wrote its answer between two chunks of a command.
\* "starved": there was no memory for the rest of a payload, a text or a request.
\* "hung": the worker returned while a caller waited for a reply.
\* "swallowed": the text of an error could not be read, and the reply became a success.
\* "aborted": the child could not show its window and reported that.
Events == {"leftover", "mixed", "starved", "hung", "swallowed", "aborted"}

Tallies == [{"issued", "crashes", "failed", "requests"} -> Nat]
Count(event) == tally' = [tally EXCEPT ![event] = @ + 1]

Init ==
  /\ pc = [c \in Callers |-> "idle"]
  /\ call = [c \in Callers |-> NoCall]
  /\ mtx = Nobody
  /\ c2s = 0 /\ s2c = 0
  /\ reply = NoReply
  /\ handles = FALSE /\ running = FALSE /\ life = "up"
  /\ wpc = "none" /\ wrep = [rep |-> NoReply, fail |-> FALSE]
  /\ toChild = <<>> /\ fromChild = <<>>
  /\ child = NoChild
  /\ tally = [issued |-> 0, crashes |-> 0, failed |-> 0, requests |-> 0]
  /\ hist = {} /\ served = {}

Goto(c, p) == pc' = [pc EXCEPT ![c] = p]

\* mtx_unlock by thread t.  A critical section does not check its owner: the
\* outcome for another thread's hold is the platform's choice.
Leave(t) ==
  \/ mtx \in {t, Nobody} /\ mtx' = Nobody
  \/ mtx \notin {t, Nobody} /\ "released" \in ForeignUnlock /\ mtx' = Nobody
  \/ mtx \notin {t, Nobody} /\ "ignored" \in ForeignUnlock /\ mtx' = mtx

-----------------------------------------------------------------------------
(* The callers.                                                            *)

\* A call of an ipc_* function arrives at mtx_lock.
Call(c) ==
  /\ life = "up"
  /\ pc[c] = "idle"
  /\ tally.issued < MaxCommands
  /\ \E cmd \in Commands : \E n \in Shape[cmd].args :
       call' = [call EXCEPT ![c] = [NoCall EXCEPT !.id = tally.issued + 1, !.n = n,
                                          !.p = Shape[cmd].reads, !.sized = Shape[cmd].sized]]
  /\ Goto(c, "lock")
  /\ Count("issued")
  /\ UNCHANGED <<syncVars, processVars, workerVars, pipeVars, childVars, hist>>

\* start_command_process: mtx_lock.
Lock(c) ==
  /\ pc[c] = "lock"
  /\ mtx = Nobody
  /\ mtx' = c
  /\ Goto(c, "check")
  /\ UNCHANGED <<call, c2s, s2c, reply, processVars, workerVars, pipeVars, childVars, tally, hist>>

\* is_process_running; if it is not, close_process closes the handles.
Check(c) ==
  /\ pc[c] = "check"
  /\ IF handles /\ child.alive
     THEN Goto(c, "head") /\ UNCHANGED handles
     ELSE Goto(c, "join") /\ handles' = FALSE
  /\ UNCHANGED <<call, syncVars, running, life, workerVars, pipeVars, childVars, tally, hist>>

\* close_process: thrd_join, when a worker was started.
Join(c) ==
  /\ pc[c] = "join"
  /\ running => wpc = "exited"
  /\ running' = FALSE
  /\ Goto(c, "start")
  /\ UNCHANGED <<call, syncVars, handles, life, workerVars, pipeVars, childVars, tally, hist>>

\* start_process: new pipes, a new child and a new worker, or none of them.
Start(c) ==
  /\ pc[c] = "start"
  /\ handles' = TRUE /\ running' = TRUE
  /\ wpc' = "header" /\ wrep' = [rep |-> NoReply, fail |-> FALSE]
  /\ toChild' = <<>> /\ fromChild' = <<>>
  /\ child' = NewChild
  /\ Goto(c, "head")
  /\ UNCHANGED <<call, syncVars, life, served, tally, hist>>

Fail(c) ==
  /\ call' = [call EXCEPT ![c].err = TRUE]
  /\ Goto(c, "finish")

Failure == tally.failed < MaxFailures /\ Count("failed")

StartFails(c) ==
  /\ pc[c] = "start"
  /\ Failure
  /\ Fail(c)
  /\ UNCHANGED <<syncVars, processVars, workerVars, pipeVars, childVars, hist>>

\* Mistake: an argument is written although there is none.
WriteChunkAlwaysArgs(c) ==
  /\ pc[c] \in {"head", "args"}
  /\ child.alive
  /\ Len(toChild) < PipeCap
  /\ LET head == pc[c] = "head"
         left == IF head THEN call[c].n ELSE call[c].n - 1
     IN /\ toChild' = Append(toChild, IF head THEN Chunk("cmd", call[c].id, call[c].n, call[c].p)
                                               ELSE Chunk("arg", call[c].id, 0, 0))
        /\ call' = [call EXCEPT ![c].n = left]
        /\ Goto(c, IF ~head /\ left = 0 THEN "reply" ELSE "args")
  /\ UNCHANGED <<syncVars, processVars, workerVars, fromChild, childVars, tally, hist>>

\* Mistake: one argument more than the child expects.
WriteChunkOneMore(c) ==
  /\ pc[c] \in {"head", "args"}
  /\ child.alive
  /\ Len(toChild) < PipeCap
  /\ LET head == pc[c] = "head"
         left == IF head THEN call[c].n + 1 ELSE call[c].n - 1
     IN /\ toChild' = Append(toChild, IF head THEN Chunk("cmd", call[c].id, call[c].n, call[c].p)
                                               ELSE Chunk("arg", call[c].id, 0, 0))
        /\ call' = [call EXCEPT ![c].n = left]
        /\ Goto(c, IF left = 0 THEN "reply" ELSE "args")
  /\ UNCHANGED <<syncVars, processVars, workerVars, fromChild, childVars, tally, hist>>

\* write: the command id, then its arguments one by one, then get_reply.
WriteChunk(c) ==
  /\ pc[c] \in {"head", "args"}
  /\ child.alive
  /\ Len(toChild) < PipeCap
  /\ LET id == call[c].id  n == call[c].n
         head == pc[c] = "head"
         left == IF head THEN n ELSE n - 1
     IN /\ toChild' = Append(toChild, IF head THEN Chunk("cmd", id, n, call[c].p)
                                               ELSE Chunk("arg", id, 0, 0))
        /\ call' = [call EXCEPT ![c].n = left]
        /\ Goto(c, IF left = 0 THEN "reply" ELSE "args")
  /\ UNCHANGED <<syncVars, processVars, workerVars, fromChild, childVars, tally, hist>>

WriteFails(c) ==
  /\ pc[c] \in {"head", "args"}
  /\ ~child.alive
  /\ Fail(c)
  /\ UNCHANGED <<syncVars, processVars, workerVars, pipeVars, childVars, tally, hist>>

\* Mistake: s2c is not reset.
GetReplyNoReset(c) ==
  /\ pc[c] = "reply"
  /\ s2c = 1
  /\ reply' = NoReply
  /\ call' = [call EXCEPT ![c].took = TRUE, ![c].got = reply.id, ![c].err = ~reply.ok]
  /\ Goto(c, IF reply.ok /\ call[c].p > 0 THEN "read" ELSE "finish")
  /\ UNCHANGED <<mtx, c2s, s2c, processVars, workerVars, pipeVars, childVars, tally, hist>>

\* Mistake: the error of the reply is dropped.
GetReplyNoError(c) ==
  /\ pc[c] = "reply"
  /\ s2c = 1
  /\ s2c' = 0
  /\ reply' = NoReply
  /\ call' = [call EXCEPT ![c].took = TRUE, ![c].got = reply.id]
  /\ Goto(c, IF reply.ok /\ call[c].p > 0 THEN "read" ELSE "finish")
  /\ UNCHANGED <<mtx, c2s, processVars, workerVars, pipeVars, childVars, tally, hist>>

\* get_reply: wait while s2c is 0, reset it, take the reply.
GetReply(c) ==
  /\ pc[c] = "reply"
  /\ s2c = 1
  /\ s2c' = 0
  /\ reply' = NoReply
  /\ call' = [call EXCEPT ![c].took = TRUE, ![c].got = reply.id,
                                ![c].err = ~reply.ok]
  /\ Goto(c, IF reply.ok /\ call[c].p > 0 THEN "read" ELSE "finish")
  /\ UNCHANGED <<mtx, c2s, processVars, workerVars, pipeVars, childVars, tally, hist>>

\* read: the chunks after the reply.  What is not the caller's payload is
\* taken for it all the same; a size that makes no sense ends in an error.
ReadChunk(c) ==
  /\ pc[c] = "read"
  /\ fromChild # <<>>
  /\ fromChild' = Tail(fromChild)
  /\ LET m == Head(fromChild)
         mine == m.k = "data" /\ m.id = call[c].id
         left == call[c].p - 1
     IN \/ /\ call' = [call EXCEPT ![c].p = left,
                                   ![c].got = IF mine THEN @ ELSE 0]
           /\ Goto(c, IF left = 0 THEN "finish" ELSE "read")
        \/ ~mine /\ Fail(c)
  /\ UNCHANGED <<syncVars, processVars, workerVars, toChild, childVars, tally, hist>>

ReadFails(c) ==
  /\ pc[c] = "read"
  /\ fromChild = <<>> /\ ~child.alive
  /\ Fail(c)
  /\ UNCHANGED <<syncVars, processVars, workerVars, pipeVars, childVars, tally, hist>>

\* There is no memory for what follows the size, or the buffer of ipc_draw is too small.
ReadStarves(c) ==
  /\ pc[c] = "read"
  /\ call[c].sized /\ call[c].p = 1
  /\ Failure
  /\ Fail(c)
  /\ hist' = hist \cup {"starved"}
  /\ UNCHANGED <<syncVars, processVars, workerVars, pipeVars, childVars>>

\* Mistake: c2s is not signalled.
FinishNoSignal(c) ==
  /\ pc[c] = "finish"
  /\ Goto(c, "unlock")
  /\ UNCHANGED <<call, syncVars, processVars, workerVars, pipeVars, childVars, tally, hist>>

\* finish_command_process: signal c2s, whether or not a reply was taken, ...
Finish(c) ==
  /\ pc[c] = "finish"
  /\ c2s' = 1
  /\ Goto(c, "unlock")
  /\ hist' = IF call[c].took THEN hist ELSE hist \cup {"leftover"}
  /\ UNCHANGED <<call, mtx, s2c, reply, processVars, workerVars, pipeVars, childVars, tally>>

\* ... and mtx_unlock.
Unlock(c) ==
  /\ pc[c] = "unlock"
  /\ Leave(c)
  /\ Goto(c, "idle")
  /\ UNCHANGED <<call, c2s, s2c, reply, processVars, workerVars, pipeVars, childVars, tally, hist>>

-----------------------------------------------------------------------------
(* read_worker.                                                            *)

WorkerGoto(p) == wpc' = p /\ UNCHANGED wrep

\* The worker returns and signals nobody.
WorkerReturns ==
  /\ WorkerGoto("exited")
  /\ hist' = IF \E c \in Callers : pc[c] = "reply" THEN hist \cup {"hung"} ELSE hist

\* read_worker reads four bytes: a reply, or a request of the child.  Payload
\* that it takes for one of them makes it wait for a text or answer an error.
ReadHeader ==
  /\ wpc = "header"
  /\ fromChild # <<>>
  /\ fromChild' = Tail(fromChild)
  /\ LET m == Head(fromChild)
     IN \/ /\ m.k = "ok"
           /\ wpc' = "signal" /\ wrep' = [rep |-> Rep(TRUE, m.id), fail |-> FALSE]
        \/ /\ m.k = "err"
           /\ wpc' = "text" /\ wrep' = [rep |-> Rep(FALSE, m.id), fail |-> FALSE]
        \/ m.k = "request" /\ WorkerGoto("answer")
        \/ m.k \in {"data", "text"} /\ \E p \in {"text", "answer"} : WorkerGoto(p)
  /\ UNCHANGED <<callerVars, syncVars, processVars, toChild, childVars, tally, hist>>

\* ReadFile fails: the pipe is broken and drained, or the handle was closed.
HeaderFails ==
  /\ wpc = "header"
  /\ ~handles \/ (fromChild = <<>> /\ ~child.alive)
  /\ WorkerReturns
  /\ UNCHANGED <<callerVars, syncVars, processVars, pipeVars, childVars, tally>>

\* read_request_*: the callback has posted its message; write the answer to
\* the pipe of the commands, without ipc->mtx.
WriteAnswer ==
  /\ wpc = "answer"
  /\ handles /\ child.alive
  /\ Len(toChild) < PipeCap
  /\ toChild' = Append(toChild, Chunk("answer", 0, 0, 0))
  /\ WorkerGoto("header")
  /\ hist' = IF \E c \in Callers : pc[c] = "args" THEN hist \cup {"mixed"} ELSE hist
  /\ UNCHANGED <<callerVars, syncVars, processVars, fromChild, childVars, tally>>

AnswerFails ==
  /\ wpc = "answer"
  /\ ~handles \/ ~child.alive
  /\ WorkerReturns
  /\ UNCHANGED <<callerVars, syncVars, processVars, pipeVars, childVars, tally>>

\* There is no memory for a string of the request.
AnswerStarves ==
  /\ wpc = "answer"
  /\ Failure
  /\ WorkerGoto("exited")
  /\ hist' = hist \cup {"starved"}
  /\ UNCHANGED <<callerVars, syncVars, processVars, pipeVars, childVars>>

\* read_reply reads the text of an error.
ReadText ==
  /\ wpc = "text"
  /\ fromChild # <<>>
  /\ fromChild' = Tail(fromChild)
  /\ WorkerGoto("signal")
  /\ UNCHANGED <<callerVars, syncVars, processVars, toChild, childVars, tally, hist>>

\* If that fails the reply handed over is eok(), and the worker will return.
TextLost ==
  /\ wpc = "text"
  /\ wpc' = "signal" /\ wrep' = [rep |-> [wrep.rep EXCEPT !.ok = TRUE], fail |-> TRUE]
  /\ UNCHANGED <<callerVars, syncVars, processVars, toChild, childVars>>

TextFails ==
  /\ TextLost
  /\ ~handles \/ (fromChild = <<>> /\ ~child.alive)
  /\ hist' = hist \cup {"swallowed"}
  /\ UNCHANGED <<fromChild, tally>>

\* There is no memory for the text, before it is read (sgrow) or after (from_utf8).
TextStarves ==
  /\ TextLost
  /\ Failure
  /\ fromChild' = fromChild \/ (fromChild # <<>> /\ fromChild' = Tail(fromChild))
  /\ hist' = hist \cup {"swallowed", "starved"}

\* read_reply stores the reply and signals s2c, ...
Signal ==
  /\ wpc = "signal"
  /\ reply' = wrep.rep
  /\ s2c' = 1
  /\ WorkerGoto("handshake")
  /\ UNCHANGED <<callerVars, mtx, c2s, processVars, pipeVars, childVars, tally, hist>>

\* Mistake: c2s is not reset.
HandshakeNoReset ==
  /\ wpc = "handshake"
  /\ c2s = 1
  /\ WorkerGoto("unlock")
  /\ UNCHANGED <<callerVars, syncVars, processVars, pipeVars, childVars, tally, hist>>

\* ... waits while c2s is 0, resets it, ...
Handshake ==
  /\ wpc = "handshake"
  /\ c2s = 1
  /\ c2s' = 0
  /\ WorkerGoto("unlock")
  /\ UNCHANGED <<callerVars, mtx, s2c, reply, processVars, pipeVars, childVars, tally, hist>>

\* ... and unlocks the mutex, which it never locked.
WorkerUnlock ==
  /\ wpc = "unlock"
  /\ Leave(Worker)
  /\ \/ wrep.fail /\ WorkerReturns
     \/ ~wrep.fail /\ WorkerGoto("header") /\ UNCHANGED hist
  /\ UNCHANGED <<callerVars, c2s, s2c, reply, processVars, pipeVars, childVars, tally>>

-----------------------------------------------------------------------------
(* ipc_exit, called when no ipc_* function is running.                     *)

\* Mistake: the pipes stay open.
ExitKeepsPipes ==
  /\ life = "up"
  /\ \A c \in Callers : pc[c] = "idle"
  /\ life' = IF handles /\ child.alive THEN "join" ELSE "freed"
  /\ UNCHANGED <<callerVars, syncVars, running, handles, workerVars, pipeVars, childVars,
                 tally, hist>>

Exit ==
  /\ life = "up"
  /\ \A c \in Callers : pc[c] = "idle"
  /\ IF handles /\ child.alive
     THEN handles' = FALSE /\ life' = "join"
     ELSE life' = "freed" /\ UNCHANGED handles
  /\ UNCHANGED <<callerVars, syncVars, running, workerVars, pipeVars, childVars, tally, hist>>

ExitJoin ==
  /\ life = "join"
  /\ running => wpc = "exited"
  /\ running' = FALSE
  /\ life' = "freed"
  /\ UNCHANGED <<callerVars, syncVars, handles, workerVars, pipeVars, childVars, tally, hist>>

-----------------------------------------------------------------------------
(* The child process, as the protocol sees it.                             *)

ChildUnchanged == UNCHANGED <<callerVars, syncVars, processVars, workerVars>>

\* Sends chunk m and becomes ch.
ChildSends(m, ch) ==
  /\ Len(fromChild) < PipeCap
  /\ fromChild' = Append(fromChild, m)
  /\ child' = ch

\* It takes the next chunk.  An answer where an argument is due, an argument
\* where a command is due, or an answer nobody waits for: it loses the thread.
ChildReads ==
  /\ child.alive /\ toChild # <<>>
  /\ child.st \in {"idle", "args", "lost"}
  /\ toChild' = Tail(toChild)
  /\ LET m == Head(toChild)
         left == IF m.k = "cmd" THEN m.n ELSE child.n - 1
     IN child' =
          IF child.st = "idle" /\ m.k = "cmd"
          THEN [child EXCEPT !.st = IF left = 0 THEN "run" ELSE "args",
                             !.id = m.id, !.n = left, !.p = m.p]
          ELSE IF child.st = "idle" /\ m.k = "answer" /\ child.asked
          THEN [child EXCEPT !.asked = FALSE]
          ELSE IF child.st = "args" /\ m.k = "arg"
          THEN [child EXCEPT !.st = IF left = 0 THEN "run" ELSE "args", !.n = left]
          ELSE [child EXCEPT !.st = "lost"]
  /\ ChildUnchanged
  /\ UNCHANGED <<fromChild, served, tally, hist>>

ChildReplies ==
  /\ child.alive /\ child.st = "run"
  /\ \/ /\ ChildSends(Chunk("ok", child.id, 0, 0),
                      [child EXCEPT !.st = IF child.p = 0 THEN "idle" ELSE "data"])
        /\ served' = served \cup {child.id}
     \/ /\ ChildSends(Chunk("err", child.id, 0, 0), [child EXCEPT !.st = "text"])
        /\ UNCHANGED served
  /\ ChildUnchanged
  /\ UNCHANGED <<toChild, tally, hist>>

ChildContinues ==
  /\ child.alive
  /\ \/ /\ child.st = "data"
        /\ ChildSends(Chunk("data", child.id, 0, 0),
                      [child EXCEPT !.p = @ - 1, !.st = IF child.p = 1 THEN "idle" ELSE "data"])
     \/ /\ child.st = "text"
        /\ ChildSends(Chunk("text", child.id, 0, 0), [child EXCEPT !.st = "idle"])
     \/ /\ child.st = "abort"
        /\ ChildSends(Chunk("text", 0, 0, 0), [child EXCEPT !.alive = FALSE])
  /\ ChildUnchanged
  /\ UNCHANGED <<toChild, served, tally, hist>>

\* It asks for something of its own: EDIS, EXFS or EXLN, one at a time.
ChildAsks ==
  /\ child.alive /\ child.st = "idle" /\ ~child.asked
  /\ tally.requests < MaxRequests
  /\ Count("requests")
  /\ ChildSends(Chunk("request", 0, 0, 0), [child EXCEPT !.asked = TRUE])
  /\ ChildUnchanged
  /\ UNCHANGED <<toChild, served, hist>>

\* It cannot show its window: it sends an error between two commands, as if it
\* were a reply, and ends (Abort of go/ipc/ipc.go).
ChildAborts ==
  /\ child.alive /\ child.st = "idle" /\ ~child.asked
  /\ Failure
  /\ ChildSends(Chunk("err", 0, 0, 0), [child EXCEPT !.st = "abort"])
  /\ hist' = hist \cup {"aborted"}
  /\ ChildUnchanged
  /\ UNCHANGED <<toChild, served>>

\* Lost, it may complain about a command nobody sent.
ChildComplains ==
  /\ child.alive /\ child.st = "lost"
  /\ ChildSends(Chunk("err", 0, 0, 0), [child EXCEPT !.st = "text", !.id = 0])
  /\ ChildUnchanged
  /\ UNCHANGED <<toChild, served, tally, hist>>

Dies ==
  /\ child' = [child EXCEPT !.alive = FALSE]
  /\ ChildUnchanged
  /\ UNCHANGED <<pipeVars, served, hist>>

Crash ==
  /\ child.alive
  /\ tally.crashes < MaxCrashes
  /\ Count("crashes")
  /\ Dies

\* Its stdin is closed: it ends.
ChildEof ==
  /\ child.alive /\ ~handles
  /\ Dies
  /\ UNCHANGED tally

-----------------------------------------------------------------------------
CallerStep(c) ==
  \/ Lock(c) \/ Check(c) \/ Join(c) \/ Start(c) \/ StartFails(c)
  \/ WriteChunk(c) \/ WriteFails(c) \/ GetReply(c) \/ ReadChunk(c) \/ ReadFails(c)
  \/ ReadStarves(c) \/ Finish(c) \/ Unlock(c)

WorkerStep ==
  \/ ReadHeader \/ HeaderFails \/ WriteAnswer \/ AnswerFails \/ ReadText \/ TextFails
  \/ AnswerStarves \/ TextStarves \/ Signal \/ Handshake \/ WorkerUnlock

ChildStep ==
  \/ ChildReads \/ ChildReplies \/ ChildContinues \/ ChildEof

Next ==
  \/ \E c \in Callers : Call(c) \/ CallerStep(c)
  \/ WorkerStep
  \/ Exit \/ ExitJoin
  \/ ChildStep \/ ChildAsks \/ ChildAborts \/ ChildComplains \/ Crash

Spec == Init /\ [][Next]_vars

(***************************************************************************)
(* Every thread runs whenever it can, and the child, while it lives, goes  *)
(* on with what it has read.  Neither has to start a call or a request.    *)
(***************************************************************************)
Fairness ==
  /\ \A c \in Callers : WF_vars(CallerStep(c))
  /\ WF_vars(WorkerStep)
  /\ WF_vars(ExitJoin)
  /\ WF_vars(ChildStep)

FairSpec == Spec /\ Fairness

-----------------------------------------------------------------------------
(* Properties.                                                             *)

\* Every variable has its type.
TypeOK ==
  /\ pc \in [Callers -> CallerStates]
  /\ call \in [Callers -> Calls]
  /\ mtx \in Callers \cup {Nobody}
  /\ c2s \in {0, 1} /\ s2c \in {0, 1}
  /\ reply \in Replies
  /\ handles \in BOOLEAN /\ running \in BOOLEAN
  /\ wpc \in WorkerStates
  /\ wrep \in Handovers
  /\ life \in {"up", "join", "freed"}
  /\ toChild \in Seq(Chunks) /\ fromChild \in Seq(Chunks)
  /\ child \in Children
  /\ tally \in Tallies
  /\ hist \subseteq Events
  /\ served \subseteq Nat

Inside(c) == pc[c] \notin {"idle", "lock"}
Reading(c) == pc[c] = "read"

\* While a caller reads the payload of its reply the worker waits for it in
\* read_reply and reads nothing, unless some command failed before get_reply
\* and left its c2s behind.
OneReader ==
  "leftover" \notin hist => \A c \in Callers : Reading(c) => wpc = "handshake"

\* How c2s and s2c hand the pipe from the worker to a caller and back: a reply
\* that was signalled, or a c2s that was signalled, finds the worker waiting in
\* read_reply, never both at once, and from get_reply to finish_command_process
\* neither is set.  A new child is started only when no worker runs.
HasReply(c) == pc[c] = "read" \/ (pc[c] = "finish" /\ call[c].took)
Handover ==
  /\ ~running => wpc \in {"none", "exited"}
  /\ \A c \in Callers : pc[c] = "start" => ~running
  /\ "leftover" \notin hist =>
       /\ s2c = 1 => wpc = "handshake"
       /\ c2s = 1 => wpc = "handshake" /\ s2c = 0
       /\ \A c \in Callers : HasReply(c) => wpc = "handshake" /\ s2c = 0 /\ c2s = 0

\* The framing of the command stream holds: the child takes every chunk for
\* what the caller or the worker meant by it, unless an answer was written
\* into a command, a stray c2s let the worker read payload or memory ran out.
FramingKept ==
  child.st = "lost" => hist \cap {"mixed", "starved", "leftover"} # {}

\* The reply and the payload a caller takes belong to its own command, over
\* all restarts of the child, unless the framing or the hand-over was broken.
\* The only other reply it may get is the error of a child that gives up, which
\* turns into success when the child does not live to send the text.
RepliesMatch ==
  hist \cap {"mixed", "starved", "leftover"} = {} =>
    \A c \in Callers :
      Inside(c) /\ call[c].took =>
        \/ call[c].got = call[c].id
        \/ "aborted" \in hist /\ call[c].got = 0 /\ (call[c].err \/ "swallowed" \in hist)

Broken == hist # {}

\* Every call returns, whatever the child replies and however often it dies
\* between commands and is started again, unless one of the events happens.
CallsReturn == \A c \in Callers : pc[c] = "lock" ~> (pc[c] = "idle" \/ Broken)

\* ipc_exit comes to an end.
ExitEnds == life = "join" ~> (life = "freed" \/ Broken)

-----------------------------------------------------------------------------
(* Refinement.                                                             *)

Result(c) ==
  IF pc[c] # "idle" \/ call[c].id = 0 THEN "none" ELSE IF call[c].err THEN "error" ELSE "success"

Remote == INSTANCE RemoteCall WITH
  state <- [c \in Callers |-> IF pc[c] = "idle" THEN "idle" ELSE IF pc[c] = "lock" THEN "waiting" ELSE "inside"],
  id <- [c \in Callers |-> call[c].id],
  result <- [c \in Callers |-> Result(c)],
  done <- served,
  broken <- hist \cap {"mixed", "starved", "leftover", "swallowed"} # {}

\* With its threads, pipes, signals and restarts c/ipc.c is a call of another process: one
\* call inside at a time, each command carried out at most once and before its call returns,
\* and success only for what was carried out.
IsRemoteCall == Remote!Spec
=============================================================================
