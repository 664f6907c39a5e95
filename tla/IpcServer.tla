----------------------------- MODULE IpcServer -----------------------------
(***************************************************************************)
(* PSDToolKit.exe as a set of goroutines: IPC.Main and readCommand of      *)
(* go/ipc/ipc.go, the GUI thread of go/gui/gui.go, and the goroutines that *)
(* hand it UpdateTagState.  All channels are unbuffered, so a send and its *)
(* receive are one step of two goroutines.  A command with its arguments,  *)
(* a reply with its payload and a request are one message of a pipe.       *)
(***************************************************************************)
EXTENDS Naturals, Sequences, FiniteSets

CONSTANTS
  Commands,     \* the commands AviUtl sends, a subset of AllCommands
  MaxCommands,  \* bound: commands sent
  MaxRequests,  \* bound: requests the user makes in the window
  MaxTicks      \* bound: ticks of gcTicker

\* The commands whose function runs in the GUI thread (main.go wires them).
GuiCommands == {"ADDF", "CLRF", "SGUI", "SRLZ", "DSLZ"}
AllCommands == GuiCommands \cup {"UPDP", "DRAW", "LNAM", "PROP", "PROP+tag"}

ASSUME ServerAssumption ==
  /\ Commands \subseteq AllCommands
  /\ {MaxCommands, MaxRequests, MaxTicks} \subseteq Nat

VARIABLES
  main, job,  \* where IPC.Main is, and what it is working on
  rd, got,    \* where readCommand is, and the command it offers
  gui,        \* where the GUI thread is
  tags,       \* goroutines waiting to run UpdateTagState in the GUI thread
  stdin, stdout, \* the pipes
  waiting,    \* AviUtl has sent a command and has no reply yet
  closed,     \* AviUtl has closed its ends of the pipes
  tally

vars == <<main, job, rd, got, gui, tags, stdin, stdout, waiting, closed, tally>>

MainStates == {"select", "dispatch", "offer", "reply", "returned"}
ReaderStates == {"read", "offer", "deliver", "acked", "none"}
GuiStates ==
  {"init", "abort", "report", "select", "ask", "await", "ack", "stopped"}
Nothing == "nothing"
Eof == "eof"

Init ==
  /\ main = "select" /\ job = Nothing
  /\ rd = "read" /\ got = Nothing
  /\ gui = "init"
  /\ tags = 0
  /\ stdin = <<>> /\ stdout = <<>>
  /\ waiting = FALSE /\ closed = FALSE
  /\ tally = [commands |-> 0, requests |-> 0, ticks |-> 0]

Count(event) == tally' = [tally EXCEPT ![event] = @ + 1]
Running == gui # "stopped"

-----------------------------------------------------------------------------
(* AviUtl: one command at a time, and the worker that answers requests.    *)

Send ==
  /\ ~waiting /\ ~closed /\ Running
  /\ tally.commands < MaxCommands
  /\ \E cmd \in Commands : stdin' = Append(stdin, cmd)
  /\ waiting' = TRUE
  /\ Count("commands")
  /\ UNCHANGED <<main, job, rd, got, gui, tags, stdout, closed>>

Receive ==
  /\ ~closed /\ stdout # <<>>
  /\ stdout' = Tail(stdout)
  /\ \/ /\ Head(stdout) = "reply"
        /\ waiting' = FALSE
        /\ UNCHANGED stdin
     \/ /\ Head(stdout) = "request"
        /\ stdin' = Append(stdin, "answer")
        /\ UNCHANGED waiting
  /\ UNCHANGED <<main, job, rd, got, gui, tags, closed, tally>>

\* ipc_exit, or the end of AviUtl.
Close ==
  /\ ~closed
  /\ closed' = TRUE
  /\ UNCHANGED <<main, job, rd, got, gui, tags, stdin, stdout, waiting, tally>>

-----------------------------------------------------------------------------
(* readCommand.                                                            *)

\* Reads four bytes of stdin: a command, an answer, or the end.
Read ==
  /\ rd = "read" /\ Running
  /\ \/ /\ stdin # <<>> /\ Head(stdin) = "answer"
        /\ rd' = "deliver"
        /\ stdin' = Tail(stdin)
        /\ UNCHANGED got
     \/ /\ stdin # <<>> /\ Head(stdin) # "answer"
        /\ rd' = "offer" /\ got' = Head(stdin)
        /\ stdin' = Tail(stdin)
     \/ /\ stdin = <<>> /\ closed
        /\ rd' = "offer" /\ got' = Eof
        /\ UNCHANGED stdin
  /\ UNCHANGED <<main, job, gui, tags, stdout, waiting, closed, tally>>

\* Mistake: the answer is buffered; readCommand does not wait for the GUI thread.
DeliverBuffered ==
  /\ rd = "deliver"
  /\ rd' = "acked" /\ gui' = IF gui = "await" THEN "select" ELSE gui
  /\ UNCHANGED <<main, job, got, tags, stdin, stdout, waiting, closed, tally>>

\* ipc.reply <- err, received by the GUI thread.
Deliver ==
  /\ rd = "deliver" /\ gui = "await"
  /\ rd' = "acked" /\ gui' = "ack"
  /\ UNCHANGED <<main, job, got, tags, stdin, stdout, waiting, closed, tally>>

\* Mistake: readCommand does not signal replyDone.
AcknowledgeNot ==
  /\ rd = "acked"
  /\ rd' = "read"
  /\ UNCHANGED <<main, job, got, gui, tags, stdin, stdout, waiting, closed, tally>>

\* ipc.replyDone <- struct{}{}; readCommand reads on.
Acknowledge ==
  /\ rd = "acked" /\ gui = "ack"
  /\ rd' = "read" /\ gui' = "select"
  /\ UNCHANGED <<main, job, got, tags, stdin, stdout, waiting, closed, tally>>

-----------------------------------------------------------------------------
(* IPC.Main.                                                               *)

\* Mistake: Main does not return at the end of stdin.
TakeCommandNoEof ==
  /\ main = "select" /\ rd = "offer"
  /\ rd' = "none" /\ got' = Nothing
  /\ IF got = Eof
     THEN UNCHANGED <<main, job>>
     ELSE main' = "dispatch" /\ job' = got
  /\ UNCHANGED <<gui, tags, stdin, stdout, waiting, closed, tally>>

\* cmdCh: the reader hands its command over and ends.
TakeCommand ==
  /\ main = "select" /\ rd = "offer"
  /\ rd' = "none" /\ got' = Nothing
  /\ IF got = Eof
     THEN main' = "returned" /\ UNCHANGED job
     ELSE main' = "dispatch" /\ job' = got
  /\ UNCHANGED <<gui, tags, stdin, stdout, waiting, closed, tally>>

\* dispatch: a GUI command enters g.do; the others are done here.  setProps
\* starts a goroutine for a tag.
Dispatch ==
  /\ main = "dispatch"
  /\ main' = IF job \in GuiCommands THEN "offer" ELSE "reply"
  /\ tags' = IF job = "PROP+tag" THEN tags + 1 ELSE tags
  /\ UNCHANGED <<job, rd, got, gui, stdin, stdout, waiting, closed, tally>>

\* gcTicker: GCing is g.Touch, which enters g.do as well.
Tick ==
  /\ main = "select"
  /\ tally.ticks < MaxTicks
  /\ main' = "offer" /\ job' = "tick"
  /\ Count("ticks")
  /\ UNCHANGED <<rd, got, gui, tags, stdin, stdout, waiting, closed>>

\* Mistake: a tick is answered like a command.
RunInGuiReplies ==
  /\ main = "offer" /\ gui = "select"
  /\ main' = "reply"
  /\ job' = IF job = "tick" THEN "SGUI" ELSE job
  /\ UNCHANGED <<rd, got, gui, tags, stdin, stdout, waiting, closed, tally>>

\* g.do: the GUI thread receives the closure, runs it and returns its error.
RunInGui ==
  /\ main = "offer" /\ gui = "select"
  /\ IF job = "tick"
     THEN main' = "select" /\ job' = Nothing
     ELSE main' = "reply" /\ UNCHANGED job
  /\ UNCHANGED <<rd, got, gui, tags, stdin, stdout, waiting, closed, tally>>

\* Mistake: the next readCommand is not started.
ReplyStopsReading ==
  /\ main = "reply"
  /\ job' = Nothing
  /\ IF closed
     THEN main' = "returned" /\ UNCHANGED <<rd, stdout>>
     ELSE /\ main' = "select" /\ rd' = "none"
          /\ stdout' = Append(stdout, "reply")
  /\ UNCHANGED <<got, gui, tags, stdin, waiting, closed, tally>>

\* The reply or the error goes to stdout and the next readCommand starts.
\* When AviUtl is gone the error cannot be written and Main returns.
Reply ==
  /\ main = "reply"
  /\ job' = Nothing
  /\ IF closed
     THEN main' = "returned" /\ UNCHANGED <<rd, stdout>>
     ELSE /\ main' = "select" /\ rd' = "read"
          /\ stdout' = Append(stdout, "reply")
  /\ UNCHANGED <<got, gui, tags, stdin, waiting, closed, tally>>

\* ipc.queue: Main writes the request of the GUI thread, or drops it when the
\* write fails; nil makes it return.
TakeClosure ==
  /\ main = "select"
  /\ \/ /\ gui = "ask" /\ ~closed
        /\ stdout' = Append(stdout, "request")
        /\ gui' = "await"
        /\ UNCHANGED main
     \/ /\ gui = "ask" /\ closed
        /\ gui' = "select"
        /\ UNCHANGED <<main, stdout>>
     \/ /\ gui = "abort"
        /\ gui' = "report" /\ main' = "returned"
        /\ UNCHANGED stdout
  /\ UNCHANGED <<job, rd, got, tags, stdin, waiting, closed, tally>>

-----------------------------------------------------------------------------
(* The GUI thread.                                                         *)

\* g.Init: the window and its fonts, or Abort.
InitGui ==
  /\ gui = "init"
  /\ gui' \in {"select", "abort"}
  /\ UNCHANGED <<main, job, rd, got, tags, stdin, stdout, waiting, closed, tally>>

\* Abort: writeReply, and the process ends once gc has seen exitCh.
ReportAbort ==
  /\ gui = "report"
  /\ gui' = "stopped"
  /\ stdout' = IF closed THEN stdout ELSE Append(stdout, "reply")
  /\ UNCHANGED <<main, job, rd, got, tags, stdin, waiting, closed, tally>>

\* The user sends the editing image or exports a slider or the layer names:
\* update runs the request inside the GUI thread, which enters ipc.do.
Ask ==
  /\ gui = "select"
  /\ tally.requests < MaxRequests
  /\ gui' = "ask"
  /\ Count("requests")
  /\ UNCHANGED <<main, job, rd, got, tags, stdin, stdout, waiting, closed>>

RunTag ==
  /\ gui = "select" /\ tags > 0
  /\ tags' = tags - 1
  /\ UNCHANGED <<main, job, rd, got, gui, stdin, stdout, waiting, closed, tally>>

\* exitCh is closed when Main returns: the loop of the GUI thread ends.
StopGui ==
  /\ gui = "select" /\ main = "returned"
  /\ gui' = "stopped"
  /\ UNCHANGED <<main, job, rd, got, tags, stdin, stdout, waiting, closed, tally>>

-----------------------------------------------------------------------------
MainStep == TakeCommand \/ Dispatch \/ RunInGui \/ Reply \/ TakeClosure
ReaderStep == Read \/ Deliver \/ Acknowledge
GuiStep == InitGui \/ ReportAbort \/ StopGui

Next ==
  \/ Send \/ Receive \/ Close
  \/ ReaderStep
  \/ MainStep \/ Tick
  \/ GuiStep \/ Ask \/ RunTag

Spec == Init /\ [][Next]_vars

(***************************************************************************)
(* Every goroutine goes on when it can, and AviUtl reads what it is sent.  *)
(* Nobody has to send a command, click, or close.                          *)
(***************************************************************************)
FairSpec ==
  /\ Spec
  /\ WF_vars(MainStep) /\ WF_vars(ReaderStep) /\ WF_vars(GuiStep)
  /\ WF_vars(RunTag) /\ WF_vars(Receive)

-----------------------------------------------------------------------------
(* Properties.                                                             *)

\* Every variable has its type.
TypeOK ==
  /\ main \in MainStates
  /\ job \in Commands \cup {Nothing, "tick"}
  /\ rd \in ReaderStates
  /\ got \in Commands \cup {Nothing, Eof}
  /\ gui \in GuiStates
  /\ tags \in 0 .. MaxCommands
  /\ stdin \in Seq(Commands \cup {"answer"})
  /\ stdout \in Seq({"reply", "request"})
  /\ waiting \in BOOLEAN /\ closed \in BOOLEAN

One(b) == IF b THEN 1 ELSE 0
Number(s, M) == Cardinality({i \in 1 .. Len(s) : s[i] \in M})

\* As long as Main runs, the command AviUtl waits for is in exactly one place:
\* on its way in, in the hands of readCommand, in dispatch, or answered.  No
\* command gets two replies, and a reply is never to nobody.
OneReplyPerCommand ==
  /\ TypeOK
  /\ main # "returned" =>
       One(waiting) = Number(stdin, Commands)
                   + One(rd = "offer" /\ got # Eof)
                   + One(main # "select" /\ job # "tick")
                   + Number(stdout, {"reply"})

\* A request of the GUI thread is in exactly one place until it is answered,
\* and readCommand delivers an answer only to a GUI thread that waits for it:
\* the sends on ipc.reply and ipc.replyDone never block.
AnswersReachTheAsker ==
  /\ One(gui = "await") = Number(stdout, {"request"}) + Number(stdin, {"answer"})
                          + One(rd = "deliver")
  /\ rd = "acked" <=> gui = "ack"

\* Main waits for the GUI thread, and the GUI thread for Main: it offers a
\* request, or it waits for an answer that nobody will read.
Embraced ==
  /\ main = "offer"
  /\ gui \in {"ask", "abort"} \/ (gui = "await" /\ rd \in {"none", "offer"})

\* Main has returned and the GUI thread still waits for it.
Stranded == main = "returned" /\ gui \in {"ask", "await", "abort"}

\* The process ends once AviUtl has closed the pipes, unless the GUI thread is
\* inside a request, or waits for Main as above.
EndsAfterClose == closed ~> (gui = "stopped" \/ Embraced \/ Stranded)

\* Every command is answered and every request of the user comes back to the window, in
\* whatever order commands, answers, clicks and ticks arrive, unless Main and the GUI
\* thread wait for each other or AviUtl has closed the pipes.
EveryoneIsAnswered ==
  /\ waiting ~> (~waiting \/ closed \/ Embraced)
  /\ gui = "ask" ~> (gui = "select" \/ closed \/ Embraced)
=============================================================================
