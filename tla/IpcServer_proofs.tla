-------------------------- MODULE IpcServer_proofs --------------------------
(***************************************************************************)
(* PSDToolKit.exe answers every command once and every request of its own, *)
(* for any set of commands and any number of commands, clicks and ticks.   *)
(***************************************************************************)
EXTENDS IpcServer, FiniteSetTheorems, TLAPS

\* The events counted so far.
Tallied == tally \in [commands : 0 .. MaxCommands, requests : 0 .. MaxRequests, ticks : 0 .. MaxTicks]

\* IPC.Main has no reader while it works on a command, so it takes no second one,
\* and starts the next reader when there is none.
Reading ==
  /\ main \in {"dispatch", "reply"} => job \in Commands
  /\ main = "offer" => job # Nothing
  /\ main \in {"dispatch", "reply"} \/ (main = "offer" /\ job # "tick") => rd = "none"
  /\ main = "select" \/ (main = "offer" /\ job = "tick") => rd # "none"
  /\ rd = "offer" => got # Nothing
  /\ gui = "report" => main = "returned"

\* The goroutines that wait to run UpdateTagState come from different commands.
TagsCounted ==
  tags + Number(stdin, Commands) + One(rd = "offer" /\ got # Eof) + One(main = "dispatch") <= tally.commands

\* The inductive invariant.
Inv == TypeOK /\ Tallied /\ Reading /\ TagsCounted /\ OneReplyPerCommand /\ AnswersReachTheAsker

-----------------------------------------------------------------------------
(* Counting what is in a pipe.                                             *)

\* The messages of a pipe that are in a set are finitely many.
LEMMA NumberIsNat ==
  ASSUME NEW S, NEW s \in Seq(S), NEW M
  PROVE  /\ IsFiniteSet({i \in 1 .. Len(s) : s[i] \in M})
         /\ Number(s, M) \in Nat
<1>1. Len(s) \in Nat
  OBVIOUS
<1>2. IsFiniteSet(1 .. Len(s))
  BY <1>1, FS_Interval
<1>3. {i \in 1 .. Len(s) : s[i] \in M} \in SUBSET (1 .. Len(s))
  OBVIOUS
<1>4. IsFiniteSet({i \in 1 .. Len(s) : s[i] \in M})
  BY <1>2, <1>3, FS_Subset
<1> QED BY <1>4, FS_CardinalityType DEF Number

LEMMA NumberOfNone == \A M : Number(<<>>, M) = 0
<1>1. ASSUME NEW M
      PROVE  {i \in 1 .. Len(<<>>) : <<>>[i] \in M} = {}
  OBVIOUS
<1> QED BY <1>1, FS_EmptySet DEF Number

\* A message more at the end ...
LEMMA NumberOfAppend ==
  ASSUME NEW S, NEW s \in Seq(S), NEW e \in S, NEW M
  PROVE  Number(Append(s, e), M) = Number(s, M) + One(e \in M)
<1> DEFINE A == {i \in 1 .. Len(s) : s[i] \in M}
           B == {i \in 1 .. Len(Append(s, e)) : Append(s, e)[i] \in M}
<1>1. /\ Len(s) \in Nat /\ Len(Append(s, e)) = Len(s) + 1
      /\ Append(s, e)[Len(s) + 1] = e /\ \A i \in 1 .. Len(s) : Append(s, e)[i] = s[i]
  OBVIOUS
<1>2. IsFiniteSet(A) /\ Number(s, M) = Cardinality(A) /\ Number(Append(s, e), M) = Cardinality(B)
  BY NumberIsNat DEF Number
<1>3. Len(s) + 1 \notin A
  BY <1>1
<1>4. \A i : i \in 1 .. Len(s) + 1 <=> i \in 1 .. Len(s) \/ i = Len(s) + 1
  BY <1>1
<1>5. CASE e \in M
  <2>1. B = A \cup {Len(s) + 1}
    BY <1>1, <1>4, <1>5
  <2>2. Cardinality(A \cup {Len(s) + 1}) = Cardinality(A) + 1
    BY <1>2, <1>3, FS_AddElement
  <2>3. One(e \in M) = 1
    BY <1>5 DEF One
  <2> QED BY <1>2, <2>1, <2>2, <2>3
<1>6. CASE e \notin M
  <2>1. B = A
    BY <1>1, <1>4, <1>6
  <2>2. Cardinality(A) \in Nat
    BY <1>2, FS_CardinalityType
  <2>3. One(e \in M) = 0
    BY <1>6 DEF One
  <2>4. \A n \in Nat : n = n + 0
    OBVIOUS
  <2> HIDE DEF A, B
  <2> QED BY <1>2, <2>1, <2>2, <2>3, <2>4
<1> QED BY <1>5, <1>6

\* ... or one less at the head.
LEMMA NumberOfTail ==
  ASSUME NEW S, NEW s \in Seq(S), s # <<>>, NEW M
  PROVE  Number(s, M) = Number(Tail(s), M) + One(Head(s) \in M)
<1> DEFINE A == {i \in 1 .. Len(Tail(s)) : Tail(s)[i] \in M}
           B == {i \in 1 .. Len(s) : s[i] \in M}
           C == B \ {1}
           f == [i \in A |-> i + 1]
<1>1. /\ Len(s) \in Nat /\ Len(s) > 0 /\ Len(Tail(s)) = Len(s) - 1 /\ Head(s) = s[1]
      /\ \A i \in 1 .. Len(Tail(s)) : Tail(s)[i] = s[i + 1]
      /\ Tail(s) \in Seq(S)
  OBVIOUS
<1>2. IsFiniteSet(A) /\ IsFiniteSet(B) /\ Number(s, M) = Cardinality(B) /\ Number(Tail(s), M) = Cardinality(A)
  BY <1>1, NumberIsNat DEF Number
<1>3. ExistsBijection(A, C)
  <2>1. \A i \in A : i \in Int /\ i + 1 \in C
    BY <1>1
  <2>2. f \in [A -> C]
    BY <2>1
  <2>3. \A i, j \in A : f[i] = f[j] => i = j
    BY <2>1
  <2>4. \A k \in C : k - 1 \in A /\ f[k - 1] = k
    BY <1>1
  <2>5. f \in Bijection(A, C)
    BY <2>1, <2>2, <2>3, <2>4 DEF Bijection, Injection, IsInjective, Surjection
  <2> QED BY <2>5 DEF ExistsBijection
<1>4. Cardinality(C) = Cardinality(A)
  BY <1>2, <1>3, FS_Bijection
<1>5. Cardinality(C) = IF 1 \in B THEN Cardinality(B) - 1 ELSE Cardinality(B)
  BY <1>2, FS_RemoveElement
<1>6. 1 \in B <=> Head(s) \in M
  BY <1>1
<1>7. Cardinality(A) \in Nat /\ Cardinality(B) \in Nat
  BY <1>2, FS_CardinalityType
<1> HIDE DEF A, B, C
<1>8. CASE Head(s) \in M
  <2>1. One(Head(s) \in M) = 1
    BY <1>8 DEF One
  <2> QED BY <1>2, <1>4, <1>5, <1>6, <1>7, <1>8, <2>1
<1>9. CASE Head(s) \notin M
  <2>1. One(Head(s) \in M) = 0
    BY <1>9 DEF One
  <2> QED BY <1>2, <1>4, <1>5, <1>6, <1>7, <1>9, <2>1
<1> QED BY <1>8, <1>9

-----------------------------------------------------------------------------
(* What the steps do to the pipes.                                         *)

\* A command is not an answer, and neither is anything of IPC.Main's own.
LEMMA NamesDiffer == {"answer", "tick", Nothing, Eof} \cap Commands = {}
BY ServerAssumption DEF AllCommands, GuiCommands, Nothing, Eof

\* What AviUtl sends.
LEMMA AfterSend ==
  ASSUME TypeOK, Send
  PROVE  /\ stdin' \in Seq(Commands \cup {"answer"})
         /\ Number(stdin', Commands) = Number(stdin, Commands) + 1
         /\ Number(stdin', {"answer"}) = Number(stdin, {"answer"})
<1>1. stdin \in Seq(Commands \cup {"answer"})
  BY DEF TypeOK
<1>2. PICK cmd \in Commands : stdin' = Append(stdin, cmd)
  BY DEF Send
<1>3. cmd \in Commands /\ cmd \notin {"answer"} /\ cmd \in Commands \cup {"answer"}
  BY NamesDiffer
<1>4. /\ Number(stdin', Commands) = Number(stdin, Commands) + One(cmd \in Commands)
      /\ Number(stdin', {"answer"}) = Number(stdin, {"answer"}) + One(cmd \in {"answer"})
  BY <1>1, <1>2, <1>3, NumberOfAppend
<1>5. One(cmd \in Commands) = 1 /\ One(cmd \in {"answer"}) = 0
  BY <1>3 DEF One
<1>6. Number(stdin, {"answer"}) \in Nat
  BY <1>1, NumberIsNat
<1>7. stdin' \in Seq(Commands \cup {"answer"})
  BY <1>1, <1>2, <1>3
<1> QED BY <1>4, <1>5, <1>6, <1>7

\* What AviUtl receives and answers.
LEMMA AfterReceive ==
  ASSUME TypeOK, Receive
  PROVE  /\ stdout' \in Seq({"reply", "request"}) /\ stdin' \in Seq(Commands \cup {"answer"})
         /\ Number(stdin', Commands) = Number(stdin, Commands)
         /\ \/ /\ waiting' = FALSE
               /\ Number(stdout', {"reply"}) = Number(stdout, {"reply"}) - 1
               /\ Number(stdout', {"request"}) = Number(stdout, {"request"})
               /\ Number(stdin', {"answer"}) = Number(stdin, {"answer"})
            \/ /\ waiting' = waiting
               /\ Number(stdout', {"reply"}) = Number(stdout, {"reply"})
               /\ Number(stdout', {"request"}) = Number(stdout, {"request"}) - 1
               /\ Number(stdin', {"answer"}) = Number(stdin, {"answer"}) + 1
<1>1. /\ stdin \in Seq(Commands \cup {"answer"}) /\ stdout \in Seq({"reply", "request"})
      /\ stdout # <<>> /\ stdout' = Tail(stdout) /\ Tail(stdout) \in Seq({"reply", "request"})
  BY DEF TypeOK, Receive
<1>2. /\ Number(stdout, {"reply"}) = Number(stdout', {"reply"}) + One(Head(stdout) \in {"reply"})
      /\ Number(stdout, {"request"}) = Number(stdout', {"request"}) + One(Head(stdout) \in {"request"})
  BY <1>1, NumberOfTail
<1>3. Number(stdout', {"reply"}) \in Nat /\ Number(stdout', {"request"}) \in Nat
  BY <1>1, NumberIsNat
<1>4. CASE Head(stdout) = "reply"
  <2>1. One(Head(stdout) \in {"reply"}) = 1 /\ One(Head(stdout) \in {"request"}) = 0
    BY <1>4 DEF One
  <2>2. waiting' = FALSE /\ stdin' = stdin
    BY <1>4 DEF Receive
  <2> QED BY <1>1, <1>2, <1>3, <2>1, <2>2
<1>5. CASE Head(stdout) = "request"
  <2>1. One(Head(stdout) \in {"reply"}) = 0 /\ One(Head(stdout) \in {"request"}) = 1
    BY <1>5 DEF One
  <2>2. waiting' = waiting /\ stdin' = Append(stdin, "answer")
    BY <1>5 DEF Receive
  <2>3. "answer" \in {"answer"} /\ "answer" \notin Commands /\ "answer" \in Commands \cup {"answer"}
    BY NamesDiffer
  <2>4. /\ Number(stdin', Commands) = Number(stdin, Commands) + One("answer" \in Commands)
        /\ Number(stdin', {"answer"}) = Number(stdin, {"answer"}) + One("answer" \in {"answer"})
    BY <1>1, <2>2, <2>3, NumberOfAppend
  <2>5. One("answer" \in Commands) = 0 /\ One("answer" \in {"answer"}) = 1
    BY <2>3 DEF One
  <2>6. Number(stdin, Commands) \in Nat
    BY <1>1, NumberIsNat
  <2>7. stdin' \in Seq(Commands \cup {"answer"})
    BY <1>1, <2>2, <2>3
  <2> QED BY <1>1, <1>2, <1>3, <2>1, <2>2, <2>4, <2>5, <2>6, <2>7
<1> QED BY <1>4, <1>5 DEF Receive

\* What readCommand reads.
LEMMA AfterRead ==
  ASSUME TypeOK, Read
  PROVE  /\ stdin' \in Seq(Commands \cup {"answer"}) /\ got' \in Commands \cup {Nothing, Eof}
         /\ \/ /\ rd' = "deliver" /\ got' = got
               /\ Number(stdin', Commands) = Number(stdin, Commands)
               /\ Number(stdin', {"answer"}) = Number(stdin, {"answer"}) - 1
            \/ /\ rd' = "offer" /\ got' \in Commands
               /\ Number(stdin', Commands) = Number(stdin, Commands) - 1
               /\ Number(stdin', {"answer"}) = Number(stdin, {"answer"})
            \/ rd' = "offer" /\ got' = Eof /\ stdin' = stdin
<1>1. stdin \in Seq(Commands \cup {"answer"}) /\ got \in Commands \cup {Nothing, Eof}
  BY DEF TypeOK
<1>2. CASE rd' = "offer" /\ got' = Eof /\ stdin' = stdin
  BY <1>1, <1>2
<1>3. CASE stdin # <<>> /\ stdin' = Tail(stdin)
  <2>1. /\ Number(stdin, Commands) = Number(stdin', Commands) + One(Head(stdin) \in Commands)
        /\ Number(stdin, {"answer"}) = Number(stdin', {"answer"}) + One(Head(stdin) \in {"answer"})
    BY <1>1, <1>3, NumberOfTail
  <2>2. Tail(stdin) \in Seq(Commands \cup {"answer"}) /\ Head(stdin) \in Commands \cup {"answer"}
    BY <1>1, <1>3
  <2>3. Number(stdin', Commands) \in Nat /\ Number(stdin', {"answer"}) \in Nat
    BY <1>3, <2>2, NumberIsNat
  <2>4. CASE Head(stdin) = "answer"
    <3>1. One(Head(stdin) \in Commands) = 0 /\ One(Head(stdin) \in {"answer"}) = 1
      BY <2>4, NamesDiffer DEF One
    <3>2. rd' = "deliver" /\ got' = got
      BY <1>3, <2>4 DEF Read
    <3> QED BY <1>1, <1>3, <2>1, <2>2, <2>3, <3>1, <3>2
  <2>5. CASE Head(stdin) # "answer"
    <3>1. One(Head(stdin) \in Commands) = 1 /\ One(Head(stdin) \in {"answer"}) = 0
      BY <2>2, <2>5 DEF One
    <3>2. rd' = "offer" /\ got' = Head(stdin)
      BY <1>3, <2>5 DEF Read
    <3> QED BY <1>3, <2>1, <2>2, <2>3, <2>5, <3>1, <3>2
  <2> QED BY <2>4, <2>5
<1> QED BY <1>2, <1>3 DEF Read

\* What IPC.Main and Abort write.
LEMMA AfterWrite ==
  ASSUME TypeOK, NEW m \in {"reply", "request"}, stdout' = Append(stdout, m)
  PROVE  /\ stdout' \in Seq({"reply", "request"})
         /\ Number(stdout', {"reply"}) = Number(stdout, {"reply"}) + (IF m = "reply" THEN 1 ELSE 0)
         /\ Number(stdout', {"request"}) = Number(stdout, {"request"}) + (IF m = "request" THEN 1 ELSE 0)
<1>1. stdout \in Seq({"reply", "request"})
  BY DEF TypeOK
<1>2. /\ Number(stdout', {"reply"}) = Number(stdout, {"reply"}) + One(m \in {"reply"})
      /\ Number(stdout', {"request"}) = Number(stdout, {"request"}) + One(m \in {"request"})
  BY <1>1, NumberOfAppend
<1>3. One(m \in {"reply"}) = (IF m = "reply" THEN 1 ELSE 0) /\ One(m \in {"request"}) = (IF m = "request" THEN 1 ELSE 0)
  BY DEF One
<1> QED BY <1>1, <1>2, <1>3

\* The steps that touch the pipes.
LEMMA PipeSteps ==
  ASSUME [Next]_vars
  PROVE  /\ stdin' = stdin \/ Send \/ Receive \/ Read
         /\ \/ stdout' = stdout
            \/ Receive
            \/ stdout' = Append(stdout, "reply") /\ (Reply \/ ReportAbort)
            \/ stdout' = Append(stdout, "request") /\ TakeClosure
BY DEF Next, vars, Send, Receive, Close, ReaderStep, Read, Deliver, Acknowledge, MainStep, TakeCommand, Dispatch,
       RunInGui, Reply, TakeClosure, Tick, GuiStep, InitGui, ReportAbort, StopGui, Ask, RunTag

-----------------------------------------------------------------------------
(* The invariant.                                                          *)

LEMMA TypesKept ==
  ASSUME TypeOK, Tallied, Reading, TagsCounted, [Next]_vars, TagsCounted', Tallied'
  PROVE  TypeOK'
<1>1. stdin' \in Seq(Commands \cup {"answer"})
  BY PipeSteps, AfterSend, AfterReceive, AfterRead DEF TypeOK
<1>2. stdout' \in Seq({"reply", "request"})
  BY PipeSteps, AfterReceive, AfterWrite DEF TypeOK
<1>3. got' \in Commands \cup {Nothing, Eof}
  <2>1. Read => got' \in Commands \cup {Nothing, Eof}
    BY AfterRead
  <2> QED BY <2>1 DEF TypeOK, Next, vars, Send, Receive, Close, ReaderStep, Deliver, Acknowledge, MainStep, TakeCommand,
                 Dispatch, RunInGui, Reply, TakeClosure, Tick, GuiStep, InitGui, ReportAbort, StopGui, Ask, RunTag
<1>4. main' \in MainStates /\ rd' \in ReaderStates /\ gui' \in GuiStates
  BY DEF TypeOK, Next, vars, Send, Receive, Close, ReaderStep, Read, Deliver, Acknowledge, MainStep, TakeCommand,
         Dispatch, RunInGui, Reply, TakeClosure, Tick, GuiStep, InitGui, ReportAbort, StopGui, Ask, RunTag,
         MainStates, ReaderStates, GuiStates
<1>5. job' \in Commands \cup {Nothing, "tick"}
  BY DEF TypeOK, Reading, Next, vars, Send, Receive, Close, ReaderStep, Read, Deliver, Acknowledge, MainStep, TakeCommand,
         Dispatch, RunInGui, Reply, TakeClosure, Tick, GuiStep, InitGui, ReportAbort, StopGui, Ask, RunTag
<1>6. waiting' \in BOOLEAN /\ closed' \in BOOLEAN
  BY DEF TypeOK, Next, vars, Send, Receive, Close, ReaderStep, Read, Deliver, Acknowledge, MainStep, TakeCommand,
         Dispatch, RunInGui, Reply, TakeClosure, Tick, GuiStep, InitGui, ReportAbort, StopGui, Ask, RunTag
<1>7. tags' \in 0 .. MaxCommands
  <2>1. tags' \in Nat
    <3>1. \A n \in Nat : n + 1 \in Nat /\ (n > 0 => n - 1 \in Nat)
      OBVIOUS
    <3>2. tags \in Nat
      BY DEF TypeOK
    <3> QED BY <3>1, <3>2 DEF Next, vars, Send, Receive, Close, ReaderStep, Read, Deliver, Acknowledge, MainStep,
                   TakeCommand, Dispatch, RunInGui, Reply, TakeClosure, Tick, GuiStep, InitGui, ReportAbort, StopGui,
                   Ask, RunTag
  <2>2. Number(stdin', Commands) \in Nat
    BY <1>1, NumberIsNat
  <2>3. tally'.commands \in Nat /\ tally'.commands <= MaxCommands
    BY ServerAssumption DEF Tallied
  <2>4. /\ One(rd' = "offer" /\ got' # Eof) \in {0, 1}
        /\ One(main' = "dispatch") \in {0, 1}
    BY DEF One
  <2>5. tags' + Number(stdin', Commands) + One(rd' = "offer" /\ got' # Eof) + One(main' = "dispatch") <= tally'.commands
    BY DEF TagsCounted
  <2>6. MaxCommands \in Nat
    BY ServerAssumption
  <2> QED BY <2>1, <2>2, <2>3, <2>4, <2>5, <2>6
<1> QED BY <1>1, <1>2, <1>3, <1>4, <1>5, <1>6, <1>7 DEF TypeOK

\* No event is counted beyond its bound.
LEMMA TalliedKept ==
  ASSUME Tallied, [Next]_vars
  PROVE  Tallied'
<1>1. {MaxCommands, MaxRequests, MaxTicks} \subseteq Nat
  BY ServerAssumption
<1>2. CASE tally' = tally
  BY <1>2 DEF Tallied
<1>3. CASE tally.commands < MaxCommands /\ Count("commands")
  <2>1. tally.commands + 1 \in 0 .. MaxCommands
    BY <1>1, <1>3 DEF Tallied
  <2> QED BY <1>3, <2>1 DEF Tallied, Count
<1>4. CASE tally.requests < MaxRequests /\ Count("requests")
  <2>1. tally.requests + 1 \in 0 .. MaxRequests
    BY <1>1, <1>4 DEF Tallied
  <2> QED BY <1>4, <2>1 DEF Tallied, Count
<1>5. CASE tally.ticks < MaxTicks /\ Count("ticks")
  <2>1. tally.ticks + 1 \in 0 .. MaxTicks
    BY <1>1, <1>5 DEF Tallied
  <2> QED BY <1>5, <2>1 DEF Tallied, Count
<1> QED BY <1>2, <1>3, <1>4, <1>5
        DEF Next, vars, Send, Receive, Close, ReaderStep, Read, Deliver, Acknowledge, MainStep, TakeCommand,
            Dispatch, RunInGui, Reply, TakeClosure, Tick, GuiStep, InitGui, ReportAbort, StopGui, Ask, RunTag

LEMMA ReadingKept ==
  ASSUME TypeOK, Reading, [Next]_vars
  PROVE  Reading'
<1>1. Nothing \notin Commands /\ "tick" \notin Commands /\ Eof # Nothing /\ Nothing # "tick"
  BY NamesDiffer DEF Nothing, Eof
<1>2. ASSUME Read
      PROVE  Reading'
  <2>1. rd' # "none" /\ (rd' = "offer" => got' # Nothing)
    BY <1>1, <1>2, AfterRead
  <2> QED BY <1>2, <2>1 DEF Read, Reading
<1>3. ASSUME MainStep
      PROVE  Reading'
  BY <1>1, <1>3 DEF MainStep, TakeCommand, Dispatch, RunInGui, Reply, TakeClosure, Reading, TypeOK, MainStates
<1>4. ASSUME Tick
      PROVE  Reading'
  BY <1>1, <1>4 DEF Tick, Reading
<1>5. ASSUME Deliver \/ Acknowledge
      PROVE  Reading'
  BY <1>1, <1>5 DEF Deliver, Acknowledge, Reading
<1>6. ASSUME Send \/ Receive \/ Close \/ GuiStep \/ Ask \/ RunTag \/ UNCHANGED vars
      PROVE  Reading'
  BY <1>6 DEF vars, Send, Receive, Close, GuiStep, InitGui, ReportAbort, StopGui, Ask, RunTag, Reading
<1> QED BY <1>2, <1>3, <1>4, <1>5, <1>6 DEF Next, ReaderStep

\* What is counted is a number.
LEMMA Counted ==
  ASSUME TypeOK, Tallied
  PROVE  /\ \A M : Number(stdin, M) \in Nat /\ Number(stdout, M) \in Nat
         /\ tags \in Nat /\ tally.commands \in Nat
<1>1. stdin \in Seq(Commands \cup {"answer"}) /\ stdout \in Seq({"reply", "request"}) /\ tags \in Nat
  BY DEF TypeOK
<1>2. tally.commands \in Nat
  BY ServerAssumption DEF Tallied
<1> QED BY <1>1, <1>2, NumberIsNat

LEMMA TagsCountedKept ==
  ASSUME TypeOK, Tallied, TagsCounted, [Next]_vars
  PROVE  TagsCounted'
<1>1. Number(stdin, Commands) \in Nat /\ tags \in Nat /\ tally.commands \in Nat
  BY Counted
<1>2. ASSUME Send
      PROVE  TagsCounted'
  <2>1. tally'.commands = tally.commands + 1
    BY <1>2 DEF Send, Count, Tallied
  <2>2. Number(stdin', Commands) = Number(stdin, Commands) + 1
    BY <1>2, AfterSend
  <2> QED BY <1>1, <1>2, <2>1, <2>2 DEF Send, TagsCounted, One
<1>3. ASSUME Receive
      PROVE  TagsCounted'
  <2>1. Number(stdin', Commands) = Number(stdin, Commands)
    BY <1>3, AfterReceive
  <2> QED BY <1>3, <2>1 DEF Receive, TagsCounted
<1>4. ASSUME Read
      PROVE  TagsCounted'
  <2>1. \/ rd' = "deliver" /\ Number(stdin', Commands) = Number(stdin, Commands)
        \/ rd' = "offer" /\ Number(stdin', Commands) = Number(stdin, Commands) - 1
        \/ rd' = "offer" /\ got' = Eof /\ stdin' = stdin
    BY <1>4, AfterRead
  <2>2. rd = "read" /\ UNCHANGED <<main, tags, tally>>
    BY <1>4 DEF Read
  <2> QED BY <1>1, <2>1, <2>2 DEF TagsCounted, One
<1>5. ASSUME TakeCommand
      PROVE  TagsCounted'
  BY <1>1, <1>5 DEF TakeCommand, TagsCounted, One
<1>6. ASSUME Dispatch
      PROVE  TagsCounted'
  BY <1>1, <1>6 DEF Dispatch, TagsCounted, One
<1>7. ASSUME RunTag
      PROVE  TagsCounted'
  BY <1>1, <1>7 DEF RunTag, TagsCounted, One
<1>8. ASSUME Tick
      PROVE  TagsCounted'
  <2>1. tally'.commands = tally.commands
    BY <1>8 DEF Tick, Count, Tallied
  <2> QED BY <1>1, <1>8, <2>1 DEF Tick, TagsCounted, One
<1>9. ASSUME Ask
      PROVE  TagsCounted'
  <2>1. tally'.commands = tally.commands
    BY <1>9 DEF Ask, Count, Tallied
  <2> QED BY <1>9, <2>1 DEF Ask, TagsCounted
<1>10. ASSUME RunInGui \/ Reply \/ TakeClosure
       PROVE  TagsCounted'
  BY <1>1, <1>10 DEF RunInGui, Reply, TakeClosure, TagsCounted, One
<1>11. ASSUME Close \/ Deliver \/ Acknowledge \/ GuiStep \/ UNCHANGED vars
       PROVE  TagsCounted'
  BY <1>1, <1>11 DEF vars, Close, Deliver, Acknowledge, GuiStep, InitGui, ReportAbort, StopGui, TagsCounted, One
<1> QED BY <1>2, <1>3, <1>4, <1>5, <1>6, <1>7, <1>8, <1>9, <1>10, <1>11 DEF Next, ReaderStep, MainStep

\* The command AviUtl waits for is in one place.
LEMMA OneReplyKept ==
  ASSUME TypeOK, Tallied, Reading, OneReplyPerCommand, [Next]_vars, TypeOK'
  PROVE  OneReplyPerCommand'
<1> DEFINE Offered == One(rd = "offer" /\ got # Eof)
           InHand == One(main # "select" /\ job # "tick")
<1> SUFFICES ASSUME main' # "returned"
             PROVE  (One(waiting) = Number(stdin, Commands) + Offered + InHand + Number(stdout, {"reply"}))'
  BY DEF OneReplyPerCommand
<1>1. Number(stdin, Commands) \in Nat /\ Number(stdout, {"reply"}) \in Nat
  BY Counted
<1>2. main # "returned"
  BY DEF Next, vars, Send, Receive, Close, ReaderStep, Read, Deliver, Acknowledge, MainStep, TakeCommand, Dispatch,
         RunInGui, Reply, TakeClosure, Tick, GuiStep, InitGui, ReportAbort, StopGui, Ask, RunTag
<1>3. One(waiting) = Number(stdin, Commands) + Offered + InHand + Number(stdout, {"reply"})
  BY <1>2 DEF OneReplyPerCommand
<1>4. Offered \in {0, 1} /\ InHand \in {0, 1} /\ One(waiting) \in {0, 1}
  BY DEF One
<1>5. CASE Send
  <2>1. Number(stdin', Commands) = Number(stdin, Commands) + 1
    BY <1>5, AfterSend
  <2>2. One(waiting) = 0 /\ One(waiting') = 1
    BY <1>5 DEF Send, One
  <2>3. Offered' = Offered /\ InHand' = InHand /\ stdout' = stdout
    BY <1>5 DEF Send
  <2> HIDE DEF Offered, InHand
  <2> QED BY <1>1, <1>3, <1>4, <2>1, <2>2, <2>3
<1>6. CASE Receive
  <2>1. Offered' = Offered /\ InHand' = InHand
    BY <1>6 DEF Receive
  <2>2. /\ Number(stdin', Commands) = Number(stdin, Commands)
        /\ \/ waiting' = FALSE /\ Number(stdout', {"reply"}) = Number(stdout, {"reply"}) - 1
           \/ waiting' = waiting /\ Number(stdout', {"reply"}) = Number(stdout, {"reply"})
    BY <1>6, AfterReceive
  <2>3. waiting' = FALSE => One(waiting') = 0
    BY DEF One
  <2>4. Number(stdout', {"reply"}) \in Nat
    <3>1. stdout' \in Seq({"reply", "request"})
      BY <1>6, AfterReceive
    <3> QED BY <3>1, NumberIsNat
  <2>5. waiting' = waiting => One(waiting') = One(waiting)
    OBVIOUS
  <2> HIDE DEF Offered, InHand
  <2> QED BY <1>1, <1>3, <1>4, <2>1, <2>2, <2>3, <2>4, <2>5
<1>7. CASE Read
  <2>1. /\ got' \in Commands => got' # Eof
        /\ UNCHANGED <<main, job, stdout, waiting>> /\ rd = "read"
    BY <1>7, NamesDiffer DEF Read
  <2>2. \/ Number(stdin', Commands) = Number(stdin, Commands) /\ Offered' = 0
        \/ Number(stdin', Commands) = Number(stdin, Commands) - 1 /\ Offered' = 1
    BY <1>7, <2>1, AfterRead DEF One
  <2>3. Offered = 0
    BY <2>1 DEF One
  <2>4. InHand' = InHand /\ waiting' = waiting /\ stdout' = stdout
    BY <2>1
  <2> HIDE DEF Offered, InHand
  <2> QED BY <1>1, <1>3, <1>4, <2>2, <2>3, <2>4
<1>8. CASE TakeCommand
  <2>1. got # Eof /\ got \in Commands /\ got # "tick"
    BY <1>8, NamesDiffer DEF TakeCommand, TypeOK, Reading
  <2>2. Offered = 1 /\ Offered' = 0 /\ InHand = 0 /\ InHand' = 1
    BY <1>8, <2>1 DEF TakeCommand, One
  <2>3. UNCHANGED <<stdin, stdout, waiting>>
    BY <1>8 DEF TakeCommand
  <2> HIDE DEF Offered, InHand
  <2> QED BY <1>1, <1>3, <2>2, <2>3
<1>9. CASE Reply
  <2>1. rd = "none" /\ job # "tick"
    BY <1>9, NamesDiffer DEF Reply, Reading
  <2>2. Offered = 0 /\ Offered' = 0 /\ InHand = 1 /\ InHand' = 0
    BY <1>9, <2>1 DEF Reply, One
  <2>3. stdout' = Append(stdout, "reply") /\ UNCHANGED <<stdin, waiting>>
    BY <1>9 DEF Reply
  <2>4. Number(stdout', {"reply"}) = Number(stdout, {"reply"}) + 1
    BY <2>3, AfterWrite
  <2> HIDE DEF Offered, InHand
  <2> QED BY <1>1, <1>3, <2>2, <2>3, <2>4
<1>10. CASE TakeClosure
  <2>1. Offered' = Offered /\ InHand' = InHand /\ UNCHANGED <<stdin, waiting>>
    BY <1>10 DEF TakeClosure
  <2>2. Number(stdout', {"reply"}) = Number(stdout, {"reply"})
    <3>1. stdout' = stdout \/ stdout' = Append(stdout, "request")
      BY <1>10 DEF TakeClosure
    <3> QED BY <1>1, <3>1, AfterWrite
  <2> HIDE DEF Offered, InHand
  <2> QED BY <1>3, <2>1, <2>2
<1>11. CASE Dispatch \/ RunInGui \/ Tick
  <2>1. Offered' = Offered /\ UNCHANGED <<stdin, stdout, waiting>>
    BY <1>11 DEF Dispatch, RunInGui, Tick
  <2>2. InHand' = InHand
    BY <1>11, NamesDiffer DEF Dispatch, RunInGui, Tick, One
  <2> HIDE DEF Offered, InHand
  <2> QED BY <1>3, <2>1, <2>2
<1>12. CASE Close \/ Deliver \/ Acknowledge \/ InitGui \/ StopGui \/ Ask \/ RunTag \/ UNCHANGED vars
  <2>1. InHand' = InHand /\ UNCHANGED <<stdin, stdout, waiting>>
    BY <1>12 DEF vars, Close, Deliver, Acknowledge, InitGui, StopGui, Ask, RunTag
  <2>2. Offered' = Offered
    BY <1>12 DEF vars, Close, Deliver, Acknowledge, InitGui, StopGui, Ask, RunTag, One
  <2> HIDE DEF Offered, InHand
  <2> QED BY <1>3, <2>1, <2>2
<1>13. ~ReportAbort
  BY <1>2 DEF ReportAbort, Reading
<1> QED BY <1>5, <1>6, <1>7, <1>8, <1>9, <1>10, <1>11, <1>12, <1>13 DEF Next, ReaderStep, MainStep, GuiStep

\* The request of the GUI thread is in one place.
LEMMA AnswersKept ==
  ASSUME TypeOK, Tallied, Reading, AnswersReachTheAsker, [Next]_vars
  PROVE  AnswersReachTheAsker'
<1> DEFINE Asking == One(gui = "await")
           Delivering == One(rd = "deliver")
<1>1. Number(stdout, {"request"}) \in Nat /\ Number(stdin, {"answer"}) \in Nat
  BY Counted
<1>2. Asking = Number(stdout, {"request"}) + Number(stdin, {"answer"}) + Delivering
  BY DEF AnswersReachTheAsker
<1>3. rd = "acked" <=> gui = "ack"
  BY DEF AnswersReachTheAsker
<1>4. Asking \in {0, 1} /\ Delivering \in {0, 1}
  BY DEF One
<1> SUFFICES (/\ Asking = Number(stdout, {"request"}) + Number(stdin, {"answer"}) + Delivering
              /\ rd = "acked" <=> gui = "ack")'
  BY DEF AnswersReachTheAsker
<1>5. CASE Send
  <2>1. Number(stdin', {"answer"}) = Number(stdin, {"answer"})
    BY <1>5, AfterSend
  <2>2. UNCHANGED <<stdout, rd, gui>>
    BY <1>5 DEF Send
  <2> QED BY <1>2, <1>3, <2>1, <2>2
<1>6. CASE Receive
  <2>1. \/ /\ Number(stdout', {"request"}) = Number(stdout, {"request"})
           /\ Number(stdin', {"answer"}) = Number(stdin, {"answer"})
        \/ /\ Number(stdout', {"request"}) = Number(stdout, {"request"}) - 1
           /\ Number(stdin', {"answer"}) = Number(stdin, {"answer"}) + 1
    BY <1>6, AfterReceive
  <2>2. UNCHANGED <<rd, gui>>
    BY <1>6 DEF Receive
  <2>3. Asking' = Asking /\ Delivering' = Delivering
    BY <2>2
  <2> HIDE DEF Asking, Delivering
  <2> QED BY <1>1, <1>2, <1>3, <1>4, <2>1, <2>2, <2>3
<1>7. CASE Read
  <2>1. \/ rd' = "deliver" /\ Number(stdin', {"answer"}) = Number(stdin, {"answer"}) - 1
        \/ rd' = "offer" /\ Number(stdin', {"answer"}) = Number(stdin, {"answer"})
    BY <1>7, AfterRead
  <2>2. rd = "read" /\ UNCHANGED <<gui, stdout>>
    BY <1>7 DEF Read
  <2>3. Delivering = 0 /\ Asking' = Asking
    BY <2>2 DEF One
  <2>4. rd' = "deliver" => Delivering' = 1
    BY DEF One
  <2>5. rd' = "offer" => Delivering' = 0
    BY DEF One
  <2>6. rd' # "acked" /\ gui' # "ack"
    BY <1>3, <2>1, <2>2
  <2> HIDE DEF Asking, Delivering
  <2> QED BY <1>1, <1>2, <1>4, <2>1, <2>2, <2>3, <2>4, <2>5, <2>6
<1>8. CASE Reply
  <2>1. rd = "none" /\ rd' \in {"none", "read"} /\ UNCHANGED <<gui, stdin>>
    BY <1>8 DEF Reply, Reading
  <2>2. Number(stdout', {"request"}) = Number(stdout, {"request"})
    <3>1. stdout' = stdout \/ stdout' = Append(stdout, "reply")
      BY <1>8 DEF Reply
    <3> QED BY <1>1, <3>1, AfterWrite
  <2>3. Delivering = 0 /\ Delivering' = 0
    BY <2>1 DEF One
  <2>4. rd' # "acked" /\ gui' # "ack" /\ Asking' = Asking
    BY <1>3, <2>1
  <2> HIDE DEF Asking, Delivering
  <2> QED BY <1>1, <1>2, <2>1, <2>2, <2>3, <2>4
<1>9. CASE TakeClosure
  <2>1. UNCHANGED <<rd, stdin>> /\ gui # "ack" /\ gui' # "ack"
    BY <1>9 DEF TakeClosure
  <2>2. Asking = 0
    BY <1>9 DEF TakeClosure, One
  <2>3. \/ stdout' = stdout /\ Asking' = 0
        \/ stdout' = Append(stdout, "request") /\ Asking' = 1
    BY <1>9 DEF TakeClosure, One
  <2>4. stdout' = Append(stdout, "request") => Number(stdout', {"request"}) = Number(stdout, {"request"}) + 1
    BY AfterWrite
  <2>5. Delivering' = Delivering
    BY <2>1
  <2> HIDE DEF Asking, Delivering
  <2> QED BY <1>1, <1>2, <1>3, <1>4, <2>1, <2>2, <2>3, <2>4, <2>5
<1>10. CASE Deliver
  <2>1. Asking = 1 /\ Asking' = 0 /\ Delivering = 1 /\ Delivering' = 0 /\ rd' = "acked" /\ gui' = "ack"
    BY <1>10 DEF Deliver, One
  <2>2. UNCHANGED <<stdin, stdout>>
    BY <1>10 DEF Deliver
  <2> HIDE DEF Asking, Delivering
  <2> QED BY <1>1, <1>2, <2>1, <2>2
<1>11. CASE ReportAbort
  <2>1. UNCHANGED <<rd, stdin>> /\ gui = "report" /\ gui' = "stopped"
    BY <1>11 DEF ReportAbort
  <2>2. Number(stdout', {"request"}) = Number(stdout, {"request"})
    <3>1. stdout' = stdout \/ stdout' = Append(stdout, "reply")
      BY <1>11 DEF ReportAbort
    <3> QED BY <1>1, <3>1, AfterWrite
  <2>3. Asking = 0 /\ Asking' = 0 /\ Delivering' = Delivering
    BY <2>1 DEF One
  <2> HIDE DEF Asking, Delivering
  <2> QED BY <1>2, <1>3, <2>1, <2>2, <2>3
<1>12. CASE \/ Close \/ Acknowledge \/ TakeCommand \/ Dispatch \/ RunInGui \/ Tick
            \/ InitGui \/ StopGui \/ Ask \/ RunTag \/ UNCHANGED vars
  <2>1. UNCHANGED <<stdin, stdout>> /\ (rd' = "acked" <=> gui' = "ack")
    BY <1>3, <1>12 DEF vars, Close, Acknowledge, TakeCommand, Dispatch, RunInGui, Tick, InitGui, StopGui, Ask, RunTag
  <2>2. (gui' = "await" <=> gui = "await") /\ (rd' = "deliver" <=> rd = "deliver")
    BY <1>12 DEF vars, Close, Acknowledge, TakeCommand, Dispatch, RunInGui, Tick, InitGui, StopGui, Ask, RunTag
  <2>3. Asking' = Asking /\ Delivering' = Delivering
    BY <2>2 DEF One
  <2> HIDE DEF Asking, Delivering
  <2> QED BY <1>2, <2>1, <2>3
<1> QED BY <1>5, <1>6, <1>7, <1>8, <1>9, <1>10, <1>11, <1>12 DEF Next, ReaderStep, MainStep, GuiStep

LEMMA InvStarts == Init => Inv
<1> SUFFICES ASSUME Init
             PROVE  Inv
  OBVIOUS
<1>1. TypeOK
  <2>1. 0 \in 0 .. MaxCommands
    BY ServerAssumption
  <2>2. <<>> \in Seq(Commands \cup {"answer"}) /\ <<>> \in Seq({"reply", "request"})
    OBVIOUS
  <2> QED BY <2>1, <2>2 DEF Init, TypeOK, MainStates, ReaderStates, GuiStates
<1>2. Tallied /\ tally.commands = 0
  BY ServerAssumption DEF Init, Tallied
<1>3. Reading
  BY DEF Init, Reading
<1>4. /\ Number(stdin, Commands) = 0 /\ Number(stdin, {"answer"}) = 0
      /\ Number(stdout, {"reply"}) = 0 /\ Number(stdout, {"request"}) = 0
  BY NumberOfNone DEF Init
<1>5. TagsCounted
  BY <1>2, <1>4 DEF Init, TagsCounted, One
<1>6. OneReplyPerCommand
  BY <1>1, <1>4 DEF Init, OneReplyPerCommand, One
<1>7. AnswersReachTheAsker
  BY <1>4 DEF Init, AnswersReachTheAsker, One
<1> QED BY <1>1, <1>2, <1>3, <1>5, <1>6, <1>7 DEF Inv

LEMMA InvKept == Inv /\ [Next]_vars => Inv'
<1> SUFFICES ASSUME Inv, [Next]_vars
             PROVE  Inv'
  OBVIOUS
<1>1. TypeOK /\ Tallied /\ Reading /\ TagsCounted /\ OneReplyPerCommand /\ AnswersReachTheAsker
  BY DEF Inv
<1>2. Tallied' /\ Reading' /\ TagsCounted'
  BY <1>1, TalliedKept, ReadingKept, TagsCountedKept
<1>3. TypeOK'
  BY <1>1, <1>2, TypesKept
<1>4. OneReplyPerCommand' /\ AnswersReachTheAsker'
  BY <1>1, <1>3, OneReplyKept, AnswersKept
<1> QED BY <1>2, <1>3, <1>4 DEF Inv

LEMMA InvAlways == Spec => []Inv
BY InvStarts, InvKept, PTL DEF Spec

\* As long as IPC.Main runs, the command AviUtl waits for is in exactly one place and is
\* answered once.
THEOREM EachIsAnsweredOnce == Spec => []OneReplyPerCommand
<1>1. Inv => OneReplyPerCommand
  BY DEF Inv
<1> QED BY <1>1, InvAlways, PTL

\* A request of the GUI thread is in exactly one place until it is answered, and an answer
\* is only delivered to a GUI thread that waits for it.
THEOREM AnswersArrive == Spec => []AnswersReachTheAsker
<1>1. Inv => AnswersReachTheAsker
  BY DEF Inv
<1> QED BY <1>1, InvAlways, PTL
=============================================================================
