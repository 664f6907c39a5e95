--------------------------- MODULE Assist_proofs ---------------------------
(***************************************************************************)
(* What assist.c tells PSDToolKit.exe, saves from it and puts into a text, *)
(* for any set of files and any number of sends, crashes and failures.     *)
(***************************************************************************)
EXTENDS Assist, FiniteSetTheorems, TLAPS

\* The messages and the message boxes are sequences, and the sends are counted.
Queues ==
  /\ posted \in Seq(Sends \cup {UpdatePath})
  /\ dialogs \in Seq([old : Files, new : Sends])
  /\ tally.sends \in 0 .. MaxSends
  /\ tally \in [sends : Nat, crashes : Nat, failures : Nat]

\* A process that is not there has nothing, so the one that a command starts goes on from it.
Down == ~child.up => child.path = "" /\ child.list = Empty

\* A project that is loaded has told its path before, whatever message is still on its way.
PathIsTold == pc = "opened" => "path" \in lost \/ child.path = path

\* The process has the list as loaded and edited.
ListIsMade == "list" \in lost \/ child.list = made

\* Between the two calls of a save the size is what was told.
SizeIsTold == pc = "sized" => "size" \in lost \/ Size(child.list) = asked

\* What is on its way was sent after the text and after what the message boxes ask about, in the order
\* in which it is on its way.
Later(i) == /\ text.n < posted[i].n /\ posted[i].n <= tally.sends
            /\ \A k \in 1 .. Len(dialogs) : dialogs[k].new.n < posted[i].n
InOrder ==
  /\ \A i \in 1 .. Len(posted) : posted[i] # UpdatePath => Later(i)
  /\ \A i, j \in 1 .. Len(posted) :
       i < j /\ posted[i] # UpdatePath /\ posted[j] # UpdatePath => posted[i].n < posted[j].n
  /\ text.n <= tally.sends
  /\ \A k \in 1 .. Len(dialogs) : dialogs[k].new.n <= tally.sends

\* A message box that stands alone asks about the text as it is.
AsksAboutText ==
  ~nested /\ dialogs # <<>> =>
    /\ Len(dialogs) = 1
    /\ dialogs[1].old = text.file /\ text.n < dialogs[1].new.n

\* The inductive invariant.
Inv ==
  /\ TypeOK /\ Queues /\ Down /\ PathIsTold /\ PathIsCurrent /\ ListIsMade /\ SizeIsTold
  /\ InOrder /\ AsksAboutText

-----------------------------------------------------------------------------
(* The process.                                                            *)

Children == [up : BOOLEAN, path : Paths, list : Lists]

\* A command goes on from what the process has.
LEMMA RunningGoesOn ==
  ASSUME child \in Children, Down
  PROVE  Running \in Children /\ Running.up /\ Running.path = child.path /\ Running.list = child.list
<1>1. NewChild \in Children /\ NewChild.up /\ NewChild.path = "" /\ NewChild.list = Empty
  BY DEF NewChild, Children, Paths, Lists, Empty
<1>2. CASE child.up
  BY <1>2 DEF Running
<1>3. CASE ~child.up
  BY <1>1, <1>3 DEF Running, Down
<1> QED BY <1>2, <1>3

\* The project clears the list and tells its path, or what is then wrong is known to be lost.
LEMMA AfterReset ==
  ASSUME child \in Children, Down, NEW p \in Paths, Reset(p)
  PROVE  /\ child' \in Children /\ child'.up
         /\ "list" \in lost' \/ child'.list = Empty
         /\ "path" \in lost' \/ child'.path = p
         /\ lost' \subseteq lost \cup {"list", "path"}
<1>1. Running \in Children /\ Running.up
  BY RunningGoesOn
<1>2. Empty \in Lists
  BY DEF Empty, Lists
<1>3. CASE child' = [Running EXCEPT !.list = Empty, !.path = p] /\ lost' = lost \ {"list", "path"}
  <2>1. child' \in Children /\ child'.up /\ child'.list = Empty /\ child'.path = p
    BY <1>1, <1>2, <1>3 DEF Children
  <2> QED BY <1>3, <2>1
<1>4. CASE child' = [Running EXCEPT !.list = Empty] /\ lost' = (lost \ {"list"}) \cup {"path"}
  <2>1. child' \in Children /\ child'.up /\ child'.list = Empty
    BY <1>1, <1>2, <1>4 DEF Children
  <2> QED BY <1>4, <2>1
<1>5. CASE child' = Running /\ lost' = lost \cup {"list", "path"}
  BY <1>1, <1>5
<1> QED BY <1>3, <1>4, <1>5 DEF Reset

\* The project is loaded, with the path the process was told, into the process.
LEMMA AfterLoad ==
  ASSUME TypeOK, Down, PathIsTold, Load
  PROVE  /\ child' \in Children /\ child'.up /\ child'.path = child.path
         /\ "list" \in lost' \/ child'.list = disk
         /\ lost' \in {lost \cup {"list"}, lost \ {"list"}}
<1>1. child \in Children /\ disk \in Lists /\ Empty \in Lists
  BY DEF TypeOK, Children, Empty, Lists
<1>2. Running \in Children /\ Running.up /\ Running.path = child.path
  BY <1>1, RunningGoesOn
<1>3. CASE child' = Running /\ lost' = lost \cup {"list"}
  BY <1>2, <1>3
<1>4. CASE /\ child' = [Running EXCEPT !.list = IF moved /\ Running.path # path THEN Empty ELSE disk]
           /\ lost' = IF "path" \in lost THEN lost \cup {"list"} ELSE lost \ {"list"}
  <2>1. \A l \in Lists : /\ [Running EXCEPT !.list = l] \in Children /\ [Running EXCEPT !.list = l].up
                         /\ [Running EXCEPT !.list = l].path = child.path /\ [Running EXCEPT !.list = l].list = l
    BY <1>2 DEF Children
  <2>2. CASE "path" \in lost
    BY <1>1, <1>4, <2>1, <2>2
  <2>3. CASE "path" \notin lost
    <3>1. child.path = path
      BY <2>3 DEF Load, PathIsTold
    <3> QED BY <1>1, <1>2, <1>4, <2>1, <2>3, <3>1
  <2> QED BY <2>2, <2>3
<1> QED BY <1>3, <1>4 DEF Load

\* An edit changes the list in the process and the list as made in the same way.
LEMMA AfterEdit ==
  ASSUME TypeOK, Edit
  PROVE  /\ child' \in Children /\ child'.up /\ child'.path = child.path
         /\ made' \in Lists /\ (child.list = made => child'.list = made')
<1>1. child \in Children /\ made \in Lists /\ child.list \in Lists /\ child.up
  BY DEF TypeOK, Children, Edit
<1>2. \A l \in Lists : /\ [child EXCEPT !.list = l] \in Children /\ [child EXCEPT !.list = l].up
                       /\ [child EXCEPT !.list = l].path = child.path /\ [child EXCEPT !.list = l].list = l
  BY <1>1 DEF Children
<1>3. CASE \E f \in Files : child' = [child EXCEPT !.list = @ \cup {f}] /\ made' = made \cup {f}
  <2>1. PICK f \in Files : child' = [child EXCEPT !.list = child.list \cup {f}] /\ made' = made \cup {f}
    BY <1>3
  <2>2. child.list \cup {f} \in Lists /\ made \cup {f} \in Lists
    BY <1>1 DEF Lists
  <2> QED BY <1>2, <2>1, <2>2
<1>4. CASE \E f \in Files : child' = [child EXCEPT !.list = @ \ {f}] /\ made' = made \ {f}
  <2>1. PICK f \in Files : child' = [child EXCEPT !.list = child.list \ {f}] /\ made' = made \ {f}
    BY <1>4
  <2>2. child.list \ {f} \in Lists /\ made \ {f} \in Lists
    BY <1>1 DEF Lists
  <2> QED BY <1>2, <2>1, <2>2
<1> QED BY <1>1, <1>3, <1>4 DEF Edit, Lists

\* The process ends.
LEMMA AfterCrash ==
  ASSUME Crash
  PROVE  /\ child' \in Children /\ ~child'.up /\ child'.path = "" /\ child'.list = Empty
         /\ lost' = {"list", "path", "size"}
BY DEF Crash, NewChild, Children, Paths, Lists, Empty

\* A path is told.
LEMMA AfterTelling ==
  ASSUME TypeOK, Down, TellPath
  PROVE  /\ child' \in Children /\ child'.up /\ child'.list = child.list
         /\ "path" \in lost' \/ child'.path = path
         /\ lost' \in {lost \cup {"path"}, lost \ {"path"}}
<1>1. child \in Children /\ path \in Paths
  BY DEF TypeOK, Children
<1>2. Running \in Children /\ Running.up /\ Running.list = child.list
  BY <1>1, RunningGoesOn
<1>3. [Running EXCEPT !.path = path] \in Children /\ [Running EXCEPT !.path = path].up
      /\ [Running EXCEPT !.path = path].path = path /\ [Running EXCEPT !.path = path].list = child.list
  BY <1>1, <1>2 DEF Children
<1> QED BY <1>2, <1>3 DEF TellPath

\* The other steps leave in the process what is there.
Starts == AskSize \/ Save \/ SaveFails \/ ShowGui \/ Draw
Leaves == Receive \/ Answer \/ Send \/ UNCHANGED vars

LEMMA AfterStarting ==
  ASSUME TypeOK, Down, Starts \/ Leaves
  PROVE  /\ child' \in Children /\ child'.path = child.path /\ child'.list = child.list
         /\ child'.up \/ child' = child
         /\ made' = made /\ lost' \in {lost, lost \ {"size"}}
<1>1. child \in Children
  BY DEF TypeOK, Children
<1>2. CASE child' = child
  <2>1. made' = made /\ lost' \in {lost, lost \ {"size"}}
    BY DEF Starts, Leaves, AskSize, Save, SaveFails, ShowGui, Draw, Receive, Answer, Send, vars, project
  <2> QED BY <1>1, <1>2, <2>1
<1>3. CASE Starts /\ child' = Running
  <2>1. made' = made /\ lost' \in {lost, lost \ {"size"}}
    BY <1>3 DEF Starts, AskSize, Save, SaveFails, ShowGui, Draw, project
  <2> QED BY <1>1, <1>3, <2>1, RunningGoesOn
<1> QED BY <1>2, <1>3 DEF Starts, Leaves, AskSize, Save, SaveFails, ShowGui, Draw, Receive, Answer, Send, vars

\* Every step is one of these.
LEMMA Steps ==
  ASSUME [Next]_vars
  PROVE  Open \/ Load \/ Close \/ TellPath \/ Edit \/ Crash \/ SaveWithout \/ Starts \/ Leaves
BY DEF Next, Starts, Leaves

\* What the process has and what it has lost.
LEMMA ChildKept ==
  ASSUME TypeOK, Down, PathIsTold, [Next]_vars
  PROVE  child' \in Children /\ Down' /\ lost' \subseteq {"list", "path", "size"}
<1>1. child \in Children /\ lost \subseteq {"list", "path", "size"}
  BY DEF TypeOK, Children
<1>2. CASE Open \/ Close
  <2>1. PICK p \in Paths : Reset(p)
    BY <1>2 DEF Open, Close, Paths
  <2> QED BY <1>1, <2>1, AfterReset DEF Down
<1>3. CASE Load
  BY <1>1, <1>3, AfterLoad DEF Down
<1>4. CASE TellPath
  BY <1>1, <1>4, AfterTelling DEF Down
<1>5. CASE Edit
  <2>1. lost' = lost \cup {"size"}
    BY <1>5 DEF Edit
  <2> QED BY <1>1, <1>5, <2>1, AfterEdit DEF Down
<1>6. CASE Crash
  BY <1>6, AfterCrash DEF Down
<1>7. CASE Starts \/ Leaves
  BY <1>1, <1>7, AfterStarting DEF Down
<1>8. CASE SaveWithout
  BY <1>1, <1>8 DEF SaveWithout, Down
<1> QED BY <1>2, <1>3, <1>4, <1>5, <1>6, <1>7, <1>8, Steps

-----------------------------------------------------------------------------
(* What is on its way.                                                     *)

\* A message more at the end ...
LEMMA InAppend ==
  ASSUME NEW S, NEW s \in Seq(S), NEW e \in S
  PROVE  /\ Append(s, e) \in Seq(S) /\ Len(Append(s, e)) = Len(s) + 1 /\ Len(s) \in Nat
         /\ \A i \in 1 .. Len(s) + 1 : Append(s, e)[i] = IF i = Len(s) + 1 THEN e ELSE s[i]
         /\ ToSet(Append(s, e)) = ToSet(s) \cup {e}
<1>1. /\ Append(s, e) \in Seq(S) /\ Len(Append(s, e)) = Len(s) + 1 /\ Len(s) \in Nat
      /\ \A i \in 1 .. Len(s) + 1 : Append(s, e)[i] = IF i = Len(s) + 1 THEN e ELSE s[i]
  OBVIOUS
<1>2. \A i : i \in 1 .. Len(s) + 1 <=> i \in 1 .. Len(s) \/ i = Len(s) + 1
  BY <1>1
<1>3. DOMAIN s = 1 .. Len(s) /\ DOMAIN Append(s, e) = 1 .. Len(s) + 1 /\ Len(s) + 1 \notin 1 .. Len(s)
  BY <1>1
<1>4. ToSet(Append(s, e)) = {Append(s, e)[i] : i \in 1 .. Len(s) + 1} /\ ToSet(s) = {s[i] : i \in 1 .. Len(s)}
  BY <1>3 DEF ToSet
<1>5. \A x : x \in ToSet(Append(s, e)) <=> x \in ToSet(s) \cup {e}
  BY <1>1, <1>2, <1>3, <1>4
<1> QED BY <1>1, <1>5

\* ... or one less at the head.
LEMMA InTail ==
  ASSUME NEW S, NEW s \in Seq(S), s # <<>>
  PROVE  /\ Tail(s) \in Seq(S) /\ Len(Tail(s)) = Len(s) - 1 /\ Len(s) \in Nat /\ Len(s) > 0
         /\ Head(s) = s[1] /\ Head(s) \in S
         /\ \A i \in 1 .. Len(s) - 1 : Tail(s)[i] = s[i + 1]
         /\ ToSet(s) = ToSet(Tail(s)) \cup {Head(s)}
<1>1. /\ Tail(s) \in Seq(S) /\ Len(Tail(s)) = Len(s) - 1 /\ Len(s) \in Nat /\ Len(s) > 0
      /\ Head(s) = s[1] /\ Head(s) \in S
      /\ \A i \in 1 .. Len(s) - 1 : Tail(s)[i] = s[i + 1]
  OBVIOUS
<1>2. \A i : i \in 1 .. Len(s) <=> i = 1 \/ (i - 1 \in 1 .. Len(s) - 1 /\ i \in Int)
  BY <1>1
<1>3. DOMAIN s = 1 .. Len(s) /\ DOMAIN Tail(s) = 1 .. Len(s) - 1
  BY <1>1
<1>4. ToSet(Tail(s)) = {Tail(s)[i] : i \in 1 .. Len(s) - 1} /\ ToSet(s) = {s[i] : i \in 1 .. Len(s)}
  BY <1>3 DEF ToSet
<1>5. ASSUME NEW x \in ToSet(s)
      PROVE  x \in ToSet(Tail(s)) \cup {Head(s)}
  <2>1. PICK i \in 1 .. Len(s) : x = s[i]
    BY <1>4
  <2>2. CASE i = 1
    BY <1>1, <2>1, <2>2
  <2>3. CASE i # 1
    <3>1. i - 1 \in 1 .. Len(s) - 1 /\ (i - 1) + 1 = i
      BY <1>1, <2>1, <2>3
    <3>2. Tail(s)[i - 1] = x
      BY <1>1, <2>1, <3>1
    <3> QED BY <1>4, <3>1, <3>2
  <2> QED BY <2>2, <2>3
<1>6. ASSUME NEW x \in ToSet(Tail(s)) \cup {Head(s)}
      PROVE  x \in ToSet(s)
  <2>1. CASE x = Head(s)
    BY <1>1, <1>4, <2>1
  <2>2. CASE x \in ToSet(Tail(s))
    <3>1. PICK i \in 1 .. Len(s) - 1 : x = Tail(s)[i]
      BY <1>4, <2>2
    <3>2. i + 1 \in 1 .. Len(s) /\ s[i + 1] = x
      BY <1>1, <3>1
    <3> QED BY <1>4, <3>2
  <2> QED BY <2>1, <2>2
<1> QED BY <1>1, <1>5, <1>6

\* UpdatePath is no send.
LEMMA NoSend == UpdatePath \notin Sends /\ \A m \in Sends \cup {UpdatePath} : m # UpdatePath => m \in Sends
<1>1. 0 \notin 1 .. MaxSends
  BY AssistAssumption
<1> QED BY <1>1 DEF UpdatePath, Sends

\* What happens to the messages and to what they change.
Waits == UNCHANGED <<text, dialogs, nested, guard, posted>> /\ tally'.sends = tally.sends

LEMMA TallyKept ==
  ASSUME Queues, [Next]_vars
  PROVE  /\ tally' \in [sends : Nat, crashes : Nat, failures : Nat]
         /\ tally'.sends \in 0 .. MaxSends
         /\ IF Send THEN tally'.sends = tally.sends + 1 ELSE tally'.sends = tally.sends
<1>1. tally \in [sends : Nat, crashes : Nat, failures : Nat] /\ tally.sends \in 0 .. MaxSends /\ MaxSends \in Nat
  BY AssistAssumption DEF Queues
<1>2. CASE Send
  <2>1. tally' = [tally EXCEPT !.sends = tally.sends + 1] /\ tally.sends < MaxSends
    BY <1>2 DEF Send
  <2> QED BY <1>1, <1>2, <2>1
<1>3. CASE ~Send
  <2>1. CASE tally' = tally
    BY <1>1, <1>3, <2>1
  <2>2. CASE tally' = [tally EXCEPT !.crashes = @ + 1] \/ tally' = [tally EXCEPT !.failures = @ + 1]
    BY <1>1, <1>3, <2>2
  <2> QED BY <1>3, <2>1, <2>2
          DEF Next, vars, Open, Load, Close, AskSize, Save, SaveFails, SaveWithout, ShowGui, Draw, TellPath, Receive, Answer, Edit,
              Crash, Reset, Works, Fails
<1> QED BY <1>2, <1>3

LEMMA MessageSteps ==
  ASSUME Queues, [Next]_vars
  PROVE  \/ Waits
         \/ Save /\ posted' = Append(posted, UpdatePath) /\ UNCHANGED sending
         \/ TellPath /\ posted # <<>> /\ posted' = Tail(posted) /\ Head(posted) = UpdatePath /\ UNCHANGED sending
         \/ Receive
         \/ Answer
         \/ Send
BY TallyKept DEF Next, vars, sending, Waits, Open, Load, Close, AskSize, Save, SaveFails, SaveWithout, ShowGui, Draw, TellPath, Handles,
       Message, Edit, Crash

\* A send is posted as the latest.
LEMMA AfterSend ==
  ASSUME TypeOK, Queues, Send
  PROVE  \E m \in Sends : posted' = Append(posted, m) /\ m.n = tally.sends + 1 /\ m \in Sends \cup {UpdatePath}
<1>1. tally.sends \in Nat /\ tally.sends < MaxSends /\ MaxSends \in Nat
  BY AssistAssumption DEF Send, Queues
<1>2. tally.sends + 1 \in 1 .. MaxSends
  BY <1>1
<1>3. tally'.sends = tally.sends + 1
  BY TallyKept DEF Send, Queues
<1>4. PICK f \in child.list : posted' = Append(posted, [file |-> f, n |-> tally'.sends])
  BY DEF Send
<1>5. f \in Files
  BY DEF TypeOK, Lists
<1>6. [file |-> f, n |-> tally.sends + 1] \in Sends
  BY <1>2, <1>5 DEF Sends
<1> QED BY <1>3, <1>4, <1>6

\* UpdatePath stays on its way until it is handled.
LEMMA OnItsWay ==
  ASSUME TypeOK, Queues, [Next]_vars, ~TellPath
  PROVE  UpdatePath \in ToSet(posted) => UpdatePath \in ToSet(posted')
<1>1. posted \in Seq(Sends \cup {UpdatePath})
  BY DEF Queues
<1>2. CASE posted' = posted
  BY <1>2
<1>3. CASE Save
  BY <1>1, <1>3, InAppend DEF Save
<1>4. CASE Send
  <2>1. PICK m \in Sends \cup {UpdatePath} : posted' = Append(posted, m)
    BY <1>4, AfterSend
  <2> QED BY <1>1, <2>1, InAppend
<1>5. CASE Receive
  BY <1>1, <1>5, InTail DEF Receive, Handles, Message
<1> QED BY <1>2, <1>3, <1>4, <1>5, MessageSteps DEF Waits, Answer

\* After it is handled as before, the process looks next to the right file.
LEMMA PathKept ==
  ASSUME TypeOK, Queues, Down, PathIsTold, PathIsCurrent, [Next]_vars
  PROVE  /\ UpdatePath \in ToSet(posted') \/ "path" \in lost' \/ child'.path = path'
         /\ PathIsTold'
<1>1. child \in Children
  BY DEF TypeOK, Children
<1>2. UpdatePath \in ToSet(posted) \/ "path" \in lost \/ child.path = path
  BY DEF PathIsCurrent
<1>3. CASE Open \/ Close
  <2>1. path' \in Paths /\ Reset(path')
    BY <1>3 DEF Open, Close, Paths
  <2>2. "path" \in lost' \/ child'.path = path'
    BY <1>1, <2>1, AfterReset
  <2> QED BY <2>2 DEF PathIsTold
<1>4. CASE Load
  <2>1. UNCHANGED <<path, posted>> /\ pc' = "idle"
    BY <1>4 DEF Load, host
  <2>2. child'.path = child.path /\ ("path" \in lost => "path" \in lost')
    BY <1>4, AfterLoad
  <2> QED BY <1>2, <2>1, <2>2 DEF PathIsTold
<1>5. CASE TellPath
  <2>1. path' = path /\ pc' # "opened"
    BY <1>5 DEF TellPath, Handles, host
  <2> QED BY <1>5, <2>1, AfterTelling DEF PathIsTold
<1>6. CASE Edit
  <2>1. UNCHANGED <<pc, path, posted>> /\ ("path" \in lost => "path" \in lost')
    BY <1>6 DEF Edit, host
  <2>2. child'.path = child.path
    BY <1>6, AfterEdit
  <2> QED BY <1>2, <2>1, <2>2 DEF PathIsTold
<1>7. CASE Crash
  BY <1>7, AfterCrash DEF PathIsTold
<1>8. CASE Starts \/ Leaves
  <2>1. child'.path = child.path /\ ("path" \in lost => "path" \in lost')
    BY <1>8, AfterStarting
  <2>2. CASE Save
    <3>1. UpdatePath \in ToSet(posted') /\ pc' = "idle"
      BY <2>2, InAppend DEF Save, Queues
    <3> QED BY <3>1 DEF PathIsTold
  <2>3. CASE ~Save
    <3>1. path' = path /\ (pc' = "opened" => pc = "opened")
      BY <1>8, <2>3 DEF Starts, Leaves, AskSize, SaveFails, ShowGui, Draw, Receive, Handles, Answer, Send, vars, host
    <3>2. CASE ~TellPath
      BY <1>2, <2>1, <3>1, <3>2, OnItsWay DEF PathIsTold
    <3> QED BY <1>5, <3>2
  <2> QED BY <2>2, <2>3
<1>9. CASE SaveWithout
  <2>1. UNCHANGED <<posted, child>> /\ pc' = "idle" /\ ("path" \in lost => "path" \in lost')
    BY <1>9 DEF SaveWithout
  <2>2. path' = path \/ "path" \in lost'
    BY <1>9 DEF SaveWithout
  <2> QED BY <1>2, <2>1, <2>2 DEF PathIsTold
<1> QED BY <1>3, <1>4, <1>5, <1>6, <1>7, <1>8, <1>9, Steps

\* The list that is edited, loaded and cleared is the one in the process, and its size what was told.
LEMMA ListKept ==
  ASSUME TypeOK, Down, PathIsTold, ListIsMade, SizeIsTold, [Next]_vars
  PROVE  ListIsMade' /\ SizeIsTold' /\ asked' \in 0 .. Size(Files) /\ made' \in Lists /\ disk' \in Lists
<1>1. child \in Children /\ made \in Lists /\ disk \in Lists /\ Empty \in Lists /\ asked \in 0 .. Size(Files)
  BY DEF TypeOK, Children, Empty, Lists
<1>2. CASE Open \/ Close
  <2>1. PICK p \in Paths : Reset(p)
    BY <1>2 DEF Open, Close, Paths
  <2>2. made' = Empty /\ UNCHANGED <<asked, disk>> /\ pc' # "sized"
    BY <1>2 DEF Open, Close, Idle
  <2> QED BY <1>1, <2>1, <2>2, AfterReset DEF ListIsMade, SizeIsTold
<1>3. CASE Load
  <2>1. made' = disk /\ UNCHANGED <<asked, disk>> /\ pc' # "sized"
    BY <1>3 DEF Load
  <2> QED BY <1>1, <1>3, <2>1, AfterLoad DEF ListIsMade, SizeIsTold
<1>4. CASE TellPath
  <2>1. UNCHANGED <<made, asked, disk>> /\ pc' # "sized"
    BY <1>4 DEF TellPath, Handles, project
  <2>2. child'.list = child.list /\ ("list" \in lost => "list" \in lost')
    BY <1>4, AfterTelling
  <2> QED BY <1>1, <2>1, <2>2 DEF ListIsMade, SizeIsTold
<1>5. CASE Edit
  <2>1. UNCHANGED <<asked, disk>> /\ lost' = lost \cup {"size"}
    BY <1>5 DEF Edit
  <2> QED BY <1>1, <1>5, <2>1, AfterEdit DEF ListIsMade, SizeIsTold
<1>6. CASE Crash
  <2>1. UNCHANGED <<made, asked, disk>>
    BY <1>6 DEF Crash, project
  <2> QED BY <1>1, <1>6, <2>1, AfterCrash DEF ListIsMade, SizeIsTold
<1>7. CASE Starts \/ Leaves
  <2>1. made' = made /\ child'.list = child.list /\ ("list" \in lost => "list" \in lost')
    BY <1>7, AfterStarting
  <2>2. ListIsMade'
    BY <2>1 DEF ListIsMade
  <2>3. CASE AskSize
    <3>1. asked' = Size(child'.list) /\ disk' = disk
      BY <2>3 DEF AskSize
    <3>2. child'.list \subseteq Files /\ IsFiniteSet(Files)
      BY <1>1, <2>1, AssistAssumption DEF Children, Lists
    <3>3. Size(child'.list) \in 0 .. Size(Files)
      BY <3>2, FS_Subset, FS_CardinalityType DEF Size
    <3> QED BY <1>1, <2>1, <2>2, <3>1, <3>3 DEF SizeIsTold
  <2>4. CASE Save
    <3>1. disk' = child.list /\ asked' = asked /\ pc' # "sized"
      BY <1>1, <2>4, RunningGoesOn DEF Save
    <3> QED BY <1>1, <2>1, <2>2, <3>1 DEF SizeIsTold, Children
  <2>5. CASE ~AskSize /\ ~Save
    <3>1. UNCHANGED <<asked, disk, lost>> /\ (pc' = "sized" => pc = "sized")
      BY <1>7, <2>5 DEF Starts, Leaves, SaveFails, ShowGui, Draw, Receive, Handles, Answer, Send, vars, project
    <3> QED BY <1>1, <2>1, <2>2, <3>1 DEF SizeIsTold
  <2> QED BY <2>3, <2>4, <2>5
<1>8. CASE SaveWithout
  <2>1. UNCHANGED <<made, asked, child>> /\ disk' = Empty /\ pc' # "sized" /\ ("list" \in lost => "list" \in lost')
    BY <1>8 DEF SaveWithout
  <2> QED BY <1>1, <2>1 DEF ListIsMade, SizeIsTold
<1> QED BY <1>2, <1>3, <1>4, <1>5, <1>6, <1>7, <1>8, Steps

\* The rest of the state.
LEMMA HostKept ==
  ASSUME TypeOK, [Next]_vars
  PROVE  /\ {open', moved', stored', guard'} \subseteq BOOLEAN /\ path' \in Paths
         /\ pc' \in {"idle", "opened", "sized", "unsaved"} /\ window' \in {"none", "live", "dead"}
<1>1. /\ open \in BOOLEAN /\ moved \in BOOLEAN /\ guard \in BOOLEAN /\ path \in Paths
      /\ pc \in {"idle", "opened", "sized", "unsaved"} /\ window \in {"none", "live", "dead"}
  BY DEF TypeOK
<1>2. guard' = guard
  BY DEF Next, vars, sending, Open, Load, Close, AskSize, Save, SaveFails, SaveWithout, ShowGui, Draw, TellPath, Receive, Answer,
         Edit, Send, Crash
<1>3. open' \in BOOLEAN /\ moved' \in BOOLEAN
  BY <1>1 DEF Next, vars, host, Open, Load, Close, AskSize, Save, SaveFails, SaveWithout, ShowGui, Draw, TellPath, Receive, Answer,
         Edit, Send, Crash
<1>7. stored' \in BOOLEAN
  BY DEF TypeOK, Next, vars, project, Open, Load, Close, AskSize, Save, SaveFails, SaveWithout, ShowGui, Draw, TellPath,
         Receive, Answer, Edit, Send, Crash
<1>4. path' \in Paths
  BY <1>1 DEF Next, vars, host, Open, Load, Close, AskSize, Save, SaveFails, SaveWithout, ShowGui, Draw, TellPath, Receive, Answer,
         Edit, Send, Crash, Paths
<1>5. pc' \in {"idle", "opened", "sized", "unsaved"}
  BY <1>1 DEF Next, vars, Open, Load, Close, AskSize, Save, SaveFails, SaveWithout, ShowGui, Draw, TellPath, Receive, Answer,
         Edit, Send, Crash
<1>6. window' \in {"none", "live", "dead"}
  BY <1>1 DEF Next, vars, Open, Load, Close, AskSize, Save, SaveFails, SaveWithout, ShowGui, Draw, TellPath, Receive, Answer,
         Edit, Send, Crash
<1> QED BY <1>1, <1>2, <1>3, <1>4, <1>5, <1>6, <1>7

-----------------------------------------------------------------------------
(* The sends.                                                              *)

\* The messages and message boxes stay what they are.
LEMMA QueuesKept ==
  ASSUME TypeOK, Queues, [Next]_vars
  PROVE  /\ Queues' /\ text' \in [file : Files, n : 0 .. MaxSends] /\ nested' \in BOOLEAN
         /\ ToSet(posted') \subseteq Sends \cup {UpdatePath}
         /\ ToSet(dialogs') \subseteq [old : Files, new : Sends]
<1> DEFINE M == Sends \cup {UpdatePath}
           D == [old : Files, new : Sends]
           T == [file : Files, n : 0 .. MaxSends]
<1>1. posted \in Seq(M) /\ dialogs \in Seq(D) /\ text \in T /\ nested \in BOOLEAN
  BY DEF TypeOK, Queues
<1>2. \A s \in Sends : s \in T /\ s.file \in Files
  <2>1. \A n \in 1 .. MaxSends : n \in 0 .. MaxSends
    OBVIOUS
  <2> QED BY <2>1 DEF Sends
<1>3. UpdatePath \in M
  OBVIOUS
<1>4. posted' \in Seq(M)
  <2>1. CASE posted' = posted
    BY <1>1, <2>1
  <2>2. CASE posted' = Append(posted, UpdatePath)
    BY <1>1, <1>3, <2>2, InAppend
  <2>3. CASE posted # <<>> /\ posted' = Tail(posted)
    BY <1>1, <2>3, InTail
  <2>4. CASE Send
    <3>1. PICK m \in M : posted' = Append(posted, m)
      BY <2>4, AfterSend
    <3> QED BY <1>1, <3>1, InAppend
  <2> QED BY <2>1, <2>2, <2>3, <2>4, MessageSteps DEF Waits, Receive, Handles, Answer
<1>5. ASSUME Receive
      PROVE  Head(posted) \in Sends
  BY <1>1, <1>5, InTail, NoSend DEF Receive, Handles, Message
<1>6. ASSUME Answer
      PROVE  Front(dialogs) \in Seq(D) /\ Last(dialogs) \in D
  <2>1. dialogs # <<>>
    BY <1>6 DEF Answer
  <2> HIDE DEF D
  <2>2. Len(dialogs) \in Nat /\ Len(dialogs) > 0 /\ \A i \in 1 .. Len(dialogs) : dialogs[i] \in D
    BY <1>1, <2>1
  <2>3. SubSeq(dialogs, 1, Len(dialogs) - 1) \in Seq(D)
    BY <1>1, <2>2
  <2> QED BY <2>2, <2>3 DEF Front, Last
<1>7. dialogs' \in Seq(D)
  <2>1. CASE dialogs' = dialogs
    BY <1>1, <2>1
  <2>2. CASE Receive /\ dialogs' = Append(dialogs, [old |-> text.file, new |-> Message])
    <3>1. [old |-> text.file, new |-> Message] \in D
      BY <1>1, <1>5, <2>2 DEF Message
    <3> QED BY <1>1, <2>2, <3>1, InAppend
  <2>3. CASE Answer
    BY <1>6, <2>3 DEF Answer
  <2> QED BY <2>1, <2>2, <2>3, MessageSteps DEF Waits, Receive, Send, sending
<1>8. text' \in T
  <2>1. CASE text' = text
    BY <1>1, <2>1
  <2>2. CASE Receive /\ text' = Message
    BY <1>2, <1>5, <2>2 DEF Message
  <2>3. CASE Answer /\ text' = Last(dialogs).new
    BY <1>2, <1>6, <2>3
  <2> QED BY <2>1, <2>2, <2>3, MessageSteps DEF Waits, Receive, Answer, Send, sending
<1>9. nested' \in BOOLEAN
  BY <1>1, MessageSteps DEF Waits, Receive, Answer, Send, sending
<1>10. \A S : \A s \in Seq(S) : ToSet(s) \subseteq S
  BY DEF ToSet
<1>11. Queues'
  BY <1>4, <1>7, TallyKept DEF Queues
<1> QED BY <1>4, <1>7, <1>8, <1>9, <1>10, <1>11

\* What a message box that ends leaves.
LEMMA AfterAnswer ==
  ASSUME Queues, Answer
  PROVE  /\ Len(dialogs) \in Nat /\ Len(dialogs) > 0 /\ Len(dialogs') = Len(dialogs) - 1
         /\ \A k \in 1 .. Len(dialogs') : k \in 1 .. Len(dialogs) /\ dialogs'[k] = dialogs[k]
         /\ Len(dialogs) \in 1 .. Len(dialogs) /\ Last(dialogs) = dialogs[Len(dialogs)]
<1> DEFINE D == [old : Files, new : Sends]
<1>1. dialogs \in Seq(D) /\ dialogs # <<>> /\ dialogs' = SubSeq(dialogs, 1, Len(dialogs) - 1)
  BY DEF Answer, Queues, Front
<1> HIDE DEF D
<1>2. Len(dialogs) \in Nat /\ Len(dialogs) > 0
  BY <1>1
<1>3. \A n \in Nat : n <= Len(dialogs) =>
        /\ Len(SubSeq(dialogs, 1, n)) = n
        /\ \A k \in 1 .. n : SubSeq(dialogs, 1, n)[k] = dialogs[k]
  BY <1>1, <1>2
<1>4. Len(dialogs) - 1 \in Nat /\ Len(dialogs) - 1 <= Len(dialogs)
  BY <1>2
<1>5. Len(dialogs') = Len(dialogs) - 1 /\ \A k \in 1 .. Len(dialogs) - 1 : dialogs'[k] = dialogs[k]
  BY <1>1, <1>3, <1>4
<1> QED BY <1>2, <1>5 DEF Last

\* What the handling of a send adds.
LEMMA AfterReceive ==
  ASSUME TypeOK, Queues, Receive
  PROVE  /\ posted # <<>> /\ posted' = Tail(posted) /\ Message = posted[1] /\ Message \in Sends
         /\ text' \in {text, Message}
         /\ \/ UNCHANGED dialogs
            \/ /\ Len(dialogs) \in Nat /\ Len(dialogs') = Len(dialogs) + 1 /\ text' = text
               /\ dialogs'[Len(dialogs) + 1] = [old |-> text.file, new |-> Message]
               /\ \A k \in 1 .. Len(dialogs) : dialogs'[k] = dialogs[k]
<1>1. posted # <<>> /\ posted' = Tail(posted) /\ Message # UpdatePath
  BY DEF Receive, Handles
<1>2. Message = posted[1] /\ Message \in Sends
  BY <1>1, InTail, NoSend DEF Message, Queues
<1>3. text' \in {text, Message}
  BY DEF Receive
<1>4. CASE UNCHANGED dialogs
  BY <1>1, <1>2, <1>3, <1>4
<1>5. CASE dialogs' = Append(dialogs, [old |-> text.file, new |-> Message]) /\ text' = text
  <2>1. [old |-> text.file, new |-> Message] \in [old : Files, new : Sends]
    BY <1>2 DEF TypeOK
  <2>2. dialogs \in Seq([old : Files, new : Sends])
    BY DEF Queues
  <2>3. /\ Len(dialogs) \in Nat /\ Len(dialogs') = Len(dialogs) + 1
        /\ \A i \in 1 .. Len(dialogs) + 1 :
             dialogs'[i] = IF i = Len(dialogs) + 1 THEN [old |-> text.file, new |-> Message] ELSE dialogs[i]
    BY <1>5, <2>1, <2>2, InAppend
  <2>4. /\ dialogs'[Len(dialogs) + 1] = [old |-> text.file, new |-> Message]
        /\ \A k \in 1 .. Len(dialogs) : dialogs'[k] = dialogs[k]
    BY <2>3
  <2> QED BY <1>1, <1>2, <1>3, <1>5, <2>3, <2>4
<1> QED BY <1>4, <1>5 DEF Receive

\* The messages left by the one that is handled.
LEMMA AfterTail ==
  ASSUME Queues, posted # <<>>, posted' = Tail(posted)
  PROVE  \A i \in 1 .. Len(posted') : i + 1 \in 1 .. Len(posted) /\ 1 < i + 1 /\ posted'[i] = posted[i + 1]
<1>1. /\ Len(posted') = Len(posted) - 1 /\ Len(posted) \in Nat
      /\ \A i \in 1 .. Len(posted) - 1 : posted'[i] = posted[i + 1]
  BY InTail DEF Queues
<1> QED BY <1>1

\* The sends come in the order in which they were made.
LEMMA InOrderKept ==
  ASSUME TypeOK, Queues, InOrder, [Next]_vars
  PROVE  InOrder'
<1>1. /\ \A i \in 1 .. Len(posted) : posted[i] # UpdatePath => posted[i].n \in Nat
      /\ \A k \in 1 .. Len(dialogs) : dialogs[k].new.n \in Nat
      /\ text.n \in Nat /\ tally.sends \in Nat /\ Len(posted) \in Nat
  <2>1. /\ \A i \in 1 .. Len(posted) : posted[i] # UpdatePath => posted[i] \in Sends
        /\ \A k \in 1 .. Len(dialogs) : dialogs[k] \in [old : Files, new : Sends]
    <3> DEFINE M == Sends \cup {UpdatePath}
               D == [old : Files, new : Sends]
    <3>1. posted \in Seq(M) /\ dialogs \in Seq(D)
      BY DEF Queues
    <3>2. \A m \in M : m # UpdatePath => m \in Sends
      BY NoSend
    <3> HIDE DEF M, D
    <3>3. \A i \in 1 .. Len(posted) : posted[i] \in M
      BY <3>1
    <3>4. \A k \in 1 .. Len(dialogs) : dialogs[k] \in D
      BY <3>1
    <3> QED BY <3>2, <3>3, <3>4 DEF D
  <2>2. \A m \in Sends : m.n \in Nat
    BY DEF Sends
  <2>3. text.n \in Nat /\ tally.sends \in Nat /\ Len(posted) \in Nat
    BY DEF TypeOK, Queues
  <2> QED BY <2>1, <2>2, <2>3
<1>2. CASE Waits
  <2> DEFINE L(i) == /\ text.n < posted[i].n /\ posted[i].n <= tally.sends
                     /\ \A k \in 1 .. Len(dialogs) : dialogs[k].new.n < posted[i].n
  <2>1. \A i \in 1 .. Len(posted) : posted[i] # UpdatePath => L(i)
    BY DEF InOrder, Later
  <2>2. UNCHANGED <<posted, text, dialogs>> /\ tally'.sends = tally.sends
    BY <1>2 DEF Waits
  <2> QED BY <2>1, <2>2 DEF InOrder, Later
<1>3. CASE posted' = Append(posted, UpdatePath) /\ UNCHANGED <<text, dialogs>> /\ tally'.sends = tally.sends
  <2>1. /\ Len(posted') = Len(posted) + 1 /\ posted'[Len(posted) + 1] = UpdatePath
        /\ \A i \in 1 .. Len(posted) : posted'[i] = posted[i]
    BY <1>3, InAppend DEF Queues
  <2>2. \A i \in 1 .. Len(posted') : posted'[i] # UpdatePath => i \in 1 .. Len(posted) /\ posted'[i] = posted[i]
    BY <1>1, <2>1
  <2> QED BY <1>3, <2>2 DEF InOrder, Later
<1>4. CASE posted # <<>> /\ posted' = Tail(posted) /\ UNCHANGED <<text, dialogs>> /\ tally'.sends = tally.sends
  <2>1. \A i \in 1 .. Len(posted') : i + 1 \in 1 .. Len(posted) /\ posted'[i] = posted[i + 1]
    BY <1>4, AfterTail
  <2>2. \A i, j \in 1 .. Len(posted') : i < j => i + 1 < j + 1
    OBVIOUS
  <2> QED BY <1>4, <2>1, <2>2 DEF InOrder, Later
<1>5. CASE Receive
  <2>1. tally'.sends = tally.sends
    BY <1>5, TallyKept DEF Receive, Handles
  <2>2. \A i \in 1 .. Len(posted') : i + 1 \in 1 .. Len(posted) /\ 1 < i + 1 /\ posted'[i] = posted[i + 1]
    BY <1>5, AfterReceive, AfterTail
  <2>3. 1 \in 1 .. Len(posted) /\ posted[1] # UpdatePath /\ Message = posted[1]
    <3>1. Message = posted[1] /\ posted # <<>> /\ Message # UpdatePath
      BY <1>5, AfterReceive, NoSend
    <3>2. Len(posted) > 0
      BY <3>1, InTail DEF Queues
    <3> QED BY <1>1, <3>1, <3>2
  <2>4. \A i \in 1 .. Len(posted') : posted'[i] # UpdatePath => Message.n < posted'[i].n
    BY <2>2, <2>3 DEF InOrder
  <2>5. Message.n <= tally.sends
    BY <2>3 DEF InOrder, Later
  <2>6. \A k \in 1 .. Len(dialogs') : dialogs'[k].new = Message \/ (k \in 1 .. Len(dialogs) /\ dialogs'[k] = dialogs[k])
    <3>1. \A n \in Nat : \A k \in 1 .. n + 1 : k = n + 1 \/ k \in 1 .. n
      OBVIOUS
    <3>2. CASE UNCHANGED dialogs
      BY <3>2
    <3>3. CASE /\ Len(dialogs) \in Nat /\ Len(dialogs') = Len(dialogs) + 1
               /\ dialogs'[Len(dialogs) + 1] = [old |-> text.file, new |-> Message]
               /\ \A k \in 1 .. Len(dialogs) : dialogs'[k] = dialogs[k]
      <4>1. \A k \in 1 .. Len(dialogs') : k = Len(dialogs) + 1 \/ k \in 1 .. Len(dialogs)
        BY <3>1, <3>3
      <4>2. dialogs'[Len(dialogs) + 1].new = Message
        BY <3>3
      <4>3. ASSUME NEW k \in 1 .. Len(dialogs')
            PROVE  dialogs'[k].new = Message \/ (k \in 1 .. Len(dialogs) /\ dialogs'[k] = dialogs[k])
        <5>1. CASE k = Len(dialogs) + 1
          BY <3>3, <4>2, <5>1
        <5>2. CASE k \in 1 .. Len(dialogs)
          BY <3>3, <5>2
        <5> QED BY <4>1, <5>1, <5>2
      <4> QED BY <4>3
    <3> QED BY <1>5, <3>2, <3>3, AfterReceive
  <2>7. text' \in {text, Message}
    BY <1>5, AfterReceive
  <2>8. \A i, j \in 1 .. Len(posted') : i < j => i + 1 < j + 1
    OBVIOUS
  <2>9. \A i \in 1 .. Len(posted') : posted'[i] # UpdatePath => Later(i)'
    BY <2>1, <2>2, <2>4, <2>6, <2>7 DEF InOrder, Later
  <2>10. \A i, j \in 1 .. Len(posted') :
           i < j /\ posted'[i] # UpdatePath /\ posted'[j] # UpdatePath => posted'[i].n < posted'[j].n
    BY <2>2, <2>8 DEF InOrder
  <2>11. text'.n <= tally'.sends /\ \A k \in 1 .. Len(dialogs') : dialogs'[k].new.n <= tally'.sends
    BY <2>1, <2>5, <2>6, <2>7 DEF InOrder
  <2> QED BY <2>9, <2>10, <2>11 DEF InOrder
<1>6. CASE Answer
  <2>1. tally'.sends = tally.sends /\ posted' = posted
    BY <1>6 DEF Answer
  <2>2. \A k \in 1 .. Len(dialogs') : k \in 1 .. Len(dialogs) /\ dialogs'[k] = dialogs[k]
    BY <1>6, AfterAnswer
  <2>3. text' = text \/ \E k \in 1 .. Len(dialogs) : text' = dialogs[k].new
    BY <1>6, AfterAnswer DEF Answer
  <2> QED BY <2>1, <2>2, <2>3 DEF InOrder, Later
<1>7. CASE Send
  <2>1. tally'.sends = tally.sends + 1 /\ UNCHANGED <<text, dialogs>>
    BY <1>7, TallyKept DEF Send, sending
  <2>2. PICK m \in Sends \cup {UpdatePath} : posted' = Append(posted, m) /\ m.n = tally.sends + 1
    BY <1>7, AfterSend
  <2>3. /\ Len(posted') = Len(posted) + 1 /\ posted'[Len(posted) + 1] = m
        /\ \A i \in 1 .. Len(posted) : posted'[i] = posted[i]
    BY <2>2, InAppend DEF Queues
  <2>4. \A i \in 1 .. Len(posted') : i = Len(posted) + 1 \/ i \in 1 .. Len(posted)
    BY <1>1, <2>3
  <2>5. \A i \in 1 .. Len(posted') : posted'[i] # UpdatePath => Later(i)'
    <3>1. ASSUME NEW i \in 1 .. Len(posted'), posted'[i] # UpdatePath
          PROVE  Later(i)'
      <4>1. CASE i = Len(posted) + 1
        <5>1. posted'[i].n = tally.sends + 1
          BY <2>2, <2>3, <4>1
        <5> QED BY <1>1, <2>1, <5>1 DEF InOrder, Later
      <4>2. CASE i \in 1 .. Len(posted)
        <5>1. posted'[i] = posted[i] /\ Later(i)
          BY <2>3, <3>1, <4>2 DEF InOrder
        <5> QED BY <1>1, <2>1, <3>1, <4>2, <5>1 DEF Later
      <4> QED BY <2>4, <4>1, <4>2
    <3> QED BY <3>1
  <2>6. \A i, j \in 1 .. Len(posted') :
          i < j /\ posted'[i] # UpdatePath /\ posted'[j] # UpdatePath => posted'[i].n < posted'[j].n
    <3>1. ASSUME NEW i \in 1 .. Len(posted'), NEW j \in 1 .. Len(posted'), i < j,
                 posted'[i] # UpdatePath, posted'[j] # UpdatePath
          PROVE  posted'[i].n < posted'[j].n
      <4>1. i \in 1 .. Len(posted) /\ posted'[i] = posted[i]
        BY <1>1, <2>3, <3>1
      <4>2. CASE j = Len(posted) + 1
        <5>1. posted'[j].n = tally.sends + 1 /\ posted[i].n <= tally.sends
          BY <2>2, <2>3, <3>1, <4>1, <4>2 DEF InOrder, Later
        <5> QED BY <1>1, <3>1, <4>1, <5>1
      <4>3. CASE j \in 1 .. Len(posted)
        BY <2>3, <3>1, <4>1, <4>3 DEF InOrder
      <4> QED BY <2>4, <4>2, <4>3
    <3> QED BY <3>1
  <2>7. text'.n <= tally'.sends /\ \A k \in 1 .. Len(dialogs') : dialogs'[k].new.n <= tally'.sends
    BY <1>1, <2>1 DEF InOrder
  <2> QED BY <2>5, <2>6, <2>7 DEF InOrder
<1> QED BY <1>2, <1>3, <1>4, <1>5, <1>6, <1>7, MessageSteps, TallyKept DEF sending, Save, TellPath

\* A message box that stands alone was opened for the text as it is.
LEMMA AsksKept ==
  ASSUME TypeOK, Queues, InOrder, AsksAboutText, [Next]_vars
  PROVE  AsksAboutText'
<1>1. Len(dialogs) \in Nat /\ (dialogs' # <<>> => Len(dialogs') # 0) /\ (dialogs = <<>> => Len(dialogs) = 0)
  <2>1. Queues'
    BY QueuesKept
  <2> QED BY <2>1 DEF Queues
<1>2. CASE UNCHANGED <<text, dialogs, nested>>
  BY <1>2 DEF AsksAboutText
<1>3. CASE Receive
  <2>1. nested' = (nested \/ dialogs # <<>>) /\ Message # UpdatePath
    BY <1>3 DEF Receive
  <2> SUFFICES ASSUME ~nested', dialogs' # <<>>
               PROVE  Len(dialogs') = 1 /\ dialogs'[1].old = text'.file /\ text'.n < dialogs'[1].new.n
    BY DEF AsksAboutText
  <2>2. dialogs = <<>>
    BY <2>1
  <2>3. Len(dialogs') = 1 /\ dialogs'[1] = [old |-> text.file, new |-> Message] /\ text' = text
    <3>1. Len(dialogs) = 0 /\ dialogs' # dialogs
      BY <1>1, <2>2
    <3>2. Len(dialogs') = 0 + 1 /\ dialogs'[0 + 1] = [old |-> text.file, new |-> Message] /\ text' = text
      BY <1>3, <3>1, AfterReceive
    <3> QED BY <3>2
  <2>4. text.n < Message.n
    <3>1. posted # <<>> /\ Message = posted[1]
      BY <1>3, AfterReceive
    <3>2. 1 \in 1 .. Len(posted)
      BY <3>1, InTail DEF Queues
    <3> QED BY <2>1, <3>1, <3>2 DEF InOrder, Later
  <2> QED BY <2>3, <2>4
<1>4. CASE Answer
  <2>1. Len(dialogs) = Len(dialogs') + 1 /\ Len(dialogs') \in Nat
    <3>1. Len(dialogs) > 0 /\ Len(dialogs') = Len(dialogs) - 1
      BY <1>4, AfterAnswer
    <3> QED BY <1>1, <3>1
  <2>2. nested' = (nested /\ dialogs' # <<>>)
    BY <1>4 DEF Answer
  <2>3. CASE nested
    BY <2>2, <2>3 DEF AsksAboutText
  <2>4. CASE ~nested
    <3>1. dialogs # <<>>
      BY <1>4 DEF Answer
    <3>2. Len(dialogs) = 1
      BY <2>4, <3>1 DEF AsksAboutText
    <3>3. dialogs' = <<>>
      BY <1>1, <2>1, <3>2
    <3> QED BY <3>3 DEF AsksAboutText
  <2> QED BY <2>3, <2>4 DEF TypeOK
<1> QED BY <1>2, <1>3, <1>4, MessageSteps DEF Waits, sending, Send

-----------------------------------------------------------------------------
(* The invariant and what it says.                                         *)

LEMMA InvStarts == Init => Inv
<1> SUFFICES ASSUME Init
             PROVE  Inv
  OBVIOUS
<1>1. child \in Children /\ ~child.up /\ child.path = "" /\ child.list = Empty
  BY DEF Init, NewChild, Children, Paths, Lists, Empty
<1>2. text \in [file : Files, n : 0 .. MaxSends] /\ text.n = 0
  <2>1. 0 \in 0 .. MaxSends
    BY AssistAssumption
  <2>2. text \in [file : Files, n : {0}]
    BY DEF Init
  <2> QED BY <2>1, <2>2
<1>3. 0 \in 0 .. Size(Files)
  BY AssistAssumption, FS_CardinalityType DEF Size
<1>4. posted = <<>> /\ dialogs = <<>>
  BY DEF Init
<1>5. Queues
  <2>1. tally = [sends |-> 0, crashes |-> 0, failures |-> 0]
    BY DEF Init
  <2>3. 0 \in 0 .. MaxSends
    BY AssistAssumption
  <2>2. posted \in Seq(Sends \cup {UpdatePath}) /\ dialogs \in Seq([old : Files, new : Sends])
    BY <1>4
  <2> QED BY <2>1, <2>2, <2>3 DEF Queues
<1>6. TypeOK
  <2>1. ToSet(<<>>) = {}
    BY DEF ToSet
  <2> QED BY <1>1, <1>2, <1>3, <1>4, <2>1 DEF Init, TypeOK, Children, Paths, Lists, Empty
<1>7. Down /\ PathIsTold /\ PathIsCurrent /\ ListIsMade /\ SizeIsTold
  BY <1>1, <1>6 DEF Init, Down, PathIsTold, PathIsCurrent, ListIsMade, SizeIsTold
<1>8. InOrder /\ AsksAboutText
  <2>1. Len(posted) = 0 /\ Len(dialogs) = 0 /\ 1 .. 0 = {}
    BY <1>4
  <2>2. tally.sends = 0
    BY DEF Init
  <2> QED BY <1>2, <1>4, <2>1, <2>2 DEF InOrder, AsksAboutText
<1> QED BY <1>5, <1>6, <1>7, <1>8 DEF Inv

LEMMA InvKept == Inv /\ [Next]_vars => Inv'
<1> SUFFICES ASSUME Inv, [Next]_vars
             PROVE  Inv'
  OBVIOUS
<1>1. TypeOK /\ Queues /\ Down /\ PathIsTold /\ PathIsCurrent /\ ListIsMade /\ SizeIsTold /\ InOrder /\ AsksAboutText
  BY DEF Inv
<1>2. child' \in Children /\ Down' /\ lost' \subseteq {"list", "path", "size"}
  BY <1>1, ChildKept
<1>3. ListIsMade' /\ SizeIsTold' /\ asked' \in 0 .. Size(Files) /\ made' \in Lists /\ disk' \in Lists
  BY <1>1, ListKept
<1>4. /\ {open', moved', stored', guard'} \subseteq BOOLEAN /\ path' \in Paths
      /\ pc' \in {"idle", "opened", "sized", "unsaved"} /\ window' \in {"none", "live", "dead"}
  BY <1>1, HostKept
<1>5. /\ Queues' /\ text' \in [file : Files, n : 0 .. MaxSends] /\ nested' \in BOOLEAN
      /\ ToSet(posted') \subseteq Sends \cup {UpdatePath}
      /\ ToSet(dialogs') \subseteq [old : Files, new : Sends]
  BY <1>1, QueuesKept
<1>6. TypeOK'
  BY <1>2, <1>3, <1>4, <1>5 DEF TypeOK, Children
<1>7. PathIsTold' /\ PathIsCurrent'
  BY <1>1, <1>6, PathKept DEF PathIsCurrent
<1>8. InOrder' /\ AsksAboutText'
  BY <1>1, InOrderKept, AsksKept
<1> QED BY <1>2, <1>3, <1>5, <1>6, <1>7, <1>8 DEF Inv

LEMMA InvAlways == Spec => []Inv
BY InvStarts, InvKept, PTL DEF Spec

\* When no message is on its way, PSDToolKit.exe looks for moved files next to the project that is
\* open, under the name it was saved with last, unless a command failed, the one of a save under
\* another name included, or the process ended.
THEOREM PathStaysCurrent == Spec => []PathIsCurrent
<1>1. Inv => PathIsCurrent
  BY DEF Inv
<1> QED BY <1>1, InvAlways, PTL

\* What a save leaves in the project is the list as it was loaded and edited, in exactly the space that
\* was asked for, unless the process ended or a command failed before; when a command of the save
\* itself fails, the project is left with no list, and never with an older one.
THEOREM SavesWhatWasMade == Spec => SavedIsMade
<1> DEFINE Saves == pc' = "idle" /\ pc \in {"sized", "unsaved"} =>
                      \/ pc = "unsaved" /\ ~stored'
                      \/ /\ disk' = made \/ "list" \in lost
                         /\ Size(disk') = asked \/ "size" \in lost
<1>1. ASSUME Inv, [Next]_vars
      PROVE  [Saves]_vars
  <2> SUFFICES ASSUME pc \in {"sized", "unsaved"}, pc' = "idle"
               PROVE  Saves
    OBVIOUS
  <2>1. TypeOK /\ Queues /\ Down /\ ListIsMade /\ SizeIsTold
    BY <1>1 DEF Inv
  <2>2. CASE Save
    <3>1. disk' = child.list /\ pc = "sized"
      BY <2>1, <2>2, RunningGoesOn DEF Save, TypeOK, Children
    <3> QED BY <2>1, <3>1 DEF ListIsMade, SizeIsTold
  <2>3. CASE SaveWithout
    BY <2>3 DEF SaveWithout
  <2>4. Save \/ SaveWithout
    BY <1>1 DEF Next, vars, sending, Open, Load, Close, Idle, AskSize, SaveBegins, SaveFails, ShowGui, Draw, TellPath, Handles, Receive,
           Answer, Edit, Send, Crash
  <2> QED BY <2>2, <2>3, <2>4
<1> QED BY <1>1, InvAlways, PTL DEF Spec, SavedIsMade

\* A send that replaces the text is later than it, and names another file only when the user was
\* asked about just these two files, unless message boxes stand inside others or the window is gone.
THEOREM AsksBeforeReplacing == Spec => AskedInOrder
<1> DEFINE Asks == text' # text =>
                     \/ nested
                     \/ /\ text'.n > text.n
                        /\ \/ ~guard \/ text'.file = text.file \/ window = "dead"
                           \/ /\ dialogs # <<>> /\ dialogs' = Front(dialogs)
                              /\ Last(dialogs) = [old |-> text.file, new |-> text']
<1>1. ASSUME Inv, [Next]_vars
      PROVE  [Asks]_vars
  <2> SUFFICES ASSUME text' # text, ~nested
               PROVE  /\ text'.n > text.n
                      /\ \/ ~guard \/ text'.file = text.file \/ window = "dead"
                         \/ /\ dialogs # <<>> /\ dialogs' = Front(dialogs)
                            /\ Last(dialogs) = [old |-> text.file, new |-> text']
    OBVIOUS
  <2>1. TypeOK /\ Queues /\ InOrder /\ AsksAboutText /\ text.n \in Nat
    BY <1>1 DEF Inv, TypeOK
  <2>2. CASE Receive
    <3>1. posted # <<>> /\ Message = posted[1] /\ Message \in Sends /\ text' = Message
      BY <2>1, <2>2, AfterReceive
    <3>2. 1 \in 1 .. Len(posted) /\ Message # UpdatePath /\ Message.n \in Nat
      BY <2>1, <3>1, InTail, NoSend DEF Queues, Sends
    <3>3. text.n < Message.n
      BY <2>1, <3>1, <3>2 DEF InOrder, Later
    <3>4. ~guard \/ text.file = Message.file \/ window = "dead"
      BY <2>2 DEF Receive
    <3> QED BY <2>1, <3>1, <3>2, <3>3, <3>4
  <2>3. CASE Answer
    <3>1. dialogs # <<>> /\ dialogs' = Front(dialogs) /\ text' = Last(dialogs).new
      BY <2>3 DEF Answer
    <3>2. Len(dialogs) = 1 /\ dialogs[1].old = text.file /\ text.n < dialogs[1].new.n
      BY <2>1, <3>1 DEF AsksAboutText
    <3>3. Last(dialogs) = dialogs[1]
      BY <3>2 DEF Last
    <3>4. dialogs[1] \in [old : Files, new : Sends]
      <4> DEFINE D == [old : Files, new : Sends]
      <4>1. dialogs \in Seq(D)
        BY <2>1 DEF Queues
      <4> HIDE DEF D
      <4>2. 1 \in 1 .. Len(dialogs)
        BY <3>2
      <4>3. dialogs \in [1 .. Len(dialogs) -> D]
        BY <4>1
      <4>4. dialogs[1] \in D
        BY <4>2, <4>3, Zenon
      <4> QED BY <4>4 DEF D
    <3>5. dialogs[1] = [old |-> text.file, new |-> text'] /\ text'.n \in Nat
      BY <3>1, <3>2, <3>3, <3>4 DEF Sends
    <3> QED BY <2>1, <3>1, <3>2, <3>3, <3>5
  <2> QED BY <1>1, <2>1, <2>2, <2>3, MessageSteps DEF Waits, sending, Send
<1> QED BY <1>1, InvAlways, PTL DEF Spec, AskedInOrder
=============================================================================
