------------------------------- MODULE Assist -------------------------------
(***************************************************************************)
(* The project of AviUtl and what c/assist.c does for it: it clears the    *)
(* list of PSDToolKit.exe when a project is opened or closed, tells it the *)
(* path, stores the list in the project and gives it back, and puts what   *)
(* the user sends into the text of a PSD object.  Its handlers run in one  *)
(* thread, but a message box runs the next message inside a handler, and   *)
(* PSDToolKit.exe may end at any time and is started again by any command, *)
(* with nothing in it.                                                     *)
(***************************************************************************)
EXTENDS Integers, SequencesExt

CONSTANTS
  Files,      \* PSD files
  MaxSends,   \* bound: clicks on the button that sends
  MaxCrashes, \* bound: ends of PSDToolKit.exe
  MaxFailures \* bound: commands that fail

ASSUME AssistAssumption ==
  IsFiniteSet(Files) /\ {MaxSends, MaxCrashes, MaxFailures} \subseteq Nat

VARIABLES
  open,    \* AviUtl has a project
  path,    \* its path, "" until it is saved
  moved,   \* its images are only found next to the project file
  pc,      \* the thread of AviUtl: "idle", or within the opening ("opened") or the saving of a
           \* project: "sized" between the two calls, "unsaved" after one that returned FALSE
  asked,   \* the size that the first of the two calls of a save has reported
  stored,  \* the project file has data of the plug-in
  disk,    \* the list in them
  text,    \* of the PSD object: the file it names, and the send it comes from (0: none)
  guard,   \* sendguard in that text
  posted,  \* messages: sends, or UpdatePath
  dialogs, \* message boxes that ask whether new may replace old, each inside the one before
  window,  \* g_ptk_window: "none", "live", or "dead" when its process has ended
  child,   \* PSDToolKit.exe
  made,    \* history: the list as loaded and edited, whatever happened to the process
  lost,    \* history: what may be wrong in the child: its list, its path, the size it has told
  nested,  \* history: a send was handled while a message box was open
  tally    \* sends, crashes and failures so far

host == <<open, path, moved>>
project == <<asked, stored, disk, made>>
sending == <<text, guard, dialogs, nested>>
vars == <<host, pc, project, sending, posted, window, child, lost, tally>>

Paths == {"", "p", "q"}
Lists == SUBSET Files \* the state and the thumbnail of an image are part of it
Empty == {}
Size(list) == Cardinality(list)
Sends == [file : Files, n : 1 .. MaxSends]
UpdatePath == [file |-> "none", n |-> 0]
NewChild == [up |-> TRUE, path |-> "", list |-> Empty]

TypeOK ==
  /\ {open, moved, stored, guard, nested} \subseteq BOOLEAN /\ path \in Paths
  /\ pc \in {"idle", "opened", "sized", "unsaved"} /\ asked \in 0 .. Size(Files)
  /\ {disk, made} \subseteq Lists
  /\ text \in [file : Files, n : 0 .. MaxSends]
  /\ ToSet(posted) \subseteq Sends \cup {UpdatePath}
  /\ ToSet(dialogs) \subseteq [old : Files, new : Sends]
  /\ window \in {"none", "live", "dead"}
  /\ child \in [up : BOOLEAN, path : Paths, list : Lists]
  /\ lost \subseteq {"list", "path", "size"}

Init ==
  /\ open = FALSE /\ path = "" /\ moved = FALSE /\ pc = "idle" /\ asked = 0
  /\ stored \in BOOLEAN /\ disk = Empty /\ made = Empty
  /\ text \in [file : Files, n : {0}] /\ guard \in BOOLEAN
  /\ posted = <<>> /\ dialogs = <<>> /\ window = "none"
  /\ child = [NewChild EXCEPT !.up = FALSE]
  /\ lost = {} /\ nested = FALSE
  /\ tally = [sends |-> 0, crashes |-> 0, failures |-> 0]

-----------------------------------------------------------------------------
(* Commands: each starts the process when it is not there.                 *)

Running == IF child.up THEN child ELSE NewChild
Fails == tally.failures < MaxFailures /\ tally' = [tally EXCEPT !.failures = @ + 1]
Works == UNCHANGED tally

\* Mistake: the list is not cleared.
ResetOnlyPath(p) ==
  Works /\ child' = [Running EXCEPT !.path = p] /\ lost' = lost \ {"list", "path"}

\* reset, with the path p that AviUtl has by now: an error of the first command skips the second.
Reset(p) ==
  \/ Works /\ child' = [Running EXCEPT !.list = Empty, !.path = p] /\ lost' = lost \ {"list", "path"}
  \/ Fails /\ child' = [Running EXCEPT !.list = Empty] /\ lost' = (lost \ {"list"}) \cup {"path"}
  \/ Fails /\ child' = Running /\ lost' = lost \cup {"list", "path"}

-----------------------------------------------------------------------------
(* AviUtl's thread, not inside a message box.                              *)

Idle == pc = "idle" /\ dialogs = <<>>

\* WM_FILTER_FILE_OPEN.  A project with a path and data of the plug-in is loaded right after it.
Open ==
  /\ Idle /\ ~open /\ open' = TRUE
  /\ \/ path' = "" /\ moved' = FALSE /\ pc' = "idle"
     \/ path' = "p" /\ moved' \in BOOLEAN /\ pc' = IF stored THEN "opened" ELSE "idle"
  /\ Reset(path') /\ made' = Empty
  /\ UNCHANGED <<asked, stored, disk, sending, posted, window>>

\* filter_project_load: files that were moved are found by means of the path (openFallback),
\* and those that are not found leave the list.
Load ==
  /\ pc = "opened" /\ pc' = "idle" /\ made' = disk
  /\ \/ /\ Works
        /\ child' = [Running EXCEPT !.list = IF moved /\ Running.path # path THEN Empty ELSE disk]
        /\ lost' = IF "path" \in lost THEN lost \cup {"list"} ELSE lost \ {"list"}
     \/ Fails /\ child' = Running /\ lost' = lost \cup {"list"}
  /\ UNCHANGED <<host, asked, stored, disk, sending, posted, window>>

\* WM_FILTER_FILE_CLOSE
Close ==
  /\ Idle /\ open /\ open' = FALSE /\ path' = "" /\ moved' = FALSE
  /\ Reset("") /\ made' = Empty
  /\ UNCHANGED <<pc, asked, stored, disk, sending, posted, window>>

\* filter_project_save is called twice, first without a buffer.  FALSE says that there are no data to
\* save: AviUtl saves the project without them.  Messages come before the user's input.
SaveBegins == Idle /\ open /\ UpdatePath \notin ToSet(posted)

AskSize ==
  /\ SaveBegins /\ pc' = "sized"
  /\ child' = Running /\ asked' = Size(child'.list) /\ lost' = lost \ {"size"}
  /\ UNCHANGED <<host, stored, disk, made, sending, posted, window, tally>>

\* ipc_serialize fails, in the first call or in the second.
SaveFails ==
  /\ SaveBegins \/ pc = "sized"
  /\ pc' = "unsaved" /\ Fails /\ child' = Running
  /\ UNCHANGED <<host, project, sending, posted, window, lost>>

\* Mistake: the new name of the project is not told.
SaveNotTelling ==
  /\ pc = "sized" /\ pc' = "idle"
  /\ child' = Running /\ stored' = TRUE /\ disk' = child'.list
  /\ path' \in {"p", "q"}
  /\ UNCHANGED <<open, moved, asked, made, sending, posted, window, lost, tally>>

\* The second call copies what the list is by now.  The project may get another name.
Save ==
  /\ pc = "sized" /\ pc' = "idle"
  /\ child' = Running /\ stored' = TRUE /\ disk' = child'.list
  /\ path' \in {"p", "q"} /\ posted' = Append(posted, UpdatePath)
  /\ UNCHANGED <<open, moved, asked, made, sending, window, lost, tally>>

\* The project loses its list, and nobody tells the name it may have got.
SaveWithout ==
  /\ pc = "unsaved" /\ pc' = "idle"
  /\ stored' = FALSE /\ disk' = Empty
  /\ path' \in {"p", "q"} /\ lost' = IF path' = path THEN lost ELSE lost \cup {"path"}
  /\ UNCHANGED <<open, moved, asked, made, sending, posted, window, child, tally>>

\* show_gui; any other command restarts the process without a window.
ShowGui ==
  /\ Idle /\ child' = Running /\ window' = "live"
  /\ UNCHANGED <<host, pc, project, sending, posted, lost, tally>>
Draw ==
  /\ Idle /\ child' = Running
  /\ UNCHANGED <<host, pc, project, sending, posted, window, lost, tally>>

-----------------------------------------------------------------------------
(* Messages, handled when the thread is idle or inside a message box.      *)

Message == Head(posted)
Handles == pc = "idle" /\ posted # <<>> /\ posted' = Tail(posted)

\* wndproc_update_current_project_path
TellPath ==
  /\ Handles /\ Message = UpdatePath
  /\ \/ Works /\ child' = [Running EXCEPT !.path = path] /\ lost' = lost \ {"path"}
     \/ Fails /\ child' = Running /\ lost' = lost \cup {"path"}
  /\ UNCHANGED <<host, pc, project, sending, window>>

\* Mistake: the text is replaced and the user asked afterwards.
ReceiveAsksLate ==
  /\ Handles /\ Message # UpdatePath
  /\ nested' = (nested \/ dialogs # <<>>) /\ text' = Message
  /\ dialogs' = IF guard /\ text.file # Message.file
                THEN Append(dialogs, [old |-> text.file, new |-> Message]) ELSE dialogs
  /\ UNCHANGED <<host, pc, project, guard, window, child, lost, tally>>

\* wndproc_receive_update_editing_image_state.  A message box of a dead window is not shown,
\* and what MessageBox then returns is not IDCANCEL.  There may be no text to replace.
Receive ==
  /\ Handles /\ Message # UpdatePath
  /\ nested' = (nested \/ dialogs # <<>>)
  /\ \/ UNCHANGED <<text, dialogs>>
     \/ guard /\ text.file # Message.file /\ window # "dead"
        /\ dialogs' = Append(dialogs, [old |-> text.file, new |-> Message]) /\ UNCHANGED text
     \/ (guard /\ text.file # Message.file => window = "dead") /\ text' = Message /\ UNCHANGED dialogs
  /\ UNCHANGED <<host, pc, project, guard, window, child, lost, tally>>

\* The innermost message box ends, then the ones around it.  The text was made when it was opened.
Answer ==
  /\ dialogs # <<>> /\ dialogs' = Front(dialogs)
  /\ text' \in {text, Last(dialogs).new}
  /\ nested' = (nested /\ dialogs' # <<>>)
  /\ UNCHANGED <<host, pc, project, guard, posted, window, child, lost, tally>>

-----------------------------------------------------------------------------
(* PSDToolKit.exe: what its user does, and its end.                        *)

Edit ==
  /\ child.up
  /\ \/ \E f \in Files \ child.list :
          child' = [child EXCEPT !.list = @ \cup {f}] /\ made' = made \cup {f}
     \/ \E f \in child.list :
          child' = [child EXCEPT !.list = @ \ {f}] /\ made' = made \ {f}
  /\ lost' = lost \cup {"size"}
  /\ UNCHANGED <<host, pc, asked, stored, disk, sending, posted, window, tally>>

\* SendEditingImageState and ipc_on_update_editing_image_state_callback
Send ==
  /\ child.up /\ window = "live" /\ tally.sends < MaxSends
  /\ tally' = [tally EXCEPT !.sends = @ + 1]
  /\ \E f \in child.list :
       posted' = Append(posted, [file |-> f, n |-> tally'.sends])
  /\ UNCHANGED <<host, pc, project, sending, window, child, lost>>

Crash ==
  /\ child.up /\ tally.crashes < MaxCrashes
  /\ tally' = [tally EXCEPT !.crashes = @ + 1]
  /\ child' = [NewChild EXCEPT !.up = FALSE] /\ lost' = {"list", "path", "size"}
  /\ window' = IF window = "live" THEN "dead" ELSE window
  /\ UNCHANGED <<host, pc, project, sending, posted>>

Next ==
  \/ Open \/ Load \/ Close \/ AskSize \/ Save \/ SaveFails \/ SaveWithout \/ ShowGui \/ Draw
  \/ TellPath \/ Receive \/ Answer \/ Edit \/ Send \/ Crash

Spec == Init /\ [][Next]_vars

-----------------------------------------------------------------------------
(* Properties.  The process that ends takes the list and the path with it, *)
(* nothing gives them back, and a save that fails tells no name: lost has  *)
(* what the code then has wrong.                                           *)

\* When no message is on its way, PSDToolKit.exe looks for moved files next to the project
\* that AviUtl has open, under the name it was saved with last.
PathIsCurrent ==
  /\ TypeOK
  /\ UpdatePath \in ToSet(posted) \/ "path" \in lost \/ child.path = path

\* What a save leaves in the project is the list as the user has made it since the project was
\* opened, with all it has loaded, in exactly the space that was asked for; or, when one of its
\* commands failed, no list at all, and never the one of an earlier save.
SavedIsMade ==
  [][pc' = "idle" /\ pc \in {"sized", "unsaved"} =>
       \/ pc = "unsaved" /\ ~stored'
       \/ /\ disk' = made \/ "list" \in lost
          /\ Size(disk') = asked \/ "size" \in lost]_vars

\* A send replaces an older one, and another file only after the user was asked about just
\* these two files.  Message boxes inside others break both, the end of the process the latter.
AskedInOrder ==
  [][text' # text =>
       \/ nested
       \/ /\ text'.n > text.n
          /\ \/ ~guard \/ text'.file = text.file \/ window = "dead"
             \/ /\ dialogs # <<>> /\ dialogs' = Front(dialogs)
                /\ Last(dialogs) = [old |-> text.file, new |-> text']]_vars
=============================================================================
