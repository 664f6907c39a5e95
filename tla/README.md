# PSDToolKit: a TLA+ model

PSDToolKit lets AviUtl (a Windows video editor) draw layered PSD files.  The
plug-in that AviUtl loads (`src/c`, with Lua scripts in `src/lua`) starts a second
process, PSDToolKit.exe (`src/go`), and talks to it over two anonymous pipes.
This directory models the parts of both programs whose correctness depends on
order: threads, goroutines, restarts, queues and caches.

## Inventory

| Component | State | Operations | What is hard | What makes it correct |
|---|---|---|---|---|
| AviUtl side of the IPC, `c/ipc.c` | handles of child and pipes, a mutex, two condition variables (c2s, s2c), one reply, a worker thread | nine `ipc_*` commands, `read_worker`, restart of the child, `ipc_exit` | caller and worker share the pipes; the child may die between any two chunks; the worker unlocks the caller's mutex | one reader of the pipe at a time; a reply reaches the command it belongs to; calls return |
| PSDToolKit.exe side of the IPC, `go/ipc/ipc.go`, `go/main.go` | channels `queue`, `reply`, `replyDone`, the tick, a cache | `Main`, `readCommand`, `dispatch`, the three requests, `Abort` | `Main` and the GUI thread call each other over unbuffered channels | one reply per command; answers reach the asker; the process ends |
| GUI thread, `go/gui/gui.go` | channel of closures, window, selected image | `do`, `Main`, `Init`, `update`, `Serialize`, ... | re-entrance through the requests of the user | as above |
| Main view and layer view, `go/gui/mainview`, `go/gui/layerview` | zoom, the rendered image, a job queue each | `Render`, `Clear`, thumbnails | results that arrive after the selection has changed | the image shown is that of the selection |
| Job queue, `go/jobqueue` | channel, context, worker goroutine, mutex | `Enqueue`, `CancelAll`, `Close` | jobs outlive their cancellation | one worker, jobs in order, cancellation ends |
| Editing list, `go/imgmgr/editing` | images with tags, the selected index, latest states | `Add`, `Delete`, `Clear`, `UpdateLatestState`, `Serialize`, `Deserialize`, the thumbnailer | indices after every change, pointers into the list, timers, reports in any order | the image edited is the one selected; tags are unique; a thumbnail is on its own tab |
| Image sources and temporary images, `go/imgmgr/source`, `temporary` | maps with access times | `get`, `NewImage`, `Load`, `GC` | collection between load and use | a picture shown is the one asked for |
| Layer manager and state, `go/img` | visibility of layers, groups, flips | `Normalize`, `SetVisible`, `SetVisibleExclusive`, `SetFlip`, `Deserialize`, favorites (PFV) | names of layers interact; every operation is followed by a normalisation; Go ranges over maps in any order | one visible layer per radio group, the right side of each pair, AviUtl draws what the window shows |
| Codecs, `go/img/serialize.go`, `packbits`, `prop` | none | encode, decode | lengths and boundaries | round trip |
| Cache, `c/cache.c` | entries with access time, a gc thread | get, put, collect | pointers used after the lock was left | no entry is freed while used |
| Speak, `c/speak.c` | slots of opened audio files | open, read levels | which slot an open answers | levels come from the file asked for |
| Assistant filter, `c/assist.c` | the project path, the window of PSDToolKit.exe, posted messages | open, close, load, save, the send of the user | save is called twice; message boxes run other messages; a new process knows nothing | what is saved is what the user has made; no text is replaced unasked |
| Lua library, `lua/PSDToolKit.lua` | tables of values by layer, keys of the buffers | talk states, value holders, PSD states | order of the objects of a frame, caches in two processes | a value is that of its own frame, a picture that of its state |

The interactions: a caller in AviUtl sends a command (`c/ipc.c`), `readCommand`
hands it to `IPC.Main`, which runs it itself or inside the GUI thread
(`GUI.do`), and answers; the GUI thread enters `IPC.Main` (`IPC.do`) to send a
request, which `read_worker` answers on the pipe of the commands and
`readCommand` hands back to the GUI thread.  The GUI thread gives rendering to job queues
whose goroutines hand their results back through `GUI.do`.

`PROJECT.json` lists every component with what is modelled of it, and
every place of the code where something is hard to test, with the properties
about it.

## Modules

* **`IpcClient`** is `c/ipc.c`.  `pc` and `call` hold where each thread is in its
  `ipc_*` function; `Call`, `Lock`, `Check`, `Join`, `Start`, `StartFails`, `WriteChunk`, `GetReply`,
  `ReadChunk`, `Finish`, `Unlock` are its steps and `...Fails` the error paths, all
  of which end in `finish_command_process`.  `ReadHeader` to
  `WorkerUnlock` are `read_worker`.  One `WriteFile` or `ReadFile` is one chunk of
  a pipe.  `Shape` has the number of chunks of each command, and whether its payload begins with a size that the caller makes room for.  The child is an environment: it reads
  commands, replies, asks, crashes, gives up.  `hist` records the rare
  events after which the code does not keep its promises; the properties name
  exactly the events that excuse them:
  `leftover` (a command failed before `get_reply` and left its c2s signal),
  `mixed` (the worker's answer fell between the chunks of a command), `starved` (no memory
  for the rest of a payload, a text or a request; `MaxFailures` bounds these and the failed starts), `hung` (the
  worker ended while a caller waited), `swallowed` (the text of an error could not be
  read) and `aborted` (the child could not show its window).
* **`RemoteCall`** is what `c/ipc.c` promises to its callers: `Call`, `Enter`, `Serve` (the other
  process carries the command out, at most once and while its call is inside) and `Return`.  `IpcClient` implements it
  (`IsRemoteCall`): the commands that the child has read to the end and answered are `served`, and
  the promise is off (`broken`) after `leftover`, `mixed`, `starved` or `swallowed`.  A restart of the child does not break it.
* **`MCIpcClient`** has the values and the symmetry its runs use.
* **`IpcServer`** is PSDToolKit.exe: `main` and `job` are `IPC.Main`, `rd` and `got`
  `readCommand`, `gui` the GUI thread.  All channels are unbuffered, so a send
  and its receive are one step.  The pipes carry whole messages here, since
  chunks are `IpcClient`'s subject.
* **`Collector`** is the gc thread that `cache.c` and `speak.c` both have: it waits for
  its next round or for the signal of the exit function, and hands the time of the round
  to a scan.  `GcTimeout` and `GcTimedOut` are two steps because the wait function gets
  its lock back after the timeout and the thread then clears the signal (`cv.var`).
* **`Cache`** (with `MCCache`) extends it with `cache.c` and the two Lua functions that use it.  What happens under the mutex is one step; the steps
  between are those outside of it: the copy of `luafn_getcache` from a pointer that the
  cache owns, and the release of the replaced item in `cache_put`.  That item is the `spare` one of the map, which a later
  replacement, removal or insertion (of a new key, when it displaces others) may overwrite (`Clobbers`).  `heap` says who owns each buffer.
* **`Speak`** extends it with `speak.c`: the slots, the handles that are open in AviUtl
  (`host`), and callers between `open`, `read` and the end of `speak_get_level`.
* **`View`** is what the window shows: `renders` are the goroutines of `gui/async.go`,
  `jobs` the goroutines of the resize jobs of the main view, `sheets` those of the layer view.
  Each can be cancelled and may have finished before; each delivers into the GUI thread.  The job
  queue itself is `JobQueue`'s subject; here `CancelAll` and `Enqueue` mark jobs as cancelled and add one.
* **`Editing`** (with `MCEditing`) is the editing list and the operations of `gui.go` on it.  Since the thumbnailer keeps
  a pointer into the slice, the module follows the array behind it: an index is a
  pointer into the present array, `Gone` one into an array that `append` or `Deserialize` has left.
  The language leaves the capacity that `append` chooses open; `Capacities` takes anything up to twice what is needed, as far as the limit of the list lets it matter.
  `ThumbnailFails` is a timer whose thumbnail could not be made; `unmade` remembers it.
* **`LayerManager`** is what `img/layermgr.go` derives from a file: a layer is its place in flat order and a file its
  sequence of paths; `NewLayerManager` finds groups, forced layers, pairs and twins in the names, the orders (`visits`) in
  which Go may range over the maps of pairs, and the twins (`synced`) that each order of registration leaves.
  `base` stands for the rest of a name and the number that `enumChildren` gives to a repeated one.
* **`LayerState`** extends it with `img/layerstate.go` and the operations of an image: `Set`, `SetOne`, `NormalizeGroups`, `ShowSide`,
  `SetFlip`, `Normalize`, `Apply` are the functions of `layerstate.go` with their priorities; the actions are what the window, a state
  string or a project does to an image.  `visit` is the order of the maps of pairs in one pass.  Go draws a new one for each, so what
  makes several passes is the set of all outcomes (`Turned`, `Applied`), and the actions take any of them.
  **`MCLayerState`** has nine files of three to six layers.  `Beside` has two pairs in one map that have nothing in common, and `Inner`
  pairs inside pairs, so that orders differ.
* **`SubObjects`** is what a prep object leaves for a PSD object, the value holders of `PSDToolKit.lua`;
  **`Rendering`** (with `MCRendering`) extends it with `PSDState:render` and the commands it sends: `setProps` and `draw` of `ipc.go`, the
  temporary image, `luafn_putcache` and AviUtl's buffer.  A render index is only compared with the present one, so it is "now" or "before".
* **`Assist`** is `c/assist.c`: the project, its path and list, messages and message boxes in the one thread of AviUtl.  `child` is PSDToolKit.exe with
  its list and path; every command starts it when it has ended (`Running`).  A save is two calls; when one returns FALSE
  AviUtl goes on and writes the project without the data of the plug-in (`SaveWithout`, after the comments of `filter.h` on `func_project_save`).
* **`JobQueue`** is `go/jobqueue/jobqueue.go`.  A generation is one call of `init`: the
  channel, context and worker that `CancelAll` throws away together.  `Call` is the call, `Acquire` the end of its wait for the mutex.  A job may
  have its effect, obey its context, ask to be called again or never return.

* The theorems and their proofs are in **`IpcClient_proofs`**, **`Editing_proofs`**, **`Speak_proofs`**, **`Cache_proofs`**, **`JobQueue_proofs`**,
  **`IpcServer_proofs`**, **`Assist_proofs`** and **`Rendering_proofs`**, each of which extends the module it is named after.
  What `Speak_proofs` and `Cache_proofs` need to know of the collector is stated in both.  `JobQueue_proofs` also extends `View`, a user of the
  queue, and `Rendering_proofs` extends `LayerState`, whose images the frames show; each has the theorems about both.

An operator under a comment that begins with *Mistake* is no part of any
specification.  It is a plausible wrong version of the definition after it; with
it in its place TLC finds the named property of `PROJECT.json` violated.

## Runs

| Run | Shows | Bounds |
|---|---|---|
| `client_one` | framing, replies, one reader and `ipc_exit` for one thread, and that `c/ipc.c` is a remote call | 3 commands of 2 kinds, one crash, one failed start, one request; pipes of 2 chunks |
| `client_two` | with two threads every call and `ipc_exit` return | 2 commands |
| `server` | one reply per command, answers reach the asker, commands and requests are answered, the process ends | 3 commands of 3 kinds, 2 requests, 1 tick |
| `jobqueue` | one worker, effects in order, one late call at most; every call returns, its wait for the mutex included, when jobs end, and when they do not unless an `Enqueue` that has the mutex waits for ever | 3 jobs, 3 generations, 2 calls a job |
| `speak` | handles and slots belong together, reads go to open handles, idle files are closed, `speak_exit` ends unless its signal is lost in a timeout | 2 slots, 3 files, 3 handles, 1 thread, the gc thread up to 2 s late |
| `speak_level` | *violated*: the first level of a file comes from slot 0 | 2 slots, 2 files |
| `cache` | the image copied is there, each buffer has one owner, nothing is left after `cache_exit` | 2 keys, 3 buffers, 2 threads, copies of at most 1 s |
| `view` | the newest render, resize job and sheet are never lost, and the window catches up with the selection | 2 requests, 2 zooms, 2 images |
| `editing` | selection, edited image, tags, latest states and thumbnails agree | 2 images in the list, 1 tag, 2 reports, 2 cancelled renders and timers |
| `layers` | one radio button per folder, the right side of each pair, clicks show what they click, flips keep what is seen, AviUtl draws what the window shows | 9 files of 3 to 6 layers, every string of a flip and one more item, every order of the maps in every pass |
| `rendering` | a frame shows the state it asks for, from the values of its own frame | 2 slots, 2 effects, 2 values a slot, crashes, failures and collections at any time |
| `assist` | the list saved is the list made and fits, moved files are found, a save that fails leaves no list rather than an older one, texts are replaced after the question about them | 2 files, 2 sends, 1 crash, 1 failing command |

Why the bounds are enough: a fault of the hand-over needs a command that leaves a signal, one that
consumes it wrongly and one that suffers, hence three commands; a restart needs
one crash; a pipe of two chunks blocks a writer in the middle of a command and holds a
header and a payload.  A cancelled job, the job that replaces it and one more
cancellation need three generations.  Two slots and three files make `open` close the oldest;
the collector needs an interval, a lifetime longer than that and a delay of more than
a round, so seconds are scaled to `Interval = 1`, `Lifetime = 2` (the values of `speak.c`; `cache.c` has 30 and 60).
In `rendering` nothing is bounded but the values of a slot: two slots make one holder hide another, two effects make the indices matter.
Two sends make one overtake the other, and a crash, a save and a failing command are each enough for what `assist` says about them.
The files of `layers` are one for each way in which names interact; they are the only inputs, and a larger file is made of such folders.
An overtaken result needs two requests.  A thumbnail that reaches the tab of another
image for good needs a list of three: one before the closed image, which is then selected and gets its
own thumbnail, and one after it, which does not; the excuse `moved` already happens in a list of two.

The types (`TypeOK`) of a module without a theorem of its own about them are a conjunct of one of its invariants.

The histories in the properties of these modules are the excuses the code needs: `lost` (the signal
fell into a timeout), `clobbered` (the spare item of the map was overwritten while a caller had yet to free the
item it replaced), `unmade` (the thumbnail that the edited image lacks could not be made), `stale` (another thread has put the key), `late` (a result was
overtaken, or came for another image), `moved` (items moved under the pointer of a timer), `overtaken` (a report was
overtaken), `failed` (a report could not set the state of a new image), `forgot`, `torn` and `unput` (`Rendering`), `lost` and `nested` (`Assist`), and
`Odd`, `Nested`, `Whole`, `Orderly`, `Regular`, `mirror` and `reload` (`LayerState`).  The last two and those of the other modules are set by
the step where it happens, the rest is a condition on the names of the file, and the properties hold without them.  Two of them are faults one can
see in the program and the runs do not show as violations: a finished render that was
cancelled can be delivered after the one that replaced it (`async.go:26`, `late`), and the goroutines
of `setProps` can enter the GUI thread in another order than they were started (`ipc.go:203`, `overtaken`).

Other faults one can see in the program through its excuses:

* When `g.Init` fails while `Main` is inside a command of the GUI thread, `Abort` and `Main` wait for each
  other and the command gets no reply (`Embraced`; `ipc.go:304`, while CHANGELOG.md:600 says that the error is shown).
* `ipc_exit` joins the worker only when the child is alive (`ipc.c:699`).  With a dead one it frees the struct under a
  worker that is still on its way out of the broken pipe.  No property is about this: with a live child the join is one guard.
* When there is no memory for a payload or text whose size was read (`ipc.c:228`), the rest stays in the pipe and is taken for the next
  reply (`starved`).
* With several calling threads the unlock of the worker (`ipc.c:471`) can release the hold of another caller, where a critical
  section does not check its owner; then the callers do not take turns.  With one it is harmless.
* `Enqueue` waits for the worker with the mutex (`jobqueue.go:62`), so a `CancelAll` that would end the wait waits as well, as long as the
  running job does.  A second `Close` panics (`jobqueue.go:44` does not look at `done`); nothing in the program calls `Close`.
* A project whose save failed is written without the list, and under a new name that nobody tells PSDToolKit.exe when it was "save as": the
  message of `assist.c:1056`, for a name that changes after saving, is posted after a success only.
* A timer that fails leaves the old thumbnail (`unmade`, `editing.go:72`).
* An image that is closed within the half second of a thumbnail timer leaves its thumbnail on the next tab (`moved`, `editing.go:232`).
* A layer for two axes (`a:flipx:flipy`) never shows its mirror on the second one (`Odd`).  So it is with the mirrors of a forced
  layer that has several: it is visible when the next map is visited, and that map shows it again.
* Pairs inside pairs (`Nested`), and pairs of one map that have layers in common, depend on the order of Go's maps (`Orderly`).
* A mirror of a folder that lacks some of its radio buttons leaves two or none visible (`Whole`); a layer that a mirror lacks is not there after a
  flip, and a folder with several mirrors is synchronised with one of them (`Regular`).
* A string may name the mirror of another axis, also by hiding a radio button when the last one of the folder is such a mirror: it is
  drawn (`mirror`).  A project keeps the mirrors and not the flip, so a loaded image shows the mirrored layers
  unmirrored (`reload`, `image.go:174`).
* A process that ends, or ten minutes without drawing, resets the temporary image to its initial state; an object in that
  state is then "not modified" and shows an older buffer (`forgot`).  Between `setprops` and `draw` the initial picture is kept under the
  key of another one (`torn`).  When `putcache` fails the older buffer stays until another state is asked for (`unput`).
* A value that nobody read in its frame is returned at its first later read (`LeftOver`); `PSDToolKit.lua:806` clears
  `states[indices]`, a key that is not there, so nothing is ever removed.
* A new process has an empty list and no path; the next save stores the empty list (`lost`).  A change between the two calls of a save
  changes the size, and the second call copies what there is by then into the buffer of the first (`"size"`).  A send handled inside the message box of another is overwritten by the older one, also when it names
  a third file (`nested`).  After PSDToolKit.exe has ended its window is no owner for a message box, which then returns 0 and not `IDCANCEL`: the text is replaced unasked.

`CHECK_DEADLOCK FALSE` is set where the system stops: after `ipc_exit`, after the process has
ended, or when a bound is reached.

Fairness: every thread and goroutine runs when it can (weak fairness of its
steps), since the operating system and the Go runtime schedule fairly, and the child
goes on with what it has read.  In `jobqueue` the wait for the mutex is strongly fair, since a `sync.Mutex` gives
it to one that has waited for a millisecond.  Nothing makes a user click, AviUtl send, the child
crash, or a job end: `CallsReturn` of `jobqueue` has it as its premise that jobs end or that no `Enqueue` waits for ever.  In `view`
renders, resizes and sheets end, because they are
loops over pixels.  In `speak` time passes, which ends every wait of the gc thread.

`mtx_unlock` by a thread that is not the owner is undefined in C11.  The plug-in is built
with a critical section under it, which does not check the owner: `ForeignUnlock` holds
the outcomes considered (no effect, or the owner loses its hold).  In AviUtl one thread
calls the functions, where both are harmless (`client_one`).  `client_two` takes the first: what two threads can rely on when the second happens is
not claimed.

## Proofs

`IpcClient_proofs` proves, for any number of callers, commands, pipe sizes and
bounds (`Handover` is not in the list of a run; it is what `OneReader` rests on):

* `TypeCorrect`: `Spec => []TypeOK`.  `TypeOK` is not inductive: a count of chunks
  could fall below zero.  `Counters` says that the states that count have something left.
* `HandedOver` and `OneReaderOnly`, from
  `TurnsAssumption` (a foreign unlock has no effect, or there is one caller: the two cases that the runs have).
  The inductive invariant `HandInv` joins the types, `Owned` (a caller inside owns the
  mutex), `NoReplyYet` (no reply before `get_reply`) and `Handover`: a set s2c or c2s
  finds the worker in its handshake, never both are set, and while a caller has a reply neither is.
  `OneReader` alone is not inductive, because it does not say that a
  stale signal cannot release the worker.
* `FramingStays` and `RepliesAreOwn`, from the same assumption: what the two pipes hold.  `TalkInv` adds to `HandInv`
  that the pipes are open while they are used (`Opened`) and, as long as nothing is `mixed` or `leftover` (`Clean`), that
  the chunks to the child are the rest of one command and at most one answer (`Framed`: lengths `lo`, `a` and `left` of the parts),
  a request is in one place (`Asked`), and so is the number of the command (`OnePlace`: not sent, sent, with the child, on its way back, with the worker, handed over) and it is
  that of its caller (`Numbered`), the payload in the pipe is that of the command the caller reads for (`Paid`), the text of an error
  follows its header (`Texts`), a child that gives up has nothing else under way (`Aborts`), and what a caller has got is its own (`Matched`).
  `FramingKept` alone is not inductive: it says nothing of a reply that is on its way.
* `ClientIsRemoteCall`: `Spec => IsRemoteCall`, the refinement.  `CallInv` adds to `TalkInv` that all numbers that are served or under way were issued
  (`Known`) and that a success is that of a served command (`Succeeds`).  `CallStep`, `EnterStep`, `ServeStep`, `ReturnStep` and `BreakStep` map the steps
  one sees in `RemoteCall`, `UnseenStep` and `OtherStep` those that stutter; `StepRefines` puts them together.

`Editing_proofs` proves every property that `editing` checks, for any images, tags, length of the list, number
of reports and of cancelled renders: `TypeCorrect`, `EditsTheSelected`, `TagsAreUnique`,
`ThumbnailsStayOwn`, `SelectedGetsThumbnail`, `LastReportWins`.  Its only assumptions are those `Editing` makes
about its constants.  None of the last three properties is inductive.  `Inv` adds to them

* `OneIsSelected`: while there are images, the index is that of one;
* `TargetOwn` and `TargetIsSelected`: the thumbnailer points to the edited image, at the selected index;
* `PointersOwn`: a timer's pointer is into a left array or to the image it was made for;
* `Waiting`: a selected image without thumbnail has a render or a timer under way, which points to it, or could not be given one;
* `FlightSent` and `InOrder`: all reports after the one an image has taken are still under way.

`SameOrSelects` splits the steps into those that keep length, images and tags and those that do not; `Added`,
`Deleted`, `Loaded`, `KnownItem` and `ThumbnailItem` say what each list operation does to the items.

`Speak_proofs` proves `HandlesStayOwned`, `IdleFilesAreClosed` and `KnownFilesAreRead`, for any slots, files, handles, callers and delays.  A round of the collector is due when it
is scanned (`RoundDue`), the mutex belongs to the caller inside (`Locked`), and a caller that reads has the index of an open file (`Progress`).  For
`IdleIsClosed` the age of a slot is bounded by the time of the next round (`Timely`: `due + age < Lifetime + Interval`),
since a round that is not due yet leaves old slots alone.

`Cache_proofs` proves `BorrowedStays` and `OneOwnerAlways`.  `Borrowed` says that the entry a caller copies from was used when it was borrowed or later, so
it is younger than a copy may take; `Owners` says who has each buffer; `NothingLeaks`, unless the spare item was overwritten under a put, that a buffer that is in use has an owner
at all.  It rests on `CacheAssumption`: a copy takes less than the lifetime of an entry.

`JobQueue_proofs` proves `JobsTakeTurns` and `LateCallIsLast`, for any callers, jobs, generations and calls.  `UnderWay` and `InTurn` say
that a job starts when those before it in its generation have ended, whether or not their worker is still there; `Logged` follows from that; `Late` says that a job
with a late call is of an older generation and is not called again.

It also proves `NewestStays` (`NewestSurvives`, what `view` checks), from `ViewConstants` (the assumption of `View`).  `NewestSurvives` is not inductive: a delivery must not be ahead
of what was asked (`NothingAhead`), only the newest sheet may have a context (`NewestSheet`), and `SheetOfSelected` says
that all sheets under way are older than the newest once that of the selected image was delivered.  `JobsCounted` bounds the numbers
of the jobs, since each comes from a render that has ended or from the slider.

`IpcServer_proofs` proves `EachIsAnsweredOnce` and `AnswersArrive`.  Beside both properties, `Inv` says where `Main`, `readCommand` and the GUI thread can be together (`Reading`)
and counts the goroutines that wait to enter the GUI thread against the commands (`TagsCounted`).

`Assist_proofs` proves `PathStaysCurrent`, `SavesWhatWasMade` and `AsksBeforeReplacing`, two of them about steps.  A process that is not there
has nothing (`Down`), so the one a command starts goes on from it; `PathIsTold`, `ListIsMade` and `SizeIsTold` say what the process knows at
each point of a save; `InOrder` that messages come in the order of their sends and after the text that was set last; `AsksAboutText` what a single message box asks about.

`Rendering_proofs` proves `ShowsWhatIsAsked` and `ReadsItsOwnFrame`, for any slots, effects and values.  `HoldersMatch` says that what a holder of this frame
has is what was put in this frame.  The other parts follow a picture through the caches: the buffer has the picture of its key (`KeyIsOfBuffer`), what is drawn is the picture of the image (`PicIsOfImage`),
an image that was not modified is in the buffer (`BufferIsOfImage`), `setprops` has said so (`ChoiceIsRight`), and what is shown is that (`Shown`),
each with the excuses of `PictureIsAsked`.

It also proves `ButtonsShowOne` and `MirrorsFollow` (`RadioShowsOne` with the types, and `FlipShown`, what `layers` checks), for any file whose
layers form a tree (`PsdsAssumption`, `LayerNamesAssumption`), every string of a flip and one more item and any order of the maps.

* `ManagersSound` says what `NewLayerManager` makes of any file (`Sound`): groups share no layer, both sides of a pair are siblings, twins are in
  the other folder of their pair and each other's twins, each pair is visited, in the order of the maps.
* What may come of a pass is a set with one outcome for each order of the maps (`Turned`, `Applied`); each is proved to have what the next pass needs.
* The folds over pairs are sequences of states and those over parameters and folders sequences of sets of states, each of which follows from the one before (`Iterates`, `SidesInTurn`,
  `ParamsInTurn`).  What a step preserves then holds for each of them, by induction over their number.  So no limit on the
  number of layers is needed, and nothing has to be said of what a fold computes.
* For radio buttons, `OnePer` of a family of groups that is copied completely (`Family`, the witness of `Whole`): `NormalizeGroups` brings it about
  (`NormalizeOnePer`) and `ShowSide` preserves it, because it replaces a layer by the other side of the pair in the same group, and copies groups of the family from groups of
  the family (`ShowSideOnePer`).
* `FlipShown` is not inductive.  A mirror shown by a click is hidden by the passes that follow it, and a pass can show a mirror again that an
  earlier one had hidden: it comes back as the last layer of a group without a visible one.  `Ready` says what
  rules this out: no mirror that does not go with the flip is visible (`Hidden`), and a group with a pair shows a
  layer or its last one is no mirror (`Held`).  `NormalizeReady` shows that one `Normalize` establishes it, `NormalizeShows` that
  one which starts from it leaves each pair straight (`Straight`).  Every operation that counts as a modification
  ends with two (`Settle`), and those that change nothing leave what was straight (`SettleGood`, `ClickedGood`).
* Strings are drawn with one `Normalize` only.  They start from the initial layers, which are held (`LayerInv`), and unless they name a mirror what they show
  keeps the state `Ready` (`SetNamedReady`, `SetFavoriteReady`, `DrawnGood`).

Beside `TurnsAssumption` the theorems assume what the modules say of their constants: bounds are natural numbers, sets of callers, files, buffers or images do not contain the value for "none",
and in `Collector` and `Cache` how intervals, lifetimes and delays compare (`CollectorAssumption`, `CacheAssumption`).

With TLC only are

* liveness (`CallsReturn`, `ExitEnds`, `EveryoneIsAnswered`, `EndsAfterClose`, `CatchesUp`): what fairness gives cannot be proved with these provers;
* `SendsWhatIsShown`, `ClickShows` and `FlipKeeps` of `LayerState`.  They compare the results of whole operations: that a `Normalize` in another order of
  the maps changes nothing any more, and what each layer and its folders look like after two or more of them.  That is not preserved step by step:
  it needs what a pass over the pairs computes for all layers, which is an argument about the order of pairs with common folders
  that was not carried out.  `layers` checks them for one file of each kind of interaction.

## Plan

1. `IpcClient`, `IpcServer`, `JobQueue` and the first proofs (done).
2. `Collector`, `Cache`, `Speak`, `View`, `Editing` and the theorems about the list (done).
3. `RemoteCall` and the refinement, `LayerState`, `SubObjects` and `Rendering`, `Assist` (done).
4. The inductive invariants and theorems of `Speak`, `Cache`, `JobQueue`, `View`, `IpcServer`, `Assist` and `Rendering`, the contents of the pipes and the refinement of 3 (done).
   The radio buttons and mirrors of `LayerState` for every file (done).  Left: `SendsWhatIsShown`, `ClickShows` and `FlipKeeps`.
5. Codecs as functions over bounded inputs, checked against their decoders; talk states of the Lua library; the
   popup menus of the two exports.

## Not modelled

Most lines of C and of headers in the repository are not the program's own: `nuklear.h` (23717 lines), `jprange.h`
(4329, a table), `fftsg.c` (3314) and `filter.h` (881) are vendored or generated.  Of its own C code, `ipc.c`, `cache.c`, `speak.c` and the
handlers of `assist.c` keep state and are modelled; `ptklayer.c`, `setting.c`, `aviutl.c`, `find.c`, `luastr.c`, `popupmenu.c` and
`error_ptk.c` build texts, fill dialogs and wrap calls of Windows, AviUtl and exedit, and what they keep between calls are
pointers and addresses of the host.

Parsing of PSD files and drawing (third-party code), Windows and AviUtl
themselves, the drag and drop handlers (text generation without state), dialogs,
clipboard, logging and the build.

`luafn_getcache` reports an error after every copy (`luafuncs.c:132`), so
`PSDToolKit.lua:189` takes each hit for a miss and renders again.  `Cache` models the copy; the
result is not part of it.

The export handlers of `assist.c` (lines 701-1012) show a popup menu and then a text of one call; talk states, blinkers and subtitles of
the Lua library live and die like the value holders that are modelled.  Codecs (`packbits.go`, `serialize.go`, `prop.go`) and the tree of favorites
are pure functions.  `Sources` only keeps what a file contains; collecting one costs time, and two copies of an unchanged file are the same.

Two layers of one folder that are mirrors of equal names: in `registerFlips` both are pairs with the same original,
while a path means one layer in `LayerManager`, where the number makes the second name another one without an original.

A render that is cancelled and the one that replaces it draw into the same buffer
(`image.go:116`); pixels are left out of `View` and `Editing`.
