-------------------------------- MODULE View --------------------------------
(***************************************************************************)
(* What the window of PSDToolKit.exe shows of the selected image: the      *)
(* render goroutines of go/gui/async.go, the resize jobs of                *)
(* go/gui/mainview, and the sheets of layer thumbnails of                  *)
(* go/gui/layerview.  All three run beside the GUI thread, are cancelled   *)
(* when a newer one starts, and may have finished when that happens.       *)
(*                                                                         *)
(* A request is one call of updateRenderedImage; its number stands for the *)
(* picture it renders.  Zoom factors and scrolling are left out.           *)
(***************************************************************************)
EXTENDS Naturals, FiniteSets

CONSTANTS
  Images,       \* images of the editing list
  MaxRequests,  \* bound: calls of updateRenderedImage
  MaxZooms      \* bound: moves of the zoom slider

ASSUME ViewAssumption == MaxRequests \in Nat /\ MaxZooms \in Nat

NoImage == "nil"
ASSUME ViewNames == NoImage \notin Images

VARIABLES
  img,       \* g.img
  requests,  \* requests so far; the newest one is of img
  renders,   \* the render goroutines
  rendered,  \* mv.renderedImage: a request
  resized,   \* mv.resizedImage: a request, 0 for nil
  jobs,      \* the goroutines of the resize jobs
  enqueued,  \* resize jobs so far
  zooms,     \* those of the zoom slider
  sheets,    \* the goroutines that make thumbnail sheets
  chips,     \* lv.thumbnailChip: the image it is of
  newest,    \* history: the newest request, job and sheet delivered so far
  late       \* history: what was delivered last was older than that

viewVars == <<img, requests, renders, rendered, resized, jobs, enqueued, zooms, sheets, chips,
          newest, late>>
history == <<newest, late>>
renderVars == <<requests, renders>>
resizeVars == <<rendered, resized, jobs, enqueued, zooms>>
sheetVars == <<sheets, chips>>

Requests == 1 .. MaxRequests
ResizeJobs == 1 .. MaxRequests + MaxZooms
Render == [req : Requests, cancelled : BOOLEAN]

\* n is the number of the job.  It resizes and sends left times, the first time
\* fast; pic is what it has to send, 0 while it resizes.
Job == [n : ResizeJobs, left : 1 .. 2, pic : 0 .. MaxRequests, cancelled : BOOLEAN]
Sheet == [n : Requests, of : Images, cancelled : BOOLEAN]

ViewTypes ==
  /\ img \in Images \cup {NoImage}
  /\ requests \in 0 .. MaxRequests
  /\ renders \subseteq Render
  /\ rendered \in 0 .. MaxRequests /\ resized \in 0 .. MaxRequests
  /\ jobs \subseteq Job /\ enqueued \in ResizeJobs \cup {0} /\ zooms \in 0 .. MaxZooms
  /\ sheets \subseteq Sheet
  /\ chips \in Images \cup {NoImage}
  /\ newest \in [render : 0 .. MaxRequests, job : ResizeJobs \cup {0}, sheet : 0 .. MaxRequests]
  /\ late \in [render : BOOLEAN, job : BOOLEAN, sheet : BOOLEAN]

ViewInit ==
  /\ img = NoImage /\ requests = 0 /\ renders = {}
  /\ rendered = 0 /\ resized = 0 /\ jobs = {} /\ enqueued = 0 /\ zooms = 0
  /\ sheets = {} /\ chips = NoImage
  /\ newest = [render |-> 0, job |-> 0, sheet |-> 0]
  /\ late = [render |-> FALSE, job |-> FALSE, sheet |-> FALSE]

\* A goroutine of one kind delivers what has the number n.
Record(kind, n) ==
  /\ newest' = [newest EXCEPT ![kind] = IF n > @ THEN n ELSE @]
  /\ late' = [late EXCEPT ![kind] = n < newest[kind]]

\* Everything in a set of goroutines loses its context.
Cancelled(S) == {[s EXCEPT !.cancelled = TRUE] : s \in S}

-----------------------------------------------------------------------------
(* The GUI thread.                                                         *)

\* Mistake: the new render is cancelled with the old one.
UpdateRenderedImageCancelsAll ==
  /\ requests < MaxRequests
  /\ requests' = requests + 1
  /\ renders' = Cancelled(renders \cup {[req |-> requests + 1, cancelled |-> FALSE]})

\* updateRenderedImage: cancels the render in progress and starts one.
UpdateRenderedImage ==
  /\ requests < MaxRequests
  /\ requests' = requests + 1
  /\ renders' = Cancelled(renders) \cup {[req |-> requests + 1, cancelled |-> FALSE]}

\* UpdateLayerThumbnails.  A sheet has the number of the request made with it.
UpdateLayerThumbnails(i) ==
  /\ chips' = NoImage
  /\ sheets' = Cancelled(sheets) \cup {[n |-> requests + 1, of |-> i, cancelled |-> FALSE]}

\* changeSelectedImage with an image: the view is cleared, its jobs go on.
Select(i) ==
  /\ img' = i
  /\ resized' = 0
  /\ UpdateRenderedImage
  /\ UpdateLayerThumbnails(i)
  /\ UNCHANGED <<rendered, jobs, enqueued, zooms, history>>

\* changeSelectedImage without an image returns early and cancels nothing.
Unselect ==
  /\ img # NoImage
  /\ img' = NoImage
  /\ resized' = 0
  /\ UNCHANGED <<renderVars, rendered, jobs, enqueued, zooms, sheetVars, history>>

\* update: the user has modified the image.
Modify ==
  /\ img # NoImage
  /\ UpdateRenderedImage
  /\ UNCHANGED <<img, resizeVars, sheetVars, history>>

\* updateViewImage: CancelAll and Enqueue.
UpdateViewImage(passes) ==
  /\ enqueued' = enqueued + 1
  /\ jobs' = Cancelled(jobs) \cup
               {[n |-> enqueued + 1, left |-> passes, pic |-> 0, cancelled |-> FALSE]}

\* MainView.Render: the zoom slider is moved or released.
Zoom ==
  /\ img # NoImage /\ resized # 0
  /\ zooms < MaxZooms /\ zooms' = zooms + 1
  /\ UpdateViewImage(1)
  /\ UNCHANGED <<img, renderVars, rendered, resized, sheetVars, history>>

-----------------------------------------------------------------------------
(* The goroutines.                                                         *)

\* img.Render sees that its context is cancelled.
AbortRender(r) ==
  /\ r.cancelled
  /\ renders' = renders \ {r}
  /\ UNCHANGED <<img, requests, resizeVars, sheetVars, history>>

\* Mistake: the picture is not resized for the view.
DeliverRenderOnly(r) ==
  /\ renders' = renders \ {r}
  /\ rendered' = r.req
  /\ Record("render", r.req)
  /\ UNCHANGED <<img, requests, resized, jobs, enqueued, zooms, sheetVars>>

\* A finished render enters the GUI thread: SetRenderedImage.
DeliverRender(r) ==
  /\ renders' = renders \ {r}
  /\ rendered' = r.req
  /\ UpdateViewImage(2)
  /\ Record("render", r.req)
  /\ UNCHANGED <<img, requests, resized, zooms, sheetVars>>

\* The resize ends; mv.renderedImage is read when it begins.
Resize(j) ==
  /\ j.pic = 0
  /\ jobs' = (jobs \ {j}) \cup {[j EXCEPT !.pic = rendered]}
  /\ UNCHANGED <<img, renderVars, rendered, resized, enqueued, zooms, sheetVars, history>>

AbortResize(j) ==
  /\ j.pic = 0 /\ j.cancelled
  /\ jobs' = jobs \ {j}
  /\ UNCHANGED <<img, renderVars, rendered, resized, enqueued, zooms, sheetVars, history>>

\* MainView.Render takes the resized image from mv.queue.  update calls Render
\* only when there is an image; until then the job waits.
DeliverResize(j) ==
  /\ j.pic # 0 /\ img # NoImage
  /\ resized' = j.pic
  /\ jobs' = (jobs \ {j}) \cup
               IF j.left = 1 THEN {} ELSE {[j EXCEPT !.left = 1, !.pic = 0]}
  /\ Record("job", j.n)
  /\ UNCHANGED <<img, renderVars, rendered, enqueued, zooms, sheetVars>>

AbortSheet(s) ==
  /\ s.cancelled
  /\ sheets' = sheets \ {s}
  /\ UNCHANGED <<img, renderVars, resizeVars, chips, history>>

\* A finished sheet enters the GUI thread.
DeliverSheet(s) ==
  /\ sheets' = sheets \ {s}
  /\ chips' = s.of
  /\ Record("sheet", s.n)
  /\ UNCHANGED <<img, renderVars, resizeVars>>

Gui == Unselect \/ Modify \/ Zoom \/ \E i \in Images : Select(i)

Goroutines ==
  \/ \E r \in renders : AbortRender(r) \/ DeliverRender(r)
  \/ \E j \in jobs : Resize(j) \/ AbortResize(j) \/ DeliverResize(j)
  \/ \E s \in sheets : AbortSheet(s) \/ DeliverSheet(s)

ViewNext == Gui \/ Goroutines

ViewSpec == ViewInit /\ [][ViewNext]_viewVars
ViewFairSpec == ViewSpec /\ WF_viewVars(Goroutines)

-----------------------------------------------------------------------------
(* Properties.                                                             *)

\* The newest request of each kind has been delivered, or its goroutine runs and
\* will not be aborted: no order of selecting, modifying and closing cancels it.
NewestSurvives ==
  /\ ViewTypes
  /\ requests = newest.render \/ \E r \in renders : r.req = requests /\ ~r.cancelled
  /\ enqueued = newest.job \/ \E j \in jobs : j.n = enqueued /\ ~j.cancelled
  /\ chips = img \/ late.sheet \/ img = NoImage \/ \E s \in sheets : s.of = img /\ ~s.cancelled

ShowsSelected == rendered = requests /\ resized = requests /\ chips = img

\* In the end the window shows the newest picture of the selected image, unless
\* a result was overtaken by a newer one and delivered all the same.
CatchesUp ==
  <>[](img = NoImage \/ ShowsSelected \/ \E kind \in DOMAIN late : late[kind])
=============================================================================
