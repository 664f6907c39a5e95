------------------------------- MODULE Editing ------------------------------
(***************************************************************************)
(* The list of images that PSDToolKit.exe edits: imgmgr/editing, and the   *)
(* operations of gui/gui.go on it.  AviUtl adds images and reports the     *)
(* state it last used for a tag, the user selects and closes images, a     *)
(* project replaces the list, and timers write thumbnails into it.  All of *)
(* it runs in the GUI thread, but in the order in which it gets there.     *)
(*                                                                         *)
(* A Thumbnailer holds a pointer into the array behind the list, so the    *)
(* module follows the array: cap is its capacity, and a pointer is an      *)
(* index into it, or Gone when the list has left the array.                *)
(***************************************************************************)
EXTENDS Integers, Sequences, FiniteSets, Functions

CONSTANTS
  Imgs,      \* identities of img.Image objects
  Tags,      \* tags of PSD objects other than 0
  Limit,     \* limit: the longest list
  MaxSends,  \* bound: states that AviUtl reports for a tag
  MaxPending \* bound: cancelled renders and timers under way

ASSUME EditingAssumption ==
  Limit \in Nat \ {0} /\ MaxSends \in Nat /\ MaxPending \in Nat

NoTag == "0"
NoImg == "nil"
ASSUME EditingNames == NoTag \notin Tags /\ NoImg \notin Imgs

VARIABLES
  images,    \* ed.images: item i of the code is images[i + 1]
  cap,       \* capacity of the array behind it
  selected,  \* ed.SelectedIndex
  img,       \* g.img
  target,    \* g.thumbnailer.item: a pointer
  rendering, \* the image that is rendered
  stale,     \* images whose render is cancelled and may still have finished
  armed,     \* the timer of g.thumbnailer, as far as it can be stopped
  fired,     \* the timers that nothing stops any more
  sent,      \* states that AviUtl has reported, by tag
  flight,    \* the reports that have yet to enter the GUI thread
  overtaken, \* history: tags of which an older report has entered after a newer one
  late,      \* history: a render has ended for another image than the selected one
  moved,     \* history: items have moved under the pointer of a timer
  failed,    \* history: a report has added an image and could not set its state
  unmade     \* history: the thumbnail that the edited image lacks could not be made

listVars == <<images, cap, selected>>
thumbVars == <<target, rendering, stale, armed, fired>>
tagVars == <<sent, flight, overtaken>>
excuses == <<late, moved>>
vars == <<listVars, img, thumbVars, tagVars, excuses, failed, unmade>>

Gone == 0
Pointers == Gone .. 2 * Limit
Sends == 1 .. MaxSends

\* thumb: there is none, it is of this image, or of another one.
Item == [img : Imgs, tag : Tags \cup {NoTag}, latest : {0} \cup Sends, thumb : {"none", "own", "other"}]

\* pic is the image of which the timer makes a thumbnail.
Timer == [at : Pointers, pic : Imgs]
NoTimer == [at |-> Gone, pic |-> NoImg]

TypeOK ==
  /\ images \in Seq(Item) /\ Len(images) <= cap
  /\ cap \in 0 .. 2 * Limit
  /\ selected \in 0 .. Limit - 1
  /\ img \in Imgs \cup {NoImg}
  /\ target \in Pointers
  /\ rendering \in Imgs \cup {NoImg} /\ stale \subseteq Imgs
  /\ armed \in Timer \cup {NoTimer} /\ fired \subseteq Timer
  /\ sent \in [Tags -> 0 .. MaxSends]
  /\ flight \subseteq Tags \X Sends
  /\ overtaken \subseteq Tags
  /\ late \in BOOLEAN /\ moved \in BOOLEAN /\ failed \in BOOLEAN /\ unmade \in BOOLEAN

Init ==
  /\ images = <<>> /\ cap = 0 /\ selected = 0
  /\ img = NoImg
  /\ target = Gone /\ rendering = NoImg /\ stale = {} /\ armed = NoTimer /\ fired = {}
  /\ sent = [t \in Tags |-> 0] /\ flight = {} /\ overtaken = {}
  /\ late = FALSE /\ moved = FALSE /\ failed = FALSE /\ unmade = FALSE

Timers == fired \cup ({armed} \ {NoTimer})

\* Objects that nothing refers to any more, and new ones.
Fresh == Imgs \ ({images[i].img : i \in DOMAIN images} \cup {img, rendering} \cup stale
                  \cup {t.pic : t \in Timers})

\* SelectedImage of a list.
Selection(list, index) == IF index < Len(list) THEN list[index + 1].img ELSE NoImg

NewItem(i, tag) == [img |-> i, tag |-> tag, latest |-> 0, thumb |-> "none"]

\* The index of a tag, 0 if no image has it.
Find(tag) ==
  IF tag # NoTag /\ \E i \in DOMAIN images : images[i].tag = tag
  THEN CHOOSE i \in DOMAIN images : images[i].tag = tag
  ELSE 0

-----------------------------------------------------------------------------
(* Steps that several operations share.  left says that the list has left  *)
(* the array that was behind it.                                           *)

Pointer(p, left) == IF left THEN Gone ELSE p
Following(t, left) == IF t = NoTimer THEN t ELSE [t EXCEPT !.at = Pointer(@, left)]

\* Nothing is selected: thumbnailer and render stay, in the array they know.
Keep(left) ==
  /\ target' = Pointer(target, left)
  /\ armed' = Following(armed, left)
  /\ fired' = {Following(t, left) : t \in fired}
  /\ UNCHANGED <<rendering, stale>>

\* updateRenderedImage: the render in progress is cancelled.
StartRender(i) ==
  /\ Cardinality(stale) + Cardinality(Timers) < MaxPending
  /\ rendering' = i
  /\ stale' = stale \cup ({rendering} \ {NoImg})

\* Mistake: the thumbnailer of the image before stays.
ChangeSelectedImageKeepsTarget(left) ==
  /\ img' = Selection(images', selected')
  /\ failed' = FALSE /\ unmade' = FALSE
  /\ IF img' = NoImg THEN Keep(left)
     ELSE /\ StartRender(img')
          /\ target' = Pointer(target, left)
          /\ armed' = NoTimer
          /\ fired' = {Following(t, left) : t \in Timers}

\* Mistake: the thumbnailer is taken before the index changes.
ChangeSelectedImageTooEarly(left) ==
  /\ img' = Selection(images', selected')
  /\ failed' = FALSE /\ unmade' = FALSE
  /\ IF img' = NoImg THEN Keep(left)
     ELSE /\ StartRender(img')
          /\ target' = Pointer(selected + 1, left)
          /\ armed' = NoTimer
          /\ fired' = {Following(t, left) : t \in Timers}

\* changeSelectedImage.  The new thumbnailer cannot stop the timer of the old one.
ChangeSelectedImage(left) ==
  /\ img' = Selection(images', selected')
  /\ failed' = FALSE /\ unmade' = FALSE
  /\ IF img' = NoImg THEN Keep(left)
     ELSE /\ StartRender(img')
          /\ target' = selected' + 1
          /\ armed' = NoTimer
          /\ fired' = {Following(t, left) : t \in Timers}

\* append takes a new array when the old one is full.  The language leaves its
\* size open; it is at most twice the size it must have, and what exceeds the limit is never used.
Capacities(n) == {c \in n .. 2 * n : c = n \/ c <= Limit}
Full == Len(images) = cap
AppendItem(item) ==
  /\ images' = Append(images, item)
  /\ IF Full THEN cap' \in Capacities(Len(images) + 1) ELSE UNCHANGED cap
  /\ selected' = Len(images)

\* Mistake: Add does not look for the tag.
AddNewAlways(tag, latest) ==
  /\ Len(images) < Limit
  /\ \E i \in Fresh : AppendItem([NewItem(i, tag) EXCEPT !.latest = latest])

\* Mistake: the list may be longer than its limit.
AddNewNoLimit(tag, latest) ==
  /\ Find(tag) = 0
  /\ \E i \in Fresh : AppendItem([NewItem(i, tag) EXCEPT !.latest = latest])

\* Editing.Add of an image that is not in the list, if there is room.
AddNew(tag, latest) ==
  /\ Find(tag) = 0
  /\ Len(images) < Limit
  /\ \E i \in Fresh : AppendItem([NewItem(i, tag) EXCEPT !.latest = latest])

-----------------------------------------------------------------------------
(* The operations.                                                         *)

\* AddFile.  If the file cannot be loaded or the list is full, nothing changes.
AddFile(tag) ==
  /\ AddNew(tag, 0)
  /\ ChangeSelectedImage(Full)
  /\ UNCHANGED <<tagVars, excuses>>

\* AddFile of a tag that is in the list selects nothing new.
AddKnown(tag) ==
  /\ Find(tag) # 0
  /\ UNCHANGED listVars
  /\ ChangeSelectedImage(FALSE)
  /\ UNCHANGED <<tagVars, excuses>>

\* setProps: a goroutine of its own reports the state to the GUI.
Report(tag) ==
  /\ sent[tag] < MaxSends
  /\ sent' = [sent EXCEPT ![tag] = @ + 1]
  /\ flight' = flight \cup {<<tag, sent[tag] + 1>>}
  /\ UNCHANGED <<listVars, img, thumbVars, overtaken, excuses, failed, unmade>>

\* A report enters the GUI thread.
Enters(tag, n) ==
  /\ flight' = flight \ {<<tag, n>>}
  /\ overtaken' = IF \E m \in n + 1 .. sent[tag] : <<tag, m>> \notin flight
                  THEN overtaken \cup {tag} ELSE overtaken
  /\ UNCHANGED sent

\* Mistake: UpdateTagState returns when the image is in the list.
UpdateKnownNot(tag, n) ==
  /\ Find(tag) # 0
  /\ Enters(tag, n)
  /\ UNCHANGED <<listVars, img, thumbVars, excuses, failed, unmade>>

\* UpdateTagState of an image in the list.
UpdateKnown(tag, n) ==
  /\ Find(tag) # 0
  /\ Enters(tag, n)
  /\ images' = [images EXCEPT ![Find(tag)].latest = n]
  /\ UNCHANGED <<cap, selected, img, thumbVars, excuses, failed, unmade>>

\* UpdateTagState of a new image selects it and gives it the state.
UpdateNew(tag, n) ==
  /\ AddNew(tag, n)
  /\ Enters(tag, n)
  /\ ChangeSelectedImage(Full)
  /\ UNCHANGED excuses

\* The new image does not take the state: it is in the list and selected, but
\* the GUI goes on with the image before.
UpdateNewFails(tag, n) ==
  /\ AddNew(tag, 0)
  /\ Enters(tag, n)
  /\ failed' = TRUE
  /\ Keep(Full)
  /\ UNCHANGED <<img, excuses, unmade>>

\* The file cannot be loaded, or the list is full.
UpdateFails(tag, n) ==
  /\ Find(tag) = 0
  /\ Enters(tag, n)
  /\ UNCHANGED <<listVars, img, thumbVars, excuses, failed, unmade>>

\* A click on a tab.
ClickTab(index) ==
  /\ img # NoImg
  /\ index # selected /\ index < Len(images)
  /\ selected' = index
  /\ UNCHANGED <<images, cap>>
  /\ ChangeSelectedImage(FALSE)
  /\ UNCHANGED <<tagVars, excuses>>

\* Editing.Delete of the selected index.  The items behind it move, in the array.
Delete ==
  /\ images' = [i \in 1 .. Len(images) - 1 |-> images[IF i <= selected THEN i ELSE i + 1]]
  /\ selected' = IF selected = 0 THEN 0 ELSE selected - 1
  /\ UNCHANGED cap

\* Mistake: the GUI goes on with the image that it has closed.
CloseKeepsImage ==
  /\ img # NoImg
  /\ Delete
  /\ moved' = (moved \/ \E t \in Timers : t.at # Gone)
  /\ UNCHANGED <<img, thumbVars, tagVars, late, failed, unmade>>

\* The button that closes the selected image.
Close ==
  /\ img # NoImg
  /\ Delete
  /\ ChangeSelectedImage(FALSE)
  /\ moved' = (moved \/ \E t \in Timers : t.at # Gone)
  /\ UNCHANGED <<tagVars, late>>

\* The user changes layers, or takes over the latest state.
Modify ==
  /\ img # NoImg
  /\ StartRender(img)
  /\ UNCHANGED <<listVars, img, target, armed, fired, tagVars, excuses, failed, unmade>>

\* What Serialize has saved in some session: the tags, each once, and thumbnails.
Projects ==
  {p \in UNION {[1 .. n -> (Tags \cup {NoTag}) \X {"none", "own"}] : n \in 0 .. Limit} :
     \A i, j \in DOMAIN p : p[i][1] = p[j][1] /\ p[i][1] # NoTag => i = j}

\* Deserialize.  Images that cannot be loaded are left out, which leaves another
\* project.  ClearFiles is the same with an empty one.
Load(p) ==
  /\ \E ids \in Injection(DOMAIN p, Fresh) :
       images' = [i \in DOMAIN p |-> [NewItem(ids[i], p[i][1]) EXCEPT !.thumb = p[i][2]]]
  /\ cap' \in Capacities(Len(p))
  /\ selected' = IF p = <<>> THEN 0 ELSE Len(p) - 1
  /\ ChangeSelectedImage(TRUE)
  /\ UNCHANGED <<tagVars, excuses>>

-----------------------------------------------------------------------------
(* Goroutines and timers.                                                  *)

\* Thumbnailer.Update.
UpdateThumbnail(i) ==
  /\ armed' = [at |-> target, pic |-> i]
  /\ UNCHANGED fired

\* A render ends and enters the GUI thread, ...
DeliverRender ==
  /\ rendering # NoImg
  /\ UpdateThumbnail(rendering)
  /\ rendering' = NoImg
  /\ late' = (late \/ (rendering # img /\ target # Gone))
  /\ UNCHANGED <<listVars, img, target, stale, tagVars, moved, failed, unmade>>

\* ... and so may one that had ended when it was cancelled.
DeliverStale(i) ==
  /\ UpdateThumbnail(i)
  /\ stale' = stale \ {i}
  /\ late' = (late \/ (i # img /\ target # Gone))
  /\ UNCHANGED <<listVars, img, target, rendering, tagVars, moved, failed, unmade>>

AbortRender(i) ==
  /\ stale' = stale \ {i}
  /\ UNCHANGED <<listVars, img, target, rendering, armed, fired, tagVars, excuses, failed, unmade>>

\* The timer makes the thumbnail in a goroutine of its own.
Fire ==
  /\ armed # NoTimer
  /\ fired' = fired \cup {armed} /\ armed' = NoTimer
  /\ UNCHANGED <<listVars, img, target, rendering, stale, tagVars, excuses, failed, unmade>>

\* The goroutine enters the GUI thread and writes through its pointer.
DeliverThumbnail(t) ==
  /\ fired' = fired \ {t}
  /\ images' = IF t.at \notin DOMAIN images THEN images
               ELSE [images EXCEPT ![t.at].thumb = IF images[t.at].img = t.pic THEN "own" ELSE "other"]
  /\ UNCHANGED <<cap, selected, img, target, rendering, stale, armed>>
  /\ UNCHANGED <<tagVars, excuses, failed, unmade>>

\* makeThumbnail fails: the tab keeps the thumbnail that it has, or none.
ThumbnailFails(t) ==
  /\ fired' = fired \ {t}
  /\ unmade' = (unmade \/ (t.pic = img /\ images[selected + 1].thumb # "own"))
  /\ UNCHANGED <<listVars, img, target, rendering, stale, armed, tagVars, excuses, failed>>

Reported(tag, n) ==
  UpdateKnown(tag, n) \/ UpdateNew(tag, n) \/ UpdateNewFails(tag, n) \/ UpdateFails(tag, n)

Next ==
  \/ \E tag \in Tags \cup {NoTag} : AddFile(tag) \/ AddKnown(tag)
  \/ \E tag \in Tags : Report(tag)
  \/ \E r \in flight : Reported(r[1], r[2])
  \/ \E index \in 0 .. Limit - 1 : ClickTab(index)
  \/ Close \/ Modify
  \/ \E p \in Projects : Load(p)
  \/ DeliverRender \/ Fire
  \/ \E i \in stale : DeliverStale(i) \/ AbortRender(i)
  \/ \E t \in fired : DeliverThumbnail(t) \/ ThumbnailFails(t)

Spec == Init /\ [][Next]_vars

-----------------------------------------------------------------------------
(* Properties.                                                             *)

\* The GUI edits the image that the list has selected, whatever has been added,
\* closed and loaded, unless a report could not set the state of a new image.
EditedIsSelected == ~failed => img = Selection(images, selected)

\* While there are images, one is selected.
OneIsSelected == images # <<>> => selected < Len(images)

\* A tag names one image: reports of AviUtl go to that one.
TagsUnique ==
  \A i, j \in DOMAIN images : images[i].tag = images[j].tag /\ images[i].tag # NoTag => i = j

\* A pointer into the array shows its own image: only a list whose items have
\* moved under a timer, or a render that ends for another image than the
\* selected one, can put a thumbnail on the wrong tab.
ThumbnailsAreOwn == ~late /\ ~moved => \A i \in DOMAIN images : images[i].thumb # "other"

Quiet == rendering = NoImg /\ stale = {} /\ Timers = {}

\* When all goroutines and timers have ended, the selected image has its thumbnail, unless
\* it could not be made: the pointer is never left behind in an old array.
SelectedHasThumbnail ==
  Quiet /\ img # NoImg /\ ~late /\ ~moved /\ ~failed /\ ~unmade => images[selected + 1].thumb = "own"

\* The latest state of an image is the last one AviUtl has reported, unless one
\* report has overtaken another on its way.
LatestIsLast ==
  \A i \in DOMAIN images :
    LET tag == images[i].tag IN
    tag \in Tags \ overtaken /\ (\A n \in Sends : <<tag, n>> \notin flight) =>
      images[i].latest \in {0, sent[tag]}
=============================================================================
