----------------------------- MODULE Rendering ------------------------------
(***************************************************************************)
(* One PSD object in frame after frame: PSDState:render of PSDToolKit.lua  *)
(* with setProps and draw of ipc.go.  Three caches decide what is seen:    *)
(* the buffer that AviUtl keeps under cacheid, the key that Lua keeps with *)
(* it, and the temporary image of PSDToolKit.exe, which says whether it    *)
(* was modified since it was rendered.  They are written one after the     *)
(* other, and the process may end or fail between any two of the steps.    *)
(***************************************************************************)
EXTENDS SubObjects

VARIABLES
  pc,       \* where PSDState:render is
  asked,    \* the state that this frame asks for: layers, scale and offsets
  modified, \* what setprops returned
  pic,      \* the picture that was drawn
  buffer,   \* obj.copybuffer's buffer of this cacheid
  cachekey, \* PSDState.cachekeys[cacheid]
  image,    \* the temporary image: [state, modified], or NoImage
  rendered, \* ipc.cache: states rendered in the last minute
  shown,    \* what the frame shows
  forgot,   \* history: PSDToolKit.exe has lost the image since the buffer was written
  torn,     \* history: it lost the image between setprops and draw: the buffer has the initial state
  unput     \* history: a picture was drawn and not stored, and no other one since

luaVars == <<asked, modified, pic, shown>>
cacheVars == <<buffer, cachekey>>
childVars == <<image, rendered>>
excuses == <<forgot, torn, unput>>
vars == <<states, puts, pc, luaVars, cacheVars, childVars, excuses>>

States == [1 .. Effects -> Values]
Initial == [k \in 1 .. Effects |-> Unused]
None == <<>>
NoImage == [state |-> Initial, modified |-> FALSE, loaded |-> FALSE]
Images == [state : States, modified : BOOLEAN, loaded : {TRUE}]

TypeOK ==
  /\ SubTypeOK
  /\ pc \in {"objects", "setprops", "choose", "draw", "putcache", "copy", "done", "failed"}
  /\ asked \in States /\ modified \in BOOLEAN
  /\ {pic, buffer, cachekey, shown} \subseteq States \cup {None}
  /\ image \in Images \cup {NoImage} /\ rendered \subseteq States
  /\ forgot \in BOOLEAN /\ torn \in BOOLEAN /\ unput \in BOOLEAN

Init ==
  /\ SubInit /\ pc = "objects"
  /\ asked = Initial /\ modified = FALSE /\ pic = None /\ shown = None
  /\ buffer = None /\ cachekey = None
  /\ image = NoImage /\ rendered = {}
  /\ forgot = FALSE /\ torn = FALSE /\ unput = FALSE

-----------------------------------------------------------------------------
(* The frame.                                                              *)

Idle == pc \in {"objects", "done", "failed"}

NextFrame ==
  /\ Idle /\ NextIndex /\ pc' = "objects"
  /\ asked' = Initial /\ modified' = FALSE /\ pic' = None /\ shown' = None
  /\ UNCHANGED <<cacheVars, childVars, excuses>>

\* A prep object, on a layer above or below that of the PSD object.
PutValue ==
  /\ Idle /\ \E s \in SlotSet, v \in Values : Put(s, v)
  /\ UNCHANGED <<pc, luaVars, cacheVars, childVars, excuses>>

\* PSDState.init and the effects of the object.
Read ==
  /\ pc = "objects" /\ pc' = "setprops"
  /\ asked' = Asked /\ states' = Marked
  /\ UNCHANGED <<puts, modified, pic, shown, cacheVars, childVars, excuses>>

\* Temporary.Load
Loaded == [image EXCEPT !.loaded = TRUE]

\* Mistake: only this change counts, not the one that has yet to be rendered.
SetPropsForgets ==
  /\ pc = "setprops" /\ pc' = "choose"
  /\ modified' = (Loaded.state # asked)
  /\ image' = [Loaded EXCEPT !.state = asked, !.modified = modified']
  /\ UNCHANGED <<states, puts, asked, pic, shown, cacheVars, rendered, excuses>>

\* setProps: modified since it was rendered, or by this call.
SetProps ==
  /\ pc = "setprops" /\ pc' = "choose"
  /\ modified' = (Loaded.modified \/ Loaded.state # asked)
  /\ image' = [Loaded EXCEPT !.state = asked, !.modified = modified']
  /\ UNCHANGED <<states, puts, asked, pic, shown, cacheVars, rendered, excuses>>

\* The buffer of this cacheid is taken when the picture cannot have changed.
Reuse ==
  /\ pc = "choose" /\ pc' = "done"
  /\ (~modified \/ cachekey = asked)
  /\ buffer # None /\ shown' = buffer
  /\ UNCHANGED <<states, puts, asked, modified, pic, cacheVars, childVars, excuses>>

\* luafn_getcache never succeeds, so the image is drawn when there is no buffer.
Redraw ==
  /\ pc = "choose" /\ pc' = "draw"
  /\ ((modified /\ cachekey # asked) \/ buffer = None)
  /\ UNCHANGED <<states, puts, luaVars, cacheVars, childVars, excuses>>

\* draw: what ipc.cache has is not rendered, and the image stays modified.
Draw ==
  /\ pc = "draw" /\ pc' = "putcache" /\ pic' = Loaded.state
  /\ image' = [Loaded EXCEPT !.modified = @ /\ Loaded.state \in rendered]
  /\ rendered' = rendered \cup {Loaded.state}
  /\ forgot' = FALSE
  /\ UNCHANGED <<states, puts, asked, modified, shown, cacheVars, torn, unput>>

PutCache ==
  /\ pc = "putcache" /\ pc' = "copy"
  /\ UNCHANGED <<states, puts, luaVars, cacheVars, childVars, excuses>>

\* luafn_putcache raises an error: the picture is neither shown nor kept.
PutCacheFails ==
  /\ pc = "putcache" /\ pc' = "failed"
  /\ unput' = TRUE
  /\ UNCHANGED <<states, puts, luaVars, cacheVars, childVars, forgot, torn>>

\* The picture is shown, kept as the buffer, and its key with it.
Copy ==
  /\ pc = "copy" /\ pc' = "done"
  /\ buffer' = pic /\ shown' = pic /\ cachekey' = asked
  /\ torn' = (pic # asked) /\ unput' = FALSE
  /\ UNCHANGED <<states, puts, asked, modified, pic, childVars, forgot>>

\* setprops or draw fails: Lua raises an error, the frame shows nothing of the image.
CallFails ==
  /\ pc \in {"setprops", "draw"} /\ pc' = "failed"
  /\ UNCHANGED <<states, puts, luaVars, cacheVars, childVars, excuses>>

-----------------------------------------------------------------------------
(* What happens around it.                                                 *)

\* The process ends; the next call starts another one.
Crash ==
  /\ image' = NoImage /\ rendered' = {} /\ forgot' = TRUE
  /\ UNCHANGED <<states, puts, pc, luaVars, cacheVars, torn, unput>>

\* The ticker, when nothing was drawn for ten minutes, or for one.
CollectImage ==
  /\ Idle /\ image' = NoImage /\ rendered' = {} /\ forgot' = TRUE
  /\ UNCHANGED <<states, puts, pc, luaVars, cacheVars, torn, unput>>
CollectRendered ==
  /\ Idle /\ rendered' = {}
  /\ UNCHANGED <<states, puts, pc, luaVars, cacheVars, image, excuses>>

\* AviUtl drops its buffers.
DropBuffer ==
  /\ Idle /\ buffer' = None
  /\ UNCHANGED <<states, puts, pc, luaVars, cachekey, childVars, excuses>>

Next ==
  \/ NextFrame \/ PutValue \/ Read \/ SetProps \/ Reuse \/ Redraw \/ Draw
  \/ PutCache \/ PutCacheFails \/ Copy \/ CallFails
  \/ Crash \/ CollectImage \/ CollectRendered \/ DropBuffer

Spec == Init /\ [][Next]_vars

-----------------------------------------------------------------------------
\* What a frame shows is the state it asks for, whichever of the caches it comes from.
\* The code breaks that in three cases, until another state is asked for: the process
\* has lost the image, which then looks unmodified in its initial state; it has lost it
\* between setprops and draw, and the key is that of a picture nobody drew; putcache has
\* failed after the image was rendered, so nothing says that the buffer is older.
PictureIsAsked ==
  /\ TypeOK
  /\ pc = "done" /\ shown # asked =>
       \/ forgot /\ asked = Initial
       \/ torn /\ asked = cachekey
       \/ unput

\* A frame reads what its own objects have put, as often as they put it, and nothing that
\* an earlier frame has read.  The code breaks that for a holder nobody has read yet.
ReadsThisFrame ==
  [][pc = "objects" /\ pc' = "setprops" /\ LeftOver = {} => asked' = Expected]_vars
=============================================================================
