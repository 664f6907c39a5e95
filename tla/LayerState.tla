------------------------------ MODULE LayerState ----------------------------
(***************************************************************************)
(* Which layers of a PSD file are visible: img/layerstate.go and           *)
(* img/layermgr.go.  The module follows one image: the one that the user   *)
(* edits, or the one that AviUtl has drawn from a state string.            *)
(***************************************************************************)
EXTENDS LayerManager

VARIABLES
  names,   \* what the LayerManager has derived from the names of its file
  role,    \* "edited": the image of the GUI; "drawn": the temporary image of a PSD object
  synced,  \* SyncedMap
  initial, \* InitialLayerState of the source: the visible layers
  lm,      \* the LayerManager: visible layers, flip, and whether the operation modified them
  last     \* history: the last operation that changed something

layerVars == <<names, role, synced, initial, lm, last>>

Layers == names.layers

LayerTypes ==
  /\ names \in Managers /\ role \in {"edited", "drawn"} /\ synced \in names.synced
  /\ initial \subseteq Layers
  /\ lm \in [vis : SUBSET Layers, flip : Flips, modified : {FALSE}]
  /\ last \in {"new", "click", "flip", "string", "mirror", "reload"}

-----------------------------------------------------------------------------
(* layerStates: visible layers with priorities; now is the newest.         *)

NewLayerStates(m) == [vis |-> m.vis, pri |-> [l \in Layers |-> 0], now |-> 0, flip |-> m.flip]

Increment(ls) == [ls EXCEPT !.now = @ + 1]

\* The layers of S become visible or hidden.
Set(ls, S, v) ==
  [vis |-> IF v THEN ls.vis \cup S ELSE ls.vis \ S,
   pri |-> [l \in Layers |-> IF l \in S THEN ls.now ELSE ls.pri[l]],
   now |-> ls.now, flip |-> ls.flip]

\* setVisible: the twin follows.
SetOne(ls, l, v) == Set(ls, synced[l], v)

\* Mistake: the first visible layer stays, whichever was set last.
KeptFirst(ls, g) == IF g \cap ls.vis = {} THEN Max(g) ELSE Min(g \cap ls.vis)

\* The layer of a group that stays visible: the first of the highest priority.
Kept(ls, g) ==
  LET on == g \cap ls.vis
  IN IF on = {} THEN Max(g) ELSE Min({l \in on : \A k \in on : ls.pri[k] <= ls.pri[l]})

\* Mistake: the layers are shown and the others are not hidden.
NormalizeGroupsAdds(ls) == Set(ls, {Kept(ls, g) : g \in names.groups}, TRUE)

\* normalizeGroup for every group; no layer is in two of them.
NormalizeGroups(ls) ==
  Set(Set(ls, names.radio \cap ls.vis, FALSE), {Kept(ls, g) : g \in names.groups}, TRUE)

\* The side of a pair that a flip shows.  processed lets a pair pass once, in the first
\* map it is in: it shows its mirror for the first of its axes only.
To(pair, flip) == IF flip = Min(pair.axes) THEN pair.mirror ELSE pair.original
From(pair, flip) == IF flip = Min(pair.axes) THEN pair.original ELSE pair.mirror

\* Mistake: a pair is switched only when the layer to hide is visible.
ShowSideOnce(ls, pair) ==
  LET to == To(pair, ls.flip)
      from == From(pair, ls.flip)
  IN IF from \in ls.vis /\ to \notin ls.vis THEN [ls EXCEPT !.vis = (@ \ {from}) \cup {to}] ELSE ls

\* One pair of setFlipOne, with copyStateRecursive.
ShowSide(ls, pair) ==
  LET to == To(pair, ls.flip)
      from == From(pair, ls.flip)
      copied == {l \in DOMAIN pair.twin : to \in names.above[l]}
      on == {l \in copied : pair.twin[l] \in ls.vis}
      changed == {l \in copied : (l \in on) # (l \in ls.vis)}
  IN IF {from, to} \cap ls.vis = {} THEN ls
     ELSE [vis |-> (ls.vis \ (copied \cup {from})) \cup on \cup {to},
           pri |-> [[l \in Layers |-> IF l \in changed THEN ls.now ELSE ls.pri[l]]
                    EXCEPT ![from] = Min({ls.pri[from], ls.pri[to]}),
                           ![to] = Max({ls.pri[from], ls.pri[to]})],
           now |-> ls.now, flip |-> ls.flip]

\* setFlipOne for the three maps.
ShowSides(ls, visit) ==
  LET pass[i \in 0 .. Len(visit)] == IF i = 0 THEN ls ELSE ShowSide(pass[i - 1], visit[i])
  IN pass[Len(visit)]

SetFlip(ls, flip, visit) == ShowSides(Increment([ls EXCEPT !.flip = flip]), visit)

Normalize(ls, visit) ==
  LET forced == Set(Increment(ls), names.forced, TRUE)
      grouped == NormalizeGroups(Increment(forced))
  IN SetFlip(Increment(grouped), ls.flip, visit)

Apply(m, ls, visit) ==
  LET new == Normalize(ls, visit)
  IN [vis |-> new.vis, flip |-> new.flip, modified |-> m.modified \/ new.vis # m.vis]

\* Go ranges over its maps in another order each time: what may come of one pass.  What
\* makes several passes takes every outcome of each of them.
Turned(ls, flip) == {SetFlip(ls, flip, visit) : visit \in names.visits}
Applied(m, ls) == {Apply(m, ls, visit) : visit \in names.visits}

-----------------------------------------------------------------------------
(* State strings: sequences of "L.", "V.", "v0." or "v1." and favorites.   *)

\* "v1." shows the folders of the layer as well.
SetNamed(ls, l, on) ==
  Set(ls, UNION {synced[k] : k \in {l} \cup IF on THEN names.above[l] ELSE {}}, on)

\* A favorite sets layers in flat order: of two that are synchronised the last one counts.
SetFavorite(ls, pass) ==
  LET Last(l) == Max({k \in DOMAIN pass : l \in synced[k]})
      set == UNION {synced[k] : k \in DOMAIN pass}
      on == {l \in set : pass[Last(l)]}
  IN Set(Set(ls, on, TRUE), set \ on, FALSE)

Param(ls, param) ==
  CASE param.op = "L" -> Turned(ls, param.flip)
    [] param.op = "V" -> {Set(Set(Increment(ls), Layers, FALSE), param.vis, TRUE)}
    [] param.op = "v" -> {SetNamed(Increment(ls), param.layer, param.on)}
    [] param.op = "F" -> {SetFavorite(Increment(ls), param.pass)}

Params(ls, params) ==
  LET after[i \in 0 .. Len(params)] ==
        IF i = 0 THEN {ls} ELSE UNION {Param(s, params[i]) : s \in after[i - 1]}
  IN after[Len(params)]

Deserialize(m, params) ==
  {[new EXCEPT !.modified = @ \/ new.flip # m.flip] :
     new \in UNION {Applied(m, ls) : ls \in Params(NewLayerStates(m), params)}}

Serialize(m) == <<[op |-> "L", flip |-> m.flip], [op |-> "V", vis |-> m.vis]>>

\* setProps
Drawn(m, params) == Deserialize(m, <<[op |-> "V", vis |-> initial]>> \o params)

SetVisible(m, l, v) == Applied(m, SetOne(Increment(NewLayerStates(m)), l, v))

\* The siblings that are no radio buttons are hidden, with their twins.
SetVisibleExclusive(m, l, v) ==
  LET others == IF l \in names.radio THEN {} ELSE names.siblings[l] \ (names.radio \cup {l})
      hidden == Set(Increment(NewLayerStates(m)), UNION {synced[k] : k \in others}, FALSE)
  IN Applied(m, SetOne(hidden, l, v))

\* Mistake: an image is normalised only by the operation itself.
SettleNot(m) == {m}

\* update: an image that an operation has modified is normalised once more.
Settle(m) == IF m.modified THEN Applied(m, NewLayerStates(m)) ELSE {m}

\* layoutLayer: the folders that hold the layer are shown as well, the innermost first.
Clicked(m, l, ctrl) ==
  LET first == IF ctrl THEN SetVisibleExclusive(m, l, l \notin m.vis) ELSE SetVisible(m, l, l \notin m.vis)
      opened[i \in 0 .. l - 1] ==
        IF i = 0 THEN first
        ELSE IF l - i \in names.above[l] THEN UNION {SetVisible(s, l - i, TRUE) : s \in opened[i - 1]}
        ELSE opened[i - 1]
  IN UNION {Settle(s) : s \in opened[l - 1]}

-----------------------------------------------------------------------------
(* The operations.                                                         *)

New(vis) ==
  LET m == [vis |-> vis, flip |-> FlipNone, modified |-> FALSE]
  IN Applied(m, NewLayerStates(m))

\* Sources.load normalises the file twice, Sources.NewImage a clone of it once more.
LayerInit ==
  /\ names \in Managers /\ role \in {"edited", "drawn"} /\ synced \in names.synced
  /\ \E raw \in SUBSET Layers : \E first \in New(raw) : \E second \in New(first.vis) :
       /\ initial = second.vis
       /\ \E clone \in New(initial) : lm = [clone EXCEPT !.modified = FALSE]
  /\ last = "new"

Becomes(m, op) ==
  /\ lm' = [m EXCEPT !.modified = FALSE]
  /\ last' = IF lm' = lm THEN last ELSE op
  /\ UNCHANGED <<names, role, synced, initial>>

\* A layer that is forced takes no click.
Click(ctrl) ==
  /\ role = "edited"
  /\ \E l \in Layers \ names.forced : \E m \in Clicked(lm, l, ctrl) : Becomes(m, "click")

Toggled(axis) == IF lm.flip \in {axis, 3} THEN lm.flip - axis ELSE lm.flip + axis

\* SetFlipX and SetFlipY, which always count as a modification.
Flipped(m, axis) ==
  LET new == UNION {Applied(m, ls) : ls \in Turned(NewLayerStates(m), Toggled(axis))}
  IN UNION {Settle([s EXCEPT !.modified = TRUE]) : s \in new}

Flip(axis) == role = "edited" /\ \E m \in Flipped(lm, axis) : Becomes(m, "flip")

Switches == [op : {"v"}, layer : Layers, on : BOOLEAN]
Favorite(l, k) == [op |-> "F", pass |-> [i \in {l, k} |-> i = l]]
Favorites == UNION {{Favorite(l, k) : k \in names.siblings[l]} : l \in Layers}
Strings == {<<[op |-> "L", flip |-> f]>> : f \in Flips} \cup
           {<<[op |-> "L", flip |-> f], p>> : f \in Flips, p \in Switches \cup Favorites}

\* What a string shows: what it names, and the last radio button of a folder when it hides one.
\* It names a mirror when that is one, or is below one.
Fallbacks(S) == {Max(g) : g \in {h \in names.groups : h \cap S # {}}}
Shows(param) ==
  CASE param.op = "v" -> IF param.on THEN {param.layer} ELSE Fallbacks({param.layer})
    [] param.op = "F" -> LET on == {l \in DOMAIN param.pass : param.pass[l]}
                         IN on \cup Fallbacks(DOMAIN param.pass \ on)
    [] OTHER -> {}
Names(s) == IF \E i \in DOMAIN s, l \in Layers, pair \in names.pairs :
                  l \in Shows(s[i]) /\ pair.mirror \in {l} \cup names.above[l]
            THEN "mirror" ELSE "string"

\* loadEditingImage: what a PSD object has drawn last.
TakeOver ==
  /\ role = "edited"
  /\ \E s \in Strings : \E drawn \in Drawn(lm, s) : \E new \in Deserialize(lm, Serialize(drawn)) :
       \E m \in Settle(new) : Becomes(m, Names(s))

\* selectFavoriteNode, selectFaviewNode
SelectFavorite ==
  /\ role = "edited"
  /\ \E p \in Favorites : \E new \in Deserialize(lm, <<p>>) : \E m \in Settle(new) : Becomes(m, Names(<<p>>))

\* The project is saved and loaded: DeserializeSafe sets what was visible, nothing else.
Reload == role = "edited" /\ Becomes([lm EXCEPT !.flip = FlipNone], "reload")

DrawString ==
  /\ role = "drawn"
  /\ \E s \in Strings : \E m \in Drawn(lm, s) : Becomes(m, Names(s))

LayerNext ==
  \/ \E ctrl \in BOOLEAN : Click(ctrl)
  \/ \E axis \in {1, 2} : Flip(axis)
  \/ TakeOver \/ SelectFavorite \/ Reload \/ DrawString

LayerSpec == LayerInit /\ [][LayerNext]_layerVars

-----------------------------------------------------------------------------
(* Properties.  Most hold for files whose names the code can do justice to; *)
(* what else a file may have is a fault of the code, and is named here.    *)

\* Pairs inside pairs: the result depends on the order of the maps.
Nested(pair) == \E p \in names.pairs : {p.original, p.mirror} \cap names.above[pair.original] # {}

\* A pair for two axes: it shows its mirror for one.  Several mirrors of a forced layer: each
\* is visible when its map comes, and shows the original again.
Odd(pair) ==
  \/ Nested(pair) \/ Cardinality(pair.axes) > 1
  \/ pair.original \in names.forced /\ \E p \in names.pairs : p # pair /\ p.original = pair.original

\* A mirror of a folder that lacks some of its radio buttons, or has others: what is copied
\* does not fit.  A group is whole when it belongs to a family that is copied completely.
Whole(g) ==
  \E family \in SUBSET names.groups :
    /\ g \in family
    /\ \A h \in family, pair \in names.pairs :
         h \cap DOMAIN pair.twin # {} =>
           h \subseteq DOMAIN pair.twin /\ {pair.twin[l] : l \in h} \in family

\* Two pairs of a map that have layers in common: either may come first.
Orderly ==
  \A p, q \in names.pairs :
    p # q /\ Min(p.axes) = Min(q.axes) =>
      ({p.original, p.mirror} \cup DOMAIN p.twin) \cap ({q.original, q.mirror} \cup DOMAIN q.twin) = {}

\* A layer below several pairs is synchronised with one of its twins only.  A layer without a
\* twin below a mirror, or below what has one, is not there after a flip.
Regular ==
  /\ \A p, q \in names.pairs : p # q => DOMAIN p.twin \cap DOMAIN q.twin = {}
  /\ \A pair \in names.pairs, l \in Layers :
       {pair.original, pair.mirror} \cap names.above[l] # {} => l \in DOMAIN pair.twin

\* A layer is seen when it, or what replaces it, is visible with all its folders.
Seen(m, l) == \E k \in names.aliases[l] : {k} \cup names.above[k] \subseteq m.vis

\* Of the radio buttons of a folder exactly one is visible, whatever is clicked, flipped
\* (which copies layers between folders), taken over, drawn or loaded.
RadioShowsOne == LayerTypes /\ \A g \in names.groups : Whole(g) => \E l \in g : g \cap lm.vis = {l}

\* Of a layer and its mirror the one that does not go with the flip is hidden, also after a
\* flip from one axis to another.  Two things break that: a drawn string that names the
\* mirror of another axis, and a project, which keeps the mirrors and not the flip.
FlipShown ==
  last = "reload" \/ (role = "drawn" /\ last = "mirror") \/
    \A pair \in names.pairs :
      Odd(pair) \/ (IF lm.flip \in pair.axes THEN pair.original ELSE pair.mirror) \notin lm.vis

\* What is sent to AviUtl is drawn there as the window shows it, in whatever order each
\* pass ranges over a map with several pairs; only a loaded project may show what nothing would draw.
SendsWhatIsShown ==
  role = "edited" /\ last # "reload" /\ Orderly =>
    \A m \in Drawn(lm, Serialize(lm)) : m.vis = lm.vis

\* A layer that is hidden is seen after a click on it, and with Ctrl no sibling is but
\* radio buttons and forced ones.
ClickShows ==
  role = "edited" /\ Regular => \A l \in Layers \ names.forced, ctrl \in BOOLEAN :
    ~Seen(lm, l) /\ l \notin lm.vis => \A m \in Clicked(lm, l, ctrl) :
      /\ Seen(m, l)
      /\ ctrl => \A k \in names.siblings[l] \cap m.vis :
                   k \in names.radio \cup names.forced \/ l \in names.radio \/ k \in names.aliases[l]

\* A flip changes which side of a pair is visible and nothing of what is seen.
FlipKeeps ==
  role = "edited" /\ Regular /\ last # "reload" =>
    \A axis \in {1, 2} : \A m \in Flipped(lm, axis) : \A l \in Layers : Seen(m, l) <=> Seen(lm, l)

=============================================================================
