-------------------------- MODULE Rendering_proofs --------------------------
(***************************************************************************)
(* What a frame shows and what it reads, for any slots, effects and number *)
(* of values.                                                              *)
(***************************************************************************)
EXTENDS Rendering, LayerState, FiniteSetTheorems, SequenceTheorems, WellFoundedInduction, TLAPS

\* A holder of this frame has the values that were put in this frame, and no other slot
\* got one.  Before the PSD object reads, no holder has been read in this frame.
HoldersMatch ==
  \A s \in SlotSet :
    /\ IF states[s].created = "now" THEN states[s].used # "before" /\ states[s].values = puts[s]
                                    ELSE puts[s] = <<>>
    /\ pc = "objects" => states[s].used # "now"

\* The buffer has the picture of its key, unless that was drawn by a process that had
\* lost the image.
KeyIsOfBuffer == buffer = None \/ buffer = cachekey \/ torn

\* A picture that is not stored yet is that of the image, unless the image was lost since.
Lost == forgot /\ image.state = Initial
PicIsOfImage == pc \in {"putcache", "copy"} => pic = image.state \/ Lost

\* An image that was not modified since it was rendered is in the buffer.
BufferIsOfImage ==
  pc \notin {"putcache", "copy"} /\ ~image.modified =>
    buffer = None \/ buffer = image.state \/ Lost \/ unput

\* setprops has said whether the buffer may be used.
ChoiceIsRight ==
  pc = "choose" /\ ~modified =>
    buffer = None \/ buffer = asked \/ (forgot /\ asked = Initial) \/ unput

\* What is shown, as in PictureIsAsked.
Shown ==
  pc = "done" /\ shown # asked =>
    \/ forgot /\ asked = Initial
    \/ torn /\ asked = cachekey
    \/ unput

Inv == TypeOK /\ HoldersMatch /\ KeyIsOfBuffer /\ PicIsOfImage /\ BufferIsOfImage /\ ChoiceIsRight /\ Shown

-----------------------------------------------------------------------------
(* Types.                                                                  *)

\* Every set of positions has a first one.
LEMMA FirstIsIn ==
  ASSUME NEW has \in SUBSET Nat, has # {}
  PROVE  Min(has) \in has /\ \A y \in has : Min(has) <= y
<1>1. PICK x \in has : \A y \in has : ~(<<y, x>> \in OpToRel(<, Nat))
  BY NatLessThanWellFounded, WFMin
<1>2. \A y \in has : x <= y
  <2> SUFFICES ASSUME NEW y \in has, y < x PROVE FALSE
    OBVIOUS
  <2>1. <<y, x>> \in OpToRel(<, Nat)
    BY DEF OpToRel
  <2> QED
    BY <1>1, <2>1
<1> QED
  BY <1>2 DEF Min

ValueLists == UNION {[1 .. n -> Values] : n \in 0 .. MaxPuts}

LEMMA GivenType ==
  ASSUME NEW lists, DOMAIN lists \subseteq Nat, \A i \in DOMAIN lists : lists[i] \in ValueLists, NEW k
  PROVE  Given(lists, k) \in Values
<1> DEFINE has == {i \in DOMAIN lists : k \in DOMAIN lists[i] /\ lists[i][k] # Unused}
<1>1. CASE has = {}
  BY <1>1 DEF Given, Values
<1>2. CASE has # {}
  <2>1. Min(has) \in has
    BY <1>2, FirstIsIn
  <2>2. lists[Min(has)][k] \in Values
    BY <2>1 DEF ValueLists
  <2> QED
    BY <1>2, <2>2 DEF Given
<1> QED
  BY <1>1, <1>2

LEMMA EmptyList == <<>> \in ValueLists
<1>1. <<>> \in [1 .. 0 -> Values] /\ 0 \in 0 .. MaxPuts
  BY SubObjectsAssumption
<1> QED
  BY <1>1 DEF ValueLists

LEMMA ListsTyped ==
  ASSUME SubTypeOK, NEW s \in SlotSet
  PROVE  puts[s] \in ValueLists /\ states[s].values \in ValueLists
<1>1. puts[s] \in ValueLists
  BY DEF SubTypeOK, ValueLists
<1>2. CASE states[s] = NoHolder
  BY <1>1, <1>2, EmptyList DEF NoHolder
<1>3. CASE states[s] \in Holders
  <2>1. PICK n \in 1 .. MaxPuts : states[s].values \in [1 .. n -> Values]
    BY <1>3 DEF Holders
  <2>2. n \in 0 .. MaxPuts
    OBVIOUS
  <2> QED
    BY <1>1, <2>1, <2>2 DEF ValueLists
<1> QED
  BY <1>2, <1>3 DEF SubTypeOK

LEMMA AskedType ==
  ASSUME SubTypeOK
  PROVE  Asked \in States
<1> DEFINE lists == [i \in DOMAIN Slots |-> IF Alive(Slots[i]) THEN states[Slots[i]].values ELSE <<>>]
<1>1. DOMAIN lists \subseteq Nat
  BY SubObjectsAssumption
<1>3. \A i \in DOMAIN lists : lists[i] \in ValueLists
  BY EmptyList, ListsTyped DEF SlotSet
<1> HIDE DEF lists
<1>4. \A k : Given(lists, k) \in Values
  BY <1>1, <1>3, GivenType
<1> QED
  BY <1>4 DEF Asked, States, lists

\* A value more in a list that is not full.
LEMMA OneMore ==
  ASSUME NEW list \in ValueLists, Len(list) < MaxPuts, NEW v \in Values
  PROVE  /\ Append(list, v) \in UNION {[1 .. n -> Values] : n \in 1 .. MaxPuts}
         /\ Append(list, v) \in ValueLists
<1>1. PICK n \in 0 .. MaxPuts : list \in [1 .. n -> Values]
  BY DEF ValueLists
<1>2. n \in Nat /\ MaxPuts \in Nat /\ list \in Seq(Values) /\ Len(list) = n
  BY <1>1, SubObjectsAssumption
<1>3. n + 1 \in 1 .. MaxPuts /\ n + 1 \in 0 .. MaxPuts
  BY <1>2
<1>4. Append(list, v) \in Seq(Values) /\ Len(Append(list, v)) = n + 1
  BY <1>2
<1>5. Append(list, v) \in [1 .. n + 1 -> Values]
  BY <1>4, LenProperties
<1> QED
  BY <1>3, <1>5 DEF ValueLists

LEMMA PutKeeps ==
  ASSUME SubTypeOK, HoldersMatch, PutValue
  PROVE  SubTypeOK' /\ HoldersMatch'
<1>1. PICK s \in SlotSet, v \in Values : Put(s, v)
  BY DEF PutValue
<1>2. /\ Len(puts[s]) < MaxPuts /\ pc' = pc
      /\ puts' = [puts EXCEPT ![s] = Append(puts[s], v)]
  BY <1>1 DEF Put, PutValue
<1>3. states' = [states EXCEPT ![s] = IF states[s].created # "now"
                  THEN [created |-> "now", used |-> "never", values |-> <<v>>]
                  ELSE [states[s] EXCEPT !.values = Append(states[s].values, v)]]
  BY <1>1 DEF Put
<1>4. /\ puts \in [SlotSet -> ValueLists] /\ states \in [SlotSet -> Holders \cup {NoHolder}]
  BY DEF SubTypeOK, ValueLists
<1>5. Append(puts[s], v) \in ValueLists /\ Append(puts[s], v) \in UNION {[1 .. n -> Values] : n \in 1 .. MaxPuts}
  BY <1>2, <1>4, OneMore
<1>6. states[s].created # "now" => Append(puts[s], v) = <<v>>
  <2>1. Append(<<>>, v) = <<v>>
    OBVIOUS
  <2> QED
    BY <2>1 DEF HoldersMatch
<1>7. /\ states'[s].created = "now" /\ states'[s].used \in {"never", "now"} /\ states'[s].values = Append(puts[s], v)
      /\ states'[s] \in Holders /\ (states'[s].used = "now" => states[s].used = "now")
  <2>1. CASE states[s].created # "now"
    BY <1>3, <1>4, <1>5, <1>6, <2>1 DEF Holders
  <2>2. CASE states[s].created = "now"
    <3>1. states[s].values = puts[s] /\ states[s].used # "before" /\ states[s] \in Holders
      BY <1>4, <2>2 DEF HoldersMatch, NoHolder
    <3>2. states'[s] = [states[s] EXCEPT !.values = Append(puts[s], v)]
      BY <1>3, <1>4, <2>2, <3>1
    <3> QED
      BY <1>5, <2>2, <3>1, <3>2 DEF Holders
  <2> QED
    BY <2>1, <2>2
<1>8. /\ puts'[s] = Append(puts[s], v)
      /\ \A t \in SlotSet \ {s} : puts'[t] = puts[t] /\ states'[t] = states[t]
  BY <1>2, <1>3, <1>4
<1>9. SubTypeOK'
  <2>1. puts' \in [SlotSet -> ValueLists]
    BY <1>2, <1>4, <1>5
  <2>2. states' \in [SlotSet -> Holders \cup {NoHolder}]
    BY <1>3, <1>4, <1>7, <1>8
  <2> QED
    BY <2>1, <2>2 DEF SubTypeOK, ValueLists
<1>10. HoldersMatch'
  BY <1>2, <1>7, <1>8 DEF HoldersMatch
<1> QED
  BY <1>9, <1>10

LEMMA NextKeeps ==
  ASSUME SubTypeOK, HoldersMatch, NextFrame
  PROVE  SubTypeOK' /\ HoldersMatch'
<1>1. /\ states' = [s \in SlotSet |-> IF Aged(states[s].used) = "before" THEN NoHolder
                                      ELSE [states[s] EXCEPT !.created = Aged(states[s].created)]]
      /\ puts' = [s \in SlotSet |-> <<>>]
  BY DEF NextFrame, NextIndex
<1>2. <<>> \in [1 .. 0 -> Values] /\ 0 \in 0 .. MaxPuts
  BY SubObjectsAssumption
<1>3. ASSUME NEW s \in SlotSet
      PROVE  /\ states'[s] \in Holders \cup {NoHolder}
             /\ states'[s].created # "now" /\ states'[s].used # "now"
  <2>1. states[s] \in Holders \cup {NoHolder}
    BY DEF SubTypeOK
  <2>2. CASE Aged(states[s].used) = "before"
    BY <1>1, <2>2 DEF NoHolder
  <2>3. CASE Aged(states[s].used) # "before"
    <3>1. states[s] \in Holders /\ states[s].used = "never"
      BY <2>1, <2>3 DEF NoHolder, Aged, Holders
    <3>2. states'[s] = [states[s] EXCEPT !.created = Aged(states[s].created)]
      BY <1>1, <2>3
    <3>3. Aged(states[s].created) = "before"
      BY <3>1 DEF Holders, Aged
    <3> QED
      BY <3>1, <3>2, <3>3 DEF Holders
  <2> QED
    BY <2>2, <2>3
<1>4. SubTypeOK'
  BY <1>1, <1>2, <1>3 DEF SubTypeOK
<1>5. HoldersMatch'
  BY <1>1, <1>3 DEF HoldersMatch
<1> QED
  BY <1>4, <1>5

LEMMA ReadKeeps ==
  ASSUME SubTypeOK, HoldersMatch, Read
  PROVE  SubTypeOK' /\ HoldersMatch'
<1>1. /\ states' = [s \in SlotSet |-> IF Alive(s) THEN [states[s] EXCEPT !.used = "now"] ELSE states[s]]
      /\ puts' = puts /\ pc' = "setprops"
  BY DEF Read, Marked
<1>2. ASSUME NEW s \in SlotSet
      PROVE  /\ states'[s] \in Holders \cup {NoHolder}
             /\ states'[s].created = states[s].created /\ states'[s].values = states[s].values
             /\ states[s].used # "before" => states'[s].used # "before"
  <2>1. states[s] \in Holders \cup {NoHolder}
    BY DEF SubTypeOK
  <2>2. CASE states[s].used = "before"
    BY <1>1, <2>1, <2>2 DEF Alive
  <2>3. CASE states[s].used # "before"
    <3>1. states'[s] = [states[s] EXCEPT !.used = "now"] /\ states[s] \in Holders
      BY <1>1, <2>1, <2>3 DEF Alive, NoHolder
    <3> QED
      BY <3>1 DEF Holders
  <2> QED
    BY <2>2, <2>3
<1> QED
  BY <1>1, <1>2 DEF SubTypeOK, HoldersMatch

LEMMA StepMatches ==
  ASSUME TypeOK, HoldersMatch, [Next]_vars
  PROVE  SubTypeOK' /\ HoldersMatch'
<1>1. CASE NextFrame \/ PutValue \/ Read
  BY <1>1, NextKeeps, PutKeeps, ReadKeeps DEF TypeOK
<1>2. CASE ~(NextFrame \/ PutValue \/ Read)
  <2>1. UNCHANGED <<states, puts>>
    BY <1>2 DEF Next, SetProps, Reuse, Redraw, Draw, PutCache, PutCacheFails, Copy, CallFails,
      Crash, CollectImage, CollectRendered, DropBuffer, vars
  <2>2. pc' = "objects" => pc = "objects"
    BY <1>2 DEF Next, SetProps, Reuse, Redraw, Draw, PutCache, PutCacheFails, Copy, CallFails,
      Crash, CollectImage, CollectRendered, DropBuffer, vars
  <2> QED
    BY <2>1, <2>2 DEF TypeOK, SubTypeOK, HoldersMatch
<1> QED
  BY <1>1, <1>2

LEMMA ImageType ==
  ASSUME TypeOK
  PROVE  image \in [state : States, modified : BOOLEAN, loaded : BOOLEAN]
<1>1. Initial \in States
  BY DEF Initial, States, Values
<1>2. CASE image = NoImage
  BY <1>1, <1>2 DEF NoImage
<1>3. CASE image \in Images
  BY <1>3 DEF Images
<1> QED
  BY <1>2, <1>3 DEF TypeOK

LEMMA StepTyped ==
  ASSUME TypeOK, HoldersMatch, [Next]_vars
  PROVE  TypeOK' /\ HoldersMatch'
<1>1. SubTypeOK' /\ HoldersMatch'
  BY StepMatches
<1>2. Initial \in States
  BY DEF Initial, States, Values
<1>3. image \in [state : States, modified : BOOLEAN, loaded : BOOLEAN]
  BY ImageType
<1>4. Loaded \in Images /\ Loaded.state = image.state /\ Loaded.modified = image.modified
  BY <1>3 DEF Loaded, Images
<1>5. /\ pc' \in {"objects", "setprops", "choose", "draw", "putcache", "copy", "done", "failed"}
      /\ asked' \in States /\ modified' \in BOOLEAN
  <2>1. CASE NextFrame
    BY <1>2, <2>1 DEF NextFrame, TypeOK
  <2>2. CASE Read
    BY <2>2, AskedType DEF Read, TypeOK
  <2>3. CASE SetProps
    BY <1>4, <2>3 DEF SetProps, TypeOK, Images
  <2>4. CASE ~(NextFrame \/ Read \/ SetProps)
    BY <2>4 DEF TypeOK, Next, PutValue, Reuse, Redraw, Draw, PutCache, PutCacheFails, Copy, CallFails,
      Crash, CollectImage, CollectRendered, DropBuffer, vars, luaVars
  <2> QED
    BY <2>1, <2>2, <2>3, <2>4
<1>6. {pic', buffer', cachekey', shown'} \subseteq States \cup {None}
  <2>1. CASE NextFrame
    BY <2>1 DEF NextFrame, TypeOK, cacheVars
  <2>2. CASE Draw
    BY <1>4, <2>2 DEF Draw, TypeOK, cacheVars, Images
  <2>3. CASE Copy \/ Reuse
    BY <2>3 DEF Copy, Reuse, TypeOK, cacheVars
  <2>4. CASE DropBuffer
    BY <2>4 DEF DropBuffer, TypeOK, luaVars
  <2>5. CASE ~(NextFrame \/ Draw \/ Copy \/ Reuse \/ DropBuffer)
    BY <2>5 DEF TypeOK, Next, PutValue, Read, SetProps, Redraw, PutCache, PutCacheFails, CallFails,
      Crash, CollectImage, CollectRendered, vars, luaVars, cacheVars
  <2> QED
    BY <2>1, <2>2, <2>3, <2>4, <2>5
<1>7. image' \in Images \cup {NoImage} /\ rendered' \subseteq States
  <2>1. CASE SetProps
    BY <1>4, <2>1 DEF SetProps, TypeOK, Images
  <2>2. CASE Draw
    BY <1>4, <2>2 DEF Draw, TypeOK, Images
  <2>3. CASE ~(SetProps \/ Draw)
    BY <2>3 DEF TypeOK, Next, NextFrame, PutValue, Read, Reuse, Redraw, PutCache, PutCacheFails, Copy,
      CallFails, Crash, CollectImage, CollectRendered, DropBuffer, vars, childVars
  <2> QED
    BY <2>1, <2>2, <2>3
<1>8. forgot' \in BOOLEAN /\ torn' \in BOOLEAN /\ unput' \in BOOLEAN
  BY DEF TypeOK, Next, NextFrame, PutValue, Read, SetProps, Reuse, Redraw, Draw, PutCache, PutCacheFails,
    Copy, CallFails, Crash, CollectImage, CollectRendered, DropBuffer, vars, excuses
<1> QED
  BY <1>1, <1>5, <1>6, <1>7, <1>8 DEF TypeOK

-----------------------------------------------------------------------------
(* The caches.                                                             *)

\* The steps that change neither the process, nor the caches, nor what the frame shows.
Apart == NextFrame \/ PutValue \/ Read \/ CallFails \/ CollectRendered \/ UNCHANGED vars

LEMMA ApartKeeps ==
  ASSUME Inv, Apart
  PROVE  /\ KeyIsOfBuffer' /\ PicIsOfImage' /\ BufferIsOfImage' /\ ChoiceIsRight' /\ Shown'
<1>1. /\ UNCHANGED <<buffer, cachekey, image, forgot, torn, unput>>
      /\ \/ pc' \notin {"choose", "putcache", "copy", "done"} /\ pc \notin {"putcache", "copy"}
         \/ UNCHANGED <<pc, asked, modified, pic, shown>>
  BY DEF Apart, NextFrame, PutValue, Read, CallFails, CollectRendered, Idle, vars, luaVars, cacheVars,
    childVars, excuses
<1> QED
  BY <1>1 DEF Inv, KeyIsOfBuffer, PicIsOfImage, Lost, BufferIsOfImage, ChoiceIsRight, Shown

LEMMA LossKeeps ==
  ASSUME Inv, Crash \/ CollectImage
  PROVE  /\ KeyIsOfBuffer' /\ PicIsOfImage' /\ BufferIsOfImage' /\ ChoiceIsRight' /\ Shown'
<1>1. /\ UNCHANGED <<buffer, cachekey, torn, unput, pc, asked, modified, pic, shown>>
      /\ image' = NoImage /\ forgot'
  BY DEF Crash, CollectImage, luaVars, cacheVars
<1>2. Lost'
  BY <1>1 DEF Lost, NoImage
<1> QED
  BY <1>1, <1>2 DEF Inv, KeyIsOfBuffer, PicIsOfImage, BufferIsOfImage, ChoiceIsRight, Shown

LEMMA RenderKeeps ==
  ASSUME Inv, SetProps \/ Reuse \/ Redraw \/ Draw \/ PutCache \/ PutCacheFails \/ Copy \/ DropBuffer
  PROVE  /\ KeyIsOfBuffer' /\ PicIsOfImage' /\ BufferIsOfImage' /\ ChoiceIsRight' /\ Shown'
<1>1. image \in [state : States, modified : BOOLEAN, loaded : BOOLEAN] /\ modified \in BOOLEAN
  BY ImageType DEF Inv, TypeOK
<1>2. CASE SetProps
  <2>1. /\ UNCHANGED <<buffer, cachekey, asked, forgot, torn, unput>> /\ pc = "setprops" /\ pc' = "choose"
        /\ image'.state = asked /\ image'.modified = modified'
        /\ ~modified' => ~image.modified /\ image.state = asked
    BY <1>1, <1>2 DEF SetProps, Loaded, cacheVars, excuses
  <2> QED
    BY <2>1 DEF Inv, KeyIsOfBuffer, PicIsOfImage, Lost, BufferIsOfImage, ChoiceIsRight, Shown
<1>3. CASE Reuse
  BY <1>3 DEF Reuse, Inv, KeyIsOfBuffer, PicIsOfImage, Lost, BufferIsOfImage, ChoiceIsRight, Shown,
    cacheVars, childVars, excuses
<1>4. CASE Redraw \/ PutCache
  BY <1>4 DEF Redraw, PutCache, Inv, KeyIsOfBuffer, PicIsOfImage, Lost, BufferIsOfImage, ChoiceIsRight,
    Shown, luaVars, cacheVars, childVars, excuses
<1>5. CASE Draw
  <2>1. image'.state = image.state /\ pic' = image.state
    BY <1>1, <1>5 DEF Draw, Loaded
  <2> QED
    BY <1>5, <2>1 DEF Draw, Inv, KeyIsOfBuffer, PicIsOfImage, BufferIsOfImage, ChoiceIsRight, Shown, cacheVars
<1>6. CASE PutCacheFails
  BY <1>6 DEF PutCacheFails, Inv, KeyIsOfBuffer, PicIsOfImage, BufferIsOfImage, ChoiceIsRight, Shown,
    luaVars, cacheVars
<1>7. CASE Copy
  BY <1>7 DEF Copy, Inv, KeyIsOfBuffer, PicIsOfImage, Lost, BufferIsOfImage, ChoiceIsRight, Shown, childVars
<1>8. CASE DropBuffer
  BY <1>8 DEF DropBuffer, Idle, Inv, KeyIsOfBuffer, PicIsOfImage, Lost, BufferIsOfImage, ChoiceIsRight, Shown,
    luaVars, childVars, excuses
<1> QED
  BY <1>2, <1>3, <1>4, <1>5, <1>6, <1>7, <1>8

LEMMA InvStarts ==
  ASSUME Init
  PROVE  Inv
<1>1. SubTypeOK /\ HoldersMatch
  <2>1. <<>> \in ValueLists
    BY EmptyList
  <2> QED
    BY <2>1 DEF Init, SubInit, SubTypeOK, HoldersMatch, NoHolder, ValueLists
<1>2. TypeOK
  BY <1>1 DEF Init, TypeOK, Initial, States, Values, NoImage
<1> QED
  BY <1>1, <1>2 DEF Init, Inv, KeyIsOfBuffer, PicIsOfImage, BufferIsOfImage, ChoiceIsRight, Shown

LEMMA InvKept ==
  ASSUME Inv, [Next]_vars
  PROVE  Inv'
<1>1. TypeOK' /\ HoldersMatch'
  BY StepTyped DEF Inv
<1>2. /\ KeyIsOfBuffer' /\ PicIsOfImage' /\ BufferIsOfImage' /\ ChoiceIsRight' /\ Shown'
  BY ApartKeeps, LossKeeps, RenderKeeps DEF Next, Apart
<1> QED
  BY <1>1, <1>2 DEF Inv

LEMMA InvAlways == Spec => []Inv
BY InvStarts, InvKept, PTL DEF Spec

\* A frame shows the state it asks for, whichever of the caches it comes from, outside of
\* the three cases that PictureIsAsked names.
THEOREM ShowsWhatIsAsked == Spec => []PictureIsAsked
<1>1. Inv => PictureIsAsked
  BY DEF Inv, Shown, PictureIsAsked
<1> QED
  BY <1>1, InvAlways, PTL

\* A frame reads what its own objects have put, in their order, and nothing older, unless
\* an earlier frame has left a holder that nobody read.
THEOREM ReadsItsOwnFrame == Spec => ReadsThisFrame
<1>1. ASSUME Inv, Next, pc = "objects", pc' = "setprops", LeftOver = {}
      PROVE  asked' = Expected
  <2>1. asked' = Asked
    BY <1>1 DEF Next, NextFrame, PutValue, Read, SetProps, Reuse, Redraw, Draw, PutCache, PutCacheFails, Copy,
      CallFails, Crash, CollectImage, CollectRendered, DropBuffer
  <2>2. ASSUME NEW s \in SlotSet
        PROVE  (IF Alive(s) THEN states[s].values ELSE <<>>) = puts[s]
    <3>1. CASE states[s].created = "now"
      BY <1>1, <3>1 DEF Inv, HoldersMatch, Alive
    <3>2. CASE states[s].created # "now"
      <4>1. states[s] = NoHolder \/ (states[s] \in Holders /\ states[s].created = "before")
        BY <1>1, <3>2 DEF Inv, TypeOK, SubTypeOK, Holders
      <4>2. states[s].used = "before"
        BY <1>1, <4>1 DEF NoHolder, Holders, LeftOver, Inv, HoldersMatch
      <4> QED
        BY <1>1, <3>2, <4>2 DEF Inv, HoldersMatch, Alive
    <3> QED
      BY <3>1, <3>2
  <2>3. \A i \in DOMAIN Slots : Slots[i] \in SlotSet
    BY DEF SlotSet
  <2>4. [i \in DOMAIN Slots |-> IF Alive(Slots[i]) THEN states[Slots[i]].values ELSE <<>>]
          = [i \in DOMAIN Slots |-> puts[Slots[i]]]
    BY <2>2, <2>3
  <2> QED
    BY <2>1, <2>4 DEF Asked, Expected
<1> QED
  BY <1>1, InvAlways, PTL DEF Spec, ReadsThisFrame

-----------------------------------------------------------------------------
(* LayerState: the layers of the images that a frame asks for.            *)

\* Induction over the numbers up to n, for a set of them.
LEMMA Induction ==
  ASSUME NEW n \in Nat, NEW A, 0 \in A, \A i \in 1 .. n : i - 1 \in A => i \in A
  PROVE  \A i \in 0 .. n : i \in A
<1> DEFINE bad == {i \in 0 .. n : i \notin A}
<1> SUFFICES ASSUME bad # {} PROVE FALSE
  OBVIOUS
<1>1. Min(bad) \in bad /\ \A y \in bad : Min(bad) <= y
  BY FirstIsIn
<1>2. Min(bad) \in 1 .. n /\ Min(bad) - 1 \in 0 .. n
  BY <1>1
<1>3. Min(bad) - 1 \notin bad
  BY <1>1, <1>2
<1> QED
  BY <1>1, <1>2, <1>3

\* Every set of positions up to n has a last one.
LEMMA LastIsIn ==
  ASSUME NEW n \in Nat, NEW has \in SUBSET (0 .. n), has # {}
  PROVE  Max(has) \in has /\ \A y \in has : y <= Max(has)
<1> DEFINE flipped == {x \in 0 .. n : n - x \in has}
<1>1. flipped # {} /\ flipped \in SUBSET Nat
  <2>1. PICK y \in has : y \in 0 .. n
    OBVIOUS
  <2>2. n - y \in 0 .. n /\ n - (n - y) = y
    BY <2>1
  <2>3. n - y \in flipped
    BY <2>1, <2>2
  <2>4. flipped \in SUBSET Nat
    OBVIOUS
  <2> HIDE DEF flipped
  <2> QED BY <2>3, <2>4
<1>2. Min(flipped) \in flipped /\ \A y \in flipped : Min(flipped) <= y
  BY <1>1, FirstIsIn
<1>3. n - Min(flipped) \in has
  BY <1>2
<1>4. \A y \in has : y <= n - Min(flipped)
  <2> SUFFICES ASSUME NEW y \in has PROVE y <= n - Min(flipped)
    OBVIOUS
  <2>1. n - y \in flipped
    OBVIOUS
  <2> QED BY <1>2, <2>1
<1> QED BY <1>3, <1>4 DEF Max

\* f is what k steps make of b.
Iterated(f, b, step, k) == f[0] = b /\ \A i \in 1 .. k : f[i] = step[i][f[i - 1]]

\* n steps that stay in a set, one after another, are a function.
LEMMA Iterates ==
  ASSUME NEW n \in Nat, NEW S, NEW b \in S, NEW step \in [1 .. n -> [S -> S]]
  PROVE  \E f \in [0 .. n -> S] : Iterated(f, b, step, n)
<1> DEFINE Upto(k, f) == Iterated(f, b, step, k)
           A == {k \in 0 .. n : \E f \in [0 .. k -> S] : Upto(k, f)}
<1>1. 0 \in A
  <2>1. Upto(0, [i \in 0 .. 0 |-> b]) /\ [i \in 0 .. 0 |-> b] \in [0 .. 0 -> S]
    BY DEF Iterated
  <2>2. \E f \in [0 .. 0 -> S] : Upto(0, f)
    BY <2>1
  <2> QED BY <2>2
<1>2. ASSUME NEW k \in 1 .. n, k - 1 \in A PROVE k \in A
  <2>1. PICK f \in [0 .. k - 1 -> S] : Upto(k - 1, f)
    BY <1>2
  <2> DEFINE g == [i \in 0 .. k |-> IF i = k THEN step[k][f[k - 1]] ELSE f[i]]
  <2>2. step[k] \in [S -> S] /\ f[k - 1] \in S
    OBVIOUS
  <2>3. g \in [0 .. k -> S]
    BY <2>2
  <2>4. g[0] = b
    BY <2>1 DEF Iterated
  <2>5. ASSUME NEW i \in 1 .. k PROVE g[i] = step[i][g[i - 1]]
    <3>1. CASE i = k
      BY <3>1
    <3>2. CASE i # k
      <4>1. i \in 1 .. k - 1
        BY <3>2
      <4> QED BY <2>1, <3>2, <4>1 DEF Iterated
    <3> QED BY <3>1, <3>2
  <2>6. Upto(k, g)
    BY <2>4, <2>5 DEF Iterated
  <2>7. \E h \in [0 .. k -> S] : Upto(k, h)
    <3> HIDE DEF g, Upto
    <3> QED BY <2>3, <2>6
  <2> HIDE DEF Upto
  <2> QED BY <2>7
<1>3. n \in A
  <2> HIDE DEF A
  <2>1. \A k \in 1 .. n : k - 1 \in A => k \in A
    BY <1>2
  <2>2. n \in 0 .. n
    OBVIOUS
  <2> QED BY <1>1, <2>1, <2>2, Induction
<1> QED BY <1>3


-----------------------------------------------------------------------------
(* What NewLayerManager derives of a file.                                 *)

\* What the proofs use of what NewLayerManager derives.
LayersSound(m) ==
  /\ \E n \in Nat : m.layers = 1 .. n
  /\ m.radio \subseteq m.layers /\ m.forced \subseteq m.layers
  /\ m.siblings \in [m.layers -> SUBSET m.layers] /\ m.above \in [m.layers -> SUBSET m.layers]

\* The groups are the radio buttons, without one in two, and one level each.
GroupsSound(m) ==
  /\ \A g \in m.groups : g \subseteq m.radio /\ g # {} /\ \A k, l \in g : m.above[k] = m.above[l]
  /\ \A l \in m.radio : \E g \in m.groups : l \in g
  /\ \A g, h \in m.groups : g \cap h # {} => g = h

\* A pair is of siblings of one kind; the twins of what is below one are below the other.
PairSound(m, q) ==
  /\ q.original \in m.layers /\ q.mirror \in m.layers /\ q.original # q.mirror
  /\ q.axes \in SUBSET Axes /\ q.axes # {}
  /\ \A g \in m.groups : q.original \in g <=> q.mirror \in g
  /\ q.original \in m.forced <=> q.mirror \in m.forced
  /\ q.original \in m.radio <=> q.mirror \in m.radio
  /\ m.above[q.original] = m.above[q.mirror]
  /\ q.original \notin m.above[q.original] /\ q.mirror \notin m.above[q.original]
  /\ DOMAIN q.twin \subseteq m.layers
  /\ \A l \in DOMAIN q.twin :
       /\ q.twin[l] \in DOMAIN q.twin /\ q.twin[q.twin[l]] = l
       /\ \/ q.original \in m.above[l] /\ q.mirror \in m.above[q.twin[l]]
          \/ q.mirror \in m.above[l] /\ q.original \in m.above[q.twin[l]]

\* A mirror has one original, and is none itself.
MirrorsSound(m) == \A q, r \in m.pairs : q.mirror # r.original /\ (q.mirror = r.mirror => q = r)

\* Every order of the maps visits every pair, and nothing else.
VisitsSound(m) ==
  \E n \in Nat : \A v \in m.visits : v \in [1 .. n -> m.pairs] /\ \A q \in m.pairs : \E i \in 1 .. n : v[i] = q

\* A layer is synchronised with itself and at most with twins.
SyncedSound(m) ==
  \A s \in m.synced : \A l \in m.layers :
    /\ l \in s[l] /\ s[l] \subseteq m.layers
    /\ \A k \in s[l] : k = l \/ \E q \in m.pairs : l \in DOMAIN q.twin /\ k = q.twin[l]

Sound(m) ==
  /\ LayersSound(m) /\ GroupsSound(m) /\ (\A q \in m.pairs : PairSound(m, q)) /\ MirrorsSound(m)
  /\ VisitsSound(m) /\ SyncedSound(m)

\* A path has names, and at least one.
LEMMA PathsTyped ==
  ASSUME NEW p \in Psds
  PROVE  /\ Len(p) \in Nat /\ DOMAIN p = 1 .. Len(p)
         /\ \A l \in DOMAIN p : /\ p[l] \in Seq(LayerNames) /\ Len(p[l]) \in Nat /\ Len(p[l]) >= 1 /\ DOMAIN p[l] = 1 .. Len(p[l])
                                /\ Name(p, l) \in LayerNames
<1>1. p \in Seq(Seq(LayerNames)) /\ IsTree(p)
  BY PsdsAssumption
<1>2. Len(p) \in Nat /\ DOMAIN p = 1 .. Len(p)
  BY <1>1
<1>3. ASSUME NEW l \in DOMAIN p
      PROVE  /\ p[l] \in Seq(LayerNames) /\ Len(p[l]) \in Nat /\ Len(p[l]) >= 1 /\ DOMAIN p[l] = 1 .. Len(p[l])
             /\ Name(p, l) \in LayerNames
  <2>1. p[l] \in Seq(LayerNames) /\ p[l] # <<>>
    BY <1>1 DEF IsTree
  <2>2. Len(p[l]) \in Nat /\ DOMAIN p[l] = 1 .. Len(p[l]) /\ Len(p[l]) # 0
    BY <2>1, EmptySeq
  <2>3. Len(p[l]) \in 1 .. Len(p[l])
    BY <2>2
  <2> QED BY <2>1, <2>2, <2>3 DEF Name
<1> QED BY <1>2, <1>3

\* Two layers whose paths are equal name by name are the same.
LEMMA PathsDiffer ==
  ASSUME NEW p \in Psds, NEW k \in DOMAIN p, NEW l \in DOMAIN p, Len(p[k]) = Len(p[l]),
         \A i \in 1 .. Len(p[k]) : p[k][i] = p[l][i]
  PROVE  k = l
<1>1. p[k] \in Seq(LayerNames) /\ p[l] \in Seq(LayerNames)
  BY PathsTyped
<1>2. p[k] = p[l]
  BY <1>1, SeqEqual
<1> QED BY <1>2, PsdsAssumption DEF IsTree

\* To agree on a part of the path is symmetric.
LEMMA SameWay ==
  ASSUME NEW p, NEW k, NEW l, NEW a, NEW b
  PROVE  Same(p, k, l, a, b) <=> Same(p, l, k, a, b)
BY DEF Same

\* Siblings have the same siblings and the same folders.
LEMMA SiblingsAre ==
  ASSUME NEW p \in Psds, NEW k \in DOMAIN p, NEW l \in DOMAIN p, k \in Siblings(p, l)
  PROVE  /\ Siblings(p, k) = Siblings(p, l)
         /\ {f \in DOMAIN p : k \in Below(p, f)} = {f \in DOMAIN p : l \in Below(p, f)}
<1>1. Len(p[k]) = Len(p[l]) /\ Len(p[l]) \in Nat /\ \A i \in 1 .. Len(p[l]) - 1 : p[k][i] = p[l][i]
  BY PathsTyped DEF Siblings, Same
<1>2. \A s \in DOMAIN p : s \in Siblings(p, k) <=> s \in Siblings(p, l)
  BY <1>1 DEF Siblings, Same
<1>3. ASSUME NEW f \in DOMAIN p
      PROVE  k \in Below(p, f) <=> l \in Below(p, f)
  <2>1. Len(p[f]) \in Nat
    BY PathsTyped
  <2>2. Len(p[f]) < Len(p[l]) => \A i \in 1 .. Len(p[f]) : i \in 1 .. Len(p[l]) - 1
    BY <1>1, <2>1
  <2> QED BY <1>1, <2>1, <2>2 DEF Below, Same
<1>4. Siblings(p, k) = Siblings(p, l)
  BY <1>2 DEF Siblings
<1> QED BY <1>3, <1>4

\* Every radio button is in one group, with all of its siblings that are radio buttons.
LEMMA GroupsAre ==
  ASSUME NEW p \in Psds
  PROVE  /\ \A g \in Groups(p) : g \subseteq Radio(p) /\ g # {} /\ \A k, l \in g : k \in Siblings(p, l)
         /\ \A l \in Radio(p) : \E g \in Groups(p) : l \in g
         /\ \A g, h \in Groups(p) : g \cap h # {} => g = h
         /\ \A g \in Groups(p) : \A k \in g, l \in Radio(p) : k \in Siblings(p, l) => l \in g
<1>1. \A l \in DOMAIN p : l \in Siblings(p, l)
  BY DEF Siblings, Same
<1>2. ASSUME NEW g \in Groups(p), NEW k \in g
      PROVE  /\ g \subseteq Radio(p) /\ k \in DOMAIN p /\ g = Siblings(p, k) \cap Radio(p)
  <2>1. PICK l \in Radio(p) : g = Siblings(p, l) \cap Radio(p)
    BY DEF Groups
  <2>2. k \in DOMAIN p /\ l \in DOMAIN p /\ k \in Siblings(p, l)
    BY <2>1 DEF Siblings, Radio
  <2>3. Siblings(p, k) = Siblings(p, l)
    BY <2>2, SiblingsAre
  <2> QED BY <2>1, <2>2, <2>3
<1>3. \A l \in Radio(p) : Siblings(p, l) \cap Radio(p) \in Groups(p) /\ l \in Siblings(p, l) \cap Radio(p) /\ l \in DOMAIN p
  BY <1>1 DEF Groups, Radio
<1>4. \A g \in Groups(p) : g # {}
  BY <1>3 DEF Groups
<1>5. ASSUME NEW g \in Groups(p), NEW k \in g, NEW l \in g PROVE k \in Siblings(p, l)
  BY <1>2
<1>6. ASSUME NEW g \in Groups(p), NEW h \in Groups(p), g \cap h # {} PROVE g = h
  BY <1>2, <1>6
<1>7. ASSUME NEW g \in Groups(p), NEW k \in g, NEW l \in Radio(p), k \in Siblings(p, l) PROVE l \in g
  <2>1. l \in DOMAIN p /\ g = Siblings(p, k) \cap Radio(p) /\ k \in DOMAIN p
    BY <1>2, <1>3
  <2>2. Siblings(p, k) = Siblings(p, l)
    BY <1>7, <2>1, SiblingsAre
  <2> QED BY <2>1, <2>2, <1>3
<1>8. \A g \in Groups(p) : g \subseteq Radio(p)
  BY DEF Groups
<1>9. \A l \in Radio(p) : \E g \in Groups(p) : l \in g
  BY <1>3
<1>10. \A g \in Groups(p) : g \subseteq Radio(p) /\ g # {} /\ \A k, l \in g : k \in Siblings(p, l)
  BY <1>4, <1>5, <1>8
<1>11. \A g, h \in Groups(p) : g \cap h # {} => g = h
  BY <1>6
<1>12. \A g \in Groups(p) : \A k \in g, l \in Radio(p) : k \in Siblings(p, l) => l \in g
  BY <1>7
<1> QED BY <1>9, <1>10, <1>11, <1>12

\* What makes k the twin of l.
Twin(p, o, m, l, k) ==
  /\ (k \in Below(p, o) /\ l \in Below(p, m)) \/ (k \in Below(p, m) /\ l \in Below(p, o))
  /\ Len(p[k]) = Len(p[l])
  /\ \A i \in Len(p[o]) + 1 .. Len(p[l]) : p[k][i] = p[l][i]

\* Twins are the layers that Twin describes.
LEMMA TwinsAre ==
  ASSUME NEW p, NEW o, NEW m, NEW l, NEW k
  PROVE  k \in Twins(p, o, m, l) <=> k \in DOMAIN p /\ Twin(p, o, m, l, k)
BY DEF Twins, Twin, Same

\* An original and its mirror.
LEMMA OriginalsAre ==
  ASSUME NEW p \in Psds, NEW m \in DOMAIN p, NEW o \in Originals(p, m)
  PROVE  /\ o \in DOMAIN p /\ o # m /\ o \in Siblings(p, m)
         /\ Len(p[o]) = Len(p[m]) /\ \A i \in 1 .. Len(p[m]) - 1 : p[o][i] = p[m][i]
         /\ Name(p, o) = Plain(Name(p, m)) /\ Name(p, o) # Name(p, m)
         /\ Name(p, o).kind = Name(p, m).kind /\ Name(p, o).flips = {} /\ Name(p, m).flips # {}
         /\ Name(p, m).flips \in SUBSET Axes
<1>1. o \in Siblings(p, m) /\ Name(p, m).flips # {} /\ Name(p, o) = Plain(Name(p, m)) /\ o \in DOMAIN p
  BY DEF Originals, Siblings
<1>2. Name(p, o).kind = Name(p, m).kind /\ Name(p, o).flips = {}
  BY <1>1 DEF Plain
<1>3. Len(p[o]) = Len(p[m]) /\ \A i \in 1 .. Len(p[m]) - 1 : p[o][i] = p[m][i]
  BY <1>1 DEF Siblings, Same
<1>4. Name(p, m) \in LayerNames
  BY PathsTyped
<1>5. Name(p, m).flips \in SUBSET Axes
  BY <1>4, LayerNamesAssumption
<1>6. Name(p, o) # Name(p, m) /\ o # m
  BY <1>1, <1>2
<1> QED BY <1>1, <1>2, <1>3, <1>5, <1>6

\* A mirror has one original.
LEMMA OneOriginal ==
  ASSUME NEW p \in Psds, NEW m \in DOMAIN p, NEW o \in Originals(p, m), NEW r \in Originals(p, m)
  PROVE  o = r
<1>1. /\ o \in DOMAIN p /\ Len(p[o]) = Len(p[m]) /\ Name(p, o) = Plain(Name(p, m))
      /\ \A i \in 1 .. Len(p[m]) - 1 : p[o][i] = p[m][i]
  BY OriginalsAre
<1>2. /\ r \in DOMAIN p /\ Len(p[r]) = Len(p[m]) /\ Name(p, r) = Plain(Name(p, m))
      /\ \A i \in 1 .. Len(p[m]) - 1 : p[r][i] = p[m][i]
  BY OriginalsAre
<1>3. p[o][Len(p[m])] = p[r][Len(p[m])]
  BY <1>1, <1>2 DEF Name
<1>4. Len(p[m]) \in Nat
  BY PathsTyped
<1>5. \A i \in 1 .. Len(p[o]) : p[o][i] = p[r][i]
  <2> SUFFICES ASSUME NEW i \in 1 .. Len(p[o]) PROVE p[o][i] = p[r][i]
    OBVIOUS
  <2>1. CASE i = Len(p[m])
    BY <1>3, <2>1
  <2>2. CASE i # Len(p[m])
    <3>1. i \in 1 .. Len(p[m]) - 1
      BY <1>1, <1>4, <2>2
    <3> QED BY <1>1, <1>2, <3>1
  <2> QED BY <2>1, <2>2
<1> QED BY <1>1, <1>2, <1>5, PathsDiffer

\* Nothing is below both.
LEMMA BelowOne ==
  ASSUME NEW p \in Psds, NEW m \in DOMAIN p, NEW o \in Originals(p, m), NEW l \in Below(p, o)
  PROVE  l \notin Below(p, m)
<1> SUFFICES ASSUME l \in Below(p, m) PROVE FALSE
  OBVIOUS
<1>1. Len(p[o]) = Len(p[m]) /\ Name(p, o) # Name(p, m)
  BY OriginalsAre
<1>2. Len(p[m]) \in Nat /\ Len(p[m]) >= 1
  BY PathsTyped
<1>3. p[l][Len(p[m])] = p[o][Len(p[m])] /\ p[l][Len(p[m])] = p[m][Len(p[m])]
  BY <1>1, <1>2 DEF Below, Same
<1> QED BY <1>1, <1>3 DEF Name

\* A layer has one twin in a pair.
LEMMA OneTwin ==
  ASSUME NEW p \in Psds, NEW m \in DOMAIN p, NEW o \in Originals(p, m), NEW l \in DOMAIN p,
         NEW j \in DOMAIN p, NEW k \in DOMAIN p, Twin(p, o, m, l, j), Twin(p, o, m, l, k)
  PROVE  j = k
<1>1. Len(p[o]) = Len(p[m]) /\ Len(p[o]) \in Nat /\ Len(p[l]) \in Nat /\ o \in DOMAIN p
  BY OriginalsAre, PathsTyped
<1>2. \/ j \in Below(p, o) /\ k \in Below(p, o)
      \/ j \in Below(p, m) /\ k \in Below(p, m)
  BY BelowOne DEF Twin
<1>3. \A i \in 1 .. Len(p[o]) : p[j][i] = p[k][i]
  BY <1>1, <1>2 DEF Below, Same
<1>4. \A i \in Len(p[o]) + 1 .. Len(p[l]) : p[j][i] = p[k][i]
  BY DEF Twin
<1>5. Len(p[j]) = Len(p[l]) /\ Len(p[k]) = Len(p[l])
  BY DEF Twin
<1>6. \A i \in 1 .. Len(p[j]) : p[j][i] = p[k][i]
  <2> SUFFICES ASSUME NEW i \in 1 .. Len(p[j]) PROVE p[j][i] = p[k][i]
    OBVIOUS
  <2>1. i \in 1 .. Len(p[o]) \/ i \in Len(p[o]) + 1 .. Len(p[l])
    BY <1>1, <1>5
  <2> QED BY <1>3, <1>4, <2>1
<1> QED BY <1>5, <1>6, PathsDiffer

\* A twin of a twin is the layer itself.
LEMMA TwinBack ==
  ASSUME NEW p, NEW o, NEW m, NEW l, NEW k, Twin(p, o, m, l, k)
  PROVE  Twin(p, o, m, k, l)
BY DEF Twin

\* The fields of what NewLayerManager returns.
LEMMA ManagerIs ==
  ASSUME NEW p
  PROVE  LET m == NewLayerManager(p)
         IN /\ m.layers = DOMAIN p /\ m.radio = Radio(p)
            /\ m.forced = {l \in DOMAIN p : Name(p, l).kind = "forced"}
            /\ m.groups = Groups(p) /\ m.pairs = Pairs(p)
            /\ m.siblings = [l \in DOMAIN p |-> Siblings(p, l)]
            /\ m.above = [l \in DOMAIN p |-> {f \in DOMAIN p : l \in Below(p, f)}]
            /\ m.visits = Visits(Pairs(p), FirstMap)
            /\ m.synced = {[l \in DOMAIN p |-> Synced(v, l)] : v \in Visits(Pairs(p), LastMap)}
BY DEF NewLayerManager

\* A pair is what Pair makes of a mirror and its original, and has every twin.
LEMMA PairsAre ==
  ASSUME NEW p \in Psds, NEW q \in Pairs(p)
  PROVE  /\ q.original \in DOMAIN p /\ q.mirror \in DOMAIN p /\ q.original \in Originals(p, q.mirror)
         /\ q = Pair(p, q.original, q.mirror) /\ q.axes = Name(p, q.mirror).flips
         /\ DOMAIN q.twin \subseteq DOMAIN p
         /\ \A l \in DOMAIN q.twin : q.twin[l] \in DOMAIN q.twin /\ Twin(p, q.original, q.mirror, l, q.twin[l])
         /\ \A l \in DOMAIN p, k \in DOMAIN p :
              Twin(p, q.original, q.mirror, l, k) => l \in DOMAIN q.twin /\ q.twin[l] = k
<1>0. PICK m \in DOMAIN p : \E o \in Originals(p, m) : q = Pair(p, o, m)
  BY DEF Pairs
<1>1. PICK o \in Originals(p, m) : q = Pair(p, o, m)
  BY <1>0
<1> DEFINE has == {l \in DOMAIN p : Twins(p, o, m, l) # {}}
<1>2. q.original = o /\ q.mirror = m /\ q.axes = Name(p, m).flips
  BY <1>1 DEF Pair
<1>3. q.twin = [l \in has |-> CHOOSE k \in Twins(p, o, m, l) : TRUE]
  BY <1>1 DEF Pair
<1>4. o \in DOMAIN p
  BY OriginalsAre
<1>5. ASSUME NEW l \in has
      PROVE  q.twin[l] \in has /\ Twin(p, o, m, l, q.twin[l])
  <2>1. q.twin[l] \in Twins(p, o, m, l)
    BY <1>3
  <2>2. q.twin[l] \in DOMAIN p /\ Twin(p, o, m, l, q.twin[l])
    BY <2>1, TwinsAre
  <2>3. Twin(p, o, m, q.twin[l], l)
    BY <2>2, TwinBack
  <2>4. l \in Twins(p, o, m, q.twin[l])
    BY <2>3, TwinsAre
  <2> QED BY <2>2, <2>4
<1>6. ASSUME NEW l \in DOMAIN p, NEW k \in DOMAIN p, Twin(p, o, m, l, k)
      PROVE  l \in has /\ q.twin[l] = k
  <2>1. k \in Twins(p, o, m, l)
    BY <1>6, TwinsAre
  <2>2. l \in has
    BY <2>1
  <2>3. Twin(p, o, m, l, q.twin[l]) /\ q.twin[l] \in DOMAIN p
    BY <2>2, <1>5
  <2> QED BY <1>6, <2>2, <2>3, OneTwin
<1>7. DOMAIN q.twin = has /\ has \subseteq DOMAIN p
  BY <1>3
<1> HIDE DEF has
<1> QED BY <1>1, <1>2, <1>4, <1>5, <1>6, <1>7

\* registerFlips finds pairs that are sound.
LEMMA PairsSound ==
  ASSUME NEW p \in Psds, NEW q \in Pairs(p)
  PROVE  PairSound(NewLayerManager(p), q)
<1> DEFINE m == NewLayerManager(p)
           o == q.original
           r == q.mirror
<1>1. /\ m.layers = DOMAIN p /\ m.radio = Radio(p) /\ m.forced = {l \in DOMAIN p : Name(p, l).kind = "forced"}
      /\ m.groups = Groups(p) /\ m.above = [l \in DOMAIN p |-> {f \in DOMAIN p : l \in Below(p, f)}]
  BY ManagerIs
<1> HIDE DEF m
<1>2. o \in DOMAIN p /\ r \in DOMAIN p /\ o \in Originals(p, r)
  BY PairsAre
<1>3. /\ o # r /\ o \in Siblings(p, r) /\ Name(p, o).kind = Name(p, r).kind
      /\ Len(p[o]) = Len(p[r]) /\ Name(p, r).flips # {} /\ Name(p, r).flips \in SUBSET Axes
  BY <1>2, OriginalsAre
<1>4. o \in m.layers /\ r \in m.layers /\ o # r
  BY <1>1, <1>2, <1>3
<1>5. q.axes \in SUBSET Axes /\ q.axes # {}
  BY <1>3, PairsAre
<1>6. (o \in m.forced <=> r \in m.forced) /\ (o \in m.radio <=> r \in m.radio)
  BY <1>1, <1>2, <1>3 DEF Radio
<1>7. ASSUME NEW g \in m.groups
      PROVE  o \in g <=> r \in g
  <2>1. r \in Siblings(p, o)
    BY <1>2, <1>3, SameWay DEF Siblings
  <2>2. g \subseteq Radio(p)
    BY <1>1, GroupsAre
  <2>3. \A k \in g, l \in Radio(p) : k \in Siblings(p, l) => l \in g
    BY <1>1, GroupsAre
  <2> QED BY <1>1, <1>3, <1>6, <2>1, <2>2, <2>3
<1>8. m.above[o] = m.above[r]
  BY <1>1, <1>2, <1>3, SiblingsAre
<1>9. o \notin m.above[o] /\ r \notin m.above[o]
  <2>1. Len(p[o]) \in Nat
    BY <1>2, PathsTyped
  <2> QED BY <1>1, <1>2, <1>3, <2>1 DEF Below
<1>10. DOMAIN q.twin \subseteq m.layers
  BY <1>1, PairsAre
<1>11. ASSUME NEW l \in DOMAIN q.twin
       PROVE  /\ q.twin[l] \in DOMAIN q.twin /\ q.twin[q.twin[l]] = l
              /\ \/ o \in m.above[l] /\ r \in m.above[q.twin[l]]
                 \/ r \in m.above[l] /\ o \in m.above[q.twin[l]]
  <2>1. q.twin[l] \in DOMAIN q.twin /\ Twin(p, o, r, l, q.twin[l]) /\ l \in DOMAIN p /\ q.twin[l] \in DOMAIN p
    BY PairsAre
  <2>2. Twin(p, o, r, q.twin[l], l)
    BY <2>1, TwinBack
  <2>3. q.twin[q.twin[l]] = l
    BY <2>1, <2>2, PairsAre
  <2>4. \/ o \in m.above[l] /\ r \in m.above[q.twin[l]]
        \/ r \in m.above[l] /\ o \in m.above[q.twin[l]]
    BY <1>1, <1>2, <2>1 DEF Twin
  <2> QED BY <2>1, <2>3, <2>4
<1> QED BY <1>4, <1>5, <1>6, <1>7, <1>8, <1>9, <1>10, <1>11 DEF PairSound, m

\* There are finitely many pairs.
LEMMA PairsFinite ==
  ASSUME NEW p \in Psds
  PROVE  IsFiniteSet(Pairs(p))
<1>0. IsFiniteSet(DOMAIN p)
  BY PathsTyped, FS_Interval
<1> DEFINE f == [r \in {r \in DOMAIN p : Originals(p, r) # {}} |-> Pair(p, CHOOSE o \in Originals(p, r) : TRUE, r)]
<1>1. IsFiniteSet({r \in DOMAIN p : Originals(p, r) # {}})
  BY <1>0, FS_Subset
<1>2. \A q \in Pairs(p) : q.mirror \in {r \in DOMAIN p : Originals(p, r) # {}} /\ f[q.mirror] = q
  <2> SUFFICES ASSUME NEW q \in Pairs(p)
               PROVE  q.mirror \in {r \in DOMAIN p : Originals(p, r) # {}} /\ f[q.mirror] = q
    OBVIOUS
  <2>1. q.mirror \in DOMAIN p /\ q.original \in Originals(p, q.mirror) /\ q = Pair(p, q.original, q.mirror)
    BY PairsAre
  <2>2. (CHOOSE o \in Originals(p, q.mirror) : TRUE) = q.original
    BY <2>1, OneOriginal
  <2> QED BY <2>1, <2>2
<1>3. \A r \in {r \in DOMAIN p : Originals(p, r) # {}} : f[r] \in Pairs(p)
  <2> SUFFICES ASSUME NEW r \in {r \in DOMAIN p : Originals(p, r) # {}} PROVE f[r] \in Pairs(p)
    OBVIOUS
  <2> DEFINE o == CHOOSE o \in Originals(p, r) : TRUE
  <2>1. o \in Originals(p, r) /\ f[r] = Pair(p, o, r)
    OBVIOUS
  <2> HIDE DEF o, f
  <2> QED BY <2>1 DEF Pairs
<1>4. f \in Surjection({r \in DOMAIN p : Originals(p, r) # {}}, Pairs(p))
  BY <1>2, <1>3 DEF Surjection
<1> QED BY <1>1, <1>4, FS_Surjection

\* Every order of the maps visits every pair.
LEMMA VisitsAre ==
  ASSUME NEW p \in Psds, NEW m, m = NewLayerManager(p)
  PROVE  VisitsSound(m)
<1>2. IsFiniteSet(Pairs(p))
  BY PairsFinite
<1>3. Cardinality(Pairs(p)) \in Nat
  BY <1>2, FS_CardinalityType
<1>4. m.visits = Visits(Pairs(p), FirstMap) /\ m.pairs = Pairs(p)
  BY ManagerIs
<1>5. ASSUME NEW v \in m.visits
      PROVE  /\ v \in [1 .. Cardinality(Pairs(p)) -> m.pairs]
             /\ \A q \in m.pairs : \E i \in 1 .. Cardinality(Pairs(p)) : v[i] = q
  BY <1>4 DEF Visits
<1> QED BY <1>3, <1>5 DEF VisitsSound

\* registerSyncs adds a twin at most.
LEMMA SyncedAre ==
  ASSUME NEW p \in Psds, NEW m, m = NewLayerManager(p)
  PROVE  SyncedSound(m)
<1>1. /\ m.synced = {[l \in DOMAIN p |-> Synced(v, l)] : v \in Visits(Pairs(p), LastMap)}
      /\ m.layers = DOMAIN p /\ m.pairs = Pairs(p)
  BY ManagerIs
<1>2. ASSUME NEW v \in Visits(Pairs(p), LastMap), NEW l \in DOMAIN p
      PROVE  /\ l \in Synced(v, l) /\ Synced(v, l) \subseteq DOMAIN p
             /\ \A k \in Synced(v, l) : k = l \/ \E q \in Pairs(p) : l \in DOMAIN q.twin /\ k = q.twin[l]
  <2> DEFINE has == {i \in DOMAIN v : l \in DOMAIN v[i].twin}
  <2>1. CASE has = {}
    BY <2>1 DEF Synced
  <2>2. CASE has # {}
    <3>1. PICK n : n = Cardinality(Pairs(p)) /\ v \in [1 .. n -> Pairs(p)]
      BY DEF Visits
    <3>2. n \in Nat /\ has \in SUBSET (0 .. n)
      <4>2. n \in Nat
        BY <3>1, PairsFinite, FS_CardinalityType
      <4> QED BY <3>1, <4>2
    <3>3. Max(has) \in has
      BY <2>2, <3>2, LastIsIn
    <3> DEFINE q == v[Max(has)]
    <3>4. q \in Pairs(p) /\ l \in DOMAIN q.twin
      BY <3>1, <3>3
    <3>5. q.twin[l] \in DOMAIN p
      BY <3>4, PairsAre
    <3>6. Synced(v, l) = {l, q.twin[l]}
      BY <2>2 DEF Synced
    <3> HIDE DEF q
    <3> QED BY <3>4, <3>5, <3>6
  <2> QED BY <2>1, <2>2
<1>3. ASSUME NEW s \in m.synced, NEW l \in m.layers
      PROVE  /\ l \in s[l] /\ s[l] \subseteq m.layers
             /\ \A k \in s[l] : k = l \/ \E q \in m.pairs : l \in DOMAIN q.twin /\ k = q.twin[l]
  <2>1. PICK v \in Visits(Pairs(p), LastMap) : s = [j \in DOMAIN p |-> Synced(v, j)]
    BY <1>1
  <2>2. s[l] = Synced(v, l) /\ l \in DOMAIN p
    BY <1>1, <2>1
  <2> QED BY <1>1, <1>2, <2>2
<1> QED BY <1>3 DEF SyncedSound

\* What NewLayerManager derives is sound for every file.
LEMMA ManagersSound ==
  ASSUME NEW m \in Managers
  PROVE  Sound(m)
<1>1. PICK p \in Psds : m = NewLayerManager(p)
  BY DEF Managers
<1>2. /\ m.layers = DOMAIN p /\ m.radio = Radio(p) /\ m.forced = {l \in DOMAIN p : Name(p, l).kind = "forced"}
      /\ m.groups = Groups(p) /\ m.above = [l \in DOMAIN p |-> {f \in DOMAIN p : l \in Below(p, f)}]
      /\ m.siblings = [l \in DOMAIN p |-> Siblings(p, l)] /\ m.pairs = Pairs(p)
  BY <1>1, ManagerIs
<1>3. LayersSound(m)
  <2>1. m.layers = 1 .. Len(p) /\ Len(p) \in Nat
    BY <1>2, PathsTyped
  <2>2. m.radio \subseteq m.layers /\ m.forced \subseteq m.layers
    BY <1>2 DEF Radio
  <2>3. m.siblings \in [m.layers -> SUBSET m.layers] /\ m.above \in [m.layers -> SUBSET m.layers]
    BY <1>2 DEF Siblings
  <2> QED BY <2>1, <2>2, <2>3 DEF LayersSound
<1>4. GroupsSound(m)
  <2>1. ASSUME NEW g \in m.groups, NEW k \in g, NEW l \in g PROVE m.above[k] = m.above[l]
    <3>1. k \in Siblings(p, l) /\ k \in DOMAIN p /\ l \in DOMAIN p
      BY <1>2, GroupsAre DEF Radio
    <3> QED BY <1>2, <3>1, SiblingsAre
  <2>2. \A g \in m.groups : g \subseteq m.radio /\ g # {}
    BY <1>2, GroupsAre
  <2>3. \A l \in m.radio : \E g \in m.groups : l \in g
    BY <1>2, GroupsAre
  <2>4. \A g, h \in m.groups : g \cap h # {} => g = h
    BY <1>2, GroupsAre
  <2> QED BY <2>1, <2>2, <2>3, <2>4 DEF GroupsSound
<1>5. \A q \in m.pairs : PairSound(m, q)
  BY <1>1, <1>2, PairsSound
<1>6. MirrorsSound(m)
  <2> SUFFICES ASSUME NEW q \in m.pairs, NEW r \in m.pairs
               PROVE  q.mirror # r.original /\ (q.mirror = r.mirror => q = r)
    BY DEF MirrorsSound
  <2>1. /\ q.original \in Originals(p, q.mirror) /\ q = Pair(p, q.original, q.mirror) /\ q.mirror \in DOMAIN p
        /\ r.original \in Originals(p, r.mirror) /\ r = Pair(p, r.original, r.mirror) /\ r.mirror \in DOMAIN p
    BY <1>2, PairsAre
  <2>2. Name(p, q.mirror).flips # {} /\ Name(p, r.original).flips = {}
    BY <2>1, OriginalsAre
  <2>3. ASSUME q.mirror = r.mirror PROVE q = r
    BY <2>1, <2>3, OneOriginal
  <2> QED BY <2>2, <2>3
<1> QED BY <1>1, <1>3, <1>4, <1>5, <1>6, VisitsAre, SyncedAre DEF Sound

-----------------------------------------------------------------------------
(* The operations of layerStates.                                          *)

\* The layerStates of the image, and what a LayerManager keeps of them.
StatesOfLayers ==
  {ls \in [vis : SUBSET Layers, pri : [Layers -> Nat], now : Nat, flip : Flips] : \A l \in Layers : ls.pri[l] <= ls.now}
LayerImages == [vis : SUBSET Layers, flip : Flips, modified : BOOLEAN]

\* New layerStates are those of the image.
LEMMA NewTyped ==
  ASSUME NEW m, m.vis \subseteq Layers, m.flip \in Flips
  PROVE  LET ls == NewLayerStates(m)
         IN ls \in StatesOfLayers /\ ls.vis = m.vis /\ ls.flip = m.flip
BY DEF NewLayerStates, StatesOfLayers

\* Increment changes neither what is visible nor the flip.
LEMMA IncrementTyped ==
  ASSUME NEW ls \in StatesOfLayers, NEW flip \in Flips
  PROVE  /\ Increment(ls) \in StatesOfLayers /\ Increment(ls).vis = ls.vis /\ Increment(ls).flip = ls.flip
         /\ Increment([ls EXCEPT !.flip = flip]) \in StatesOfLayers
         /\ Increment([ls EXCEPT !.flip = flip]).vis = ls.vis /\ Increment([ls EXCEPT !.flip = flip]).flip = flip
<1>1. ASSUME NEW s \in StatesOfLayers
      PROVE  Increment(s) \in StatesOfLayers /\ Increment(s).vis = s.vis /\ Increment(s).flip = s.flip
  BY DEF Increment, StatesOfLayers
<1>2. /\ [ls EXCEPT !.flip = flip] \in StatesOfLayers
      /\ [ls EXCEPT !.flip = flip].vis = ls.vis /\ [ls EXCEPT !.flip = flip].flip = flip
  BY DEF StatesOfLayers
<1> QED BY <1>1, <1>2

\* Set shows or hides what it is given and nothing else.
LEMMA SetTyped ==
  ASSUME NEW ls \in StatesOfLayers, NEW S \in SUBSET Layers, NEW v \in BOOLEAN
  PROVE  /\ Set(ls, S, v) \in StatesOfLayers
         /\ Set(ls, S, v).vis = IF v THEN ls.vis \cup S ELSE ls.vis \ S
         /\ Set(ls, S, v).flip = ls.flip
<1>1. Set(ls, S, v).vis \in SUBSET Layers
  BY DEF Set, StatesOfLayers
<1>2. /\ Set(ls, S, v).pri \in [Layers -> Nat] /\ Set(ls, S, v).now \in Nat /\ Set(ls, S, v).flip \in Flips
      /\ \A l \in Layers : Set(ls, S, v).pri[l] <= Set(ls, S, v).now
  BY DEF Set, StatesOfLayers
<1>3. Set(ls, S, v) = [vis |-> Set(ls, S, v).vis, pri |-> Set(ls, S, v).pri, now |-> Set(ls, S, v).now, flip |-> Set(ls, S, v).flip]
  BY DEF Set
<1>4. Set(ls, S, v) \in StatesOfLayers
  BY <1>1, <1>2, <1>3 DEF StatesOfLayers
<1>5. Set(ls, S, v).vis = (IF v THEN ls.vis \cup S ELSE ls.vis \ S) /\ Set(ls, S, v).flip = ls.flip
  BY DEF Set
<1> QED BY <1>4, <1>5

\* The layer that normalizeGroup keeps is in the group, and visible when one is.
LEMMA KeptIsIn ==
  ASSUME Sound(names), NEW ls \in StatesOfLayers, NEW g \in names.groups
  PROVE  Kept(ls, g) \in g /\ (g \cap ls.vis # {} => Kept(ls, g) \in ls.vis)
<1>1. PICK n \in Nat : Layers = 1 .. n
  BY DEF Sound, LayersSound, Layers
<1>2. g \subseteq 0 .. n /\ g # {} /\ g \subseteq Layers
  BY <1>1 DEF Sound, LayersSound, GroupsSound, Layers
<1>3. Max(g) \in g
  BY <1>2, LastIsIn
<1> DEFINE on == g \cap ls.vis
           best == {l \in on : \A k \in on : ls.pri[k] <= ls.pri[l]}
<1>4. CASE on = {}
  BY <1>3, <1>4 DEF Kept
<1>5. CASE on # {}
  <2> DEFINE ages == {a \in Nat : \E l \in on : a = ls.now - ls.pri[l]}
  <2>1. /\ ls.now \in Nat /\ \A l \in on : ls.pri[l] \in Nat /\ ls.pri[l] <= ls.now
    BY <1>2 DEF StatesOfLayers
  <2>2. ages # {} /\ ages \in SUBSET Nat
    <3>1. PICK l \in on : TRUE
      BY <1>5
    <3>2. ls.now - ls.pri[l] \in Nat
      BY <2>1
    <3> QED BY <3>1, <3>2
  <2>3. Min(ages) \in ages /\ \A a \in ages : Min(ages) <= a
    BY <2>2, FirstIsIn
  <2>4. PICK l \in on : Min(ages) = ls.now - ls.pri[l]
    BY <2>3
  <2>5. \A k \in on : ls.pri[k] <= ls.pri[l]
    <3> SUFFICES ASSUME NEW k \in on PROVE ls.pri[k] <= ls.pri[l]
      OBVIOUS
    <3>1. ls.now - ls.pri[k] \in ages
      BY <2>1
    <3>2. Min(ages) <= ls.now - ls.pri[k]
      BY <2>3, <3>1
    <3> QED BY <2>1, <2>4, <3>2
  <2>6. l \in best
    BY <2>5
  <2>7. best \in SUBSET Nat
    BY <1>2
  <2>8. Min(best) \in best
    <3> HIDE DEF best
    <3> QED BY <2>6, <2>7, FirstIsIn
  <2>9. Kept(ls, g) = Min(best)
    BY <1>5 DEF Kept
  <2> QED BY <2>8, <2>9
<1> QED BY <1>4, <1>5

\* After normalizeGroup a group has one visible layer, a visible one if there was any.
LEMMA GroupsNormal ==
  ASSUME Sound(names), NEW ls \in StatesOfLayers
  PROVE  LET new == NormalizeGroups(ls)
         IN /\ new \in StatesOfLayers /\ new.flip = ls.flip
            /\ \A g \in names.groups : g \cap new.vis = {Kept(ls, g)}
            /\ \A l \in Layers \ names.radio : l \in new.vis <=> l \in ls.vis
<1> DEFINE kept == {Kept(ls, g) : g \in names.groups}
           hidden == Set(ls, names.radio \cap ls.vis, FALSE)
           new == NormalizeGroups(ls)
<1>1. \A g \in names.groups : Kept(ls, g) \in g /\ g \subseteq names.radio
  BY KeptIsIn DEF Sound, GroupsSound
<1>2. names.radio \subseteq Layers
  BY DEF Sound, LayersSound, Layers
<1>3. kept \subseteq names.radio
  BY <1>1
<1>4. hidden \in StatesOfLayers /\ hidden.vis = ls.vis \ (names.radio \cap ls.vis) /\ hidden.flip = ls.flip
  BY <1>2, SetTyped
<1>5. /\ Set(hidden, kept, TRUE) \in StatesOfLayers /\ Set(hidden, kept, TRUE).vis = hidden.vis \cup kept
      /\ Set(hidden, kept, TRUE).flip = hidden.flip
  BY <1>2, <1>3, <1>4, SetTyped
<1>6. new = Set(hidden, kept, TRUE)
  BY DEF NormalizeGroups
<1> HIDE DEF hidden, new
<1>7. ASSUME NEW g \in names.groups PROVE g \cap new.vis = {Kept(ls, g)}
  <2>1. \A h \in names.groups : g \cap h # {} => g = h
    BY DEF Sound, GroupsSound
  <2>2. \A l \in g : l \in kept => l = Kept(ls, g)
    BY <1>1, <2>1
  <2>3. \A l \in g : l \in new.vis <=> l \in kept
    BY <1>1, <1>4, <1>5, <1>6
  <2>4. Kept(ls, g) \in g /\ Kept(ls, g) \in kept
    BY <1>1
  <2> HIDE DEF kept
  <2> QED BY <2>2, <2>3, <2>4
<1>8. \A l \in Layers \ names.radio : l \in new.vis <=> l \in ls.vis
  BY <1>3, <1>4, <1>5, <1>6
<1> QED BY <1>4, <1>5, <1>6, <1>7, <1>8 DEF new

\* What copyStateRecursive sets, and what of it becomes visible.
Copied(ls, q) == {l \in DOMAIN q.twin : To(q, ls.flip) \in names.above[l]}
CopiedOn(ls, q) == {l \in Copied(ls, q) : q.twin[l] \in ls.vis}

\* The two sides of a pair, in one order or the other.
LEMMA SidesAre ==
  ASSUME Sound(names), NEW q \in names.pairs, NEW flip \in Flips
  PROVE  /\ {To(q, flip), From(q, flip)} = {q.original, q.mirror} /\ To(q, flip) # From(q, flip)
         /\ To(q, flip) \in Layers /\ From(q, flip) \in Layers
         /\ Min(q.axes) \in q.axes /\ Min(q.axes) \in Axes
         /\ PairSound(names, q)
<1>1. PairSound(names, q)
  BY DEF Sound
<1>2. Min(q.axes) \in q.axes /\ Min(q.axes) \in Axes
  <2>1. q.axes \in SUBSET Nat /\ q.axes # {} /\ q.axes \subseteq Axes
    BY <1>1 DEF PairSound, Axes
  <2> QED BY <2>1, FirstIsIn
<1> QED BY <1>1, <1>2 DEF PairSound, To, From, Layers

\* What one pair of setFlipOne makes of the visible layers.
LEMMA ShowSideIs ==
  ASSUME Sound(names), NEW ls \in StatesOfLayers, NEW q \in names.pairs
  PROVE  LET new == ShowSide(ls, q)
             to == To(q, ls.flip)
             from == From(q, ls.flip)
         IN /\ new \in StatesOfLayers /\ new.flip = ls.flip
            /\ {from, to} \cap ls.vis = {} => new = ls
            /\ {from, to} \cap ls.vis # {} =>
                 new.vis = (ls.vis \ (Copied(ls, q) \cup {from})) \cup CopiedOn(ls, q) \cup {to}
<1> DEFINE new == ShowSide(ls, q)
           to == To(q, ls.flip)
           from == From(q, ls.flip)
           copied == Copied(ls, q)
           on == CopiedOn(ls, q)
           changed == {l \in copied : (l \in on) # (l \in ls.vis)}
           vis == (ls.vis \ (copied \cup {from})) \cup on \cup {to}
           plain == [l \in Layers |-> IF l \in changed THEN ls.now ELSE ls.pri[l]]
           pri == [plain EXCEPT ![from] = Min({ls.pri[from], ls.pri[to]}), ![to] = Max({ls.pri[from], ls.pri[to]})]
<1>1. CASE {from, to} \cap ls.vis = {}
  BY <1>1 DEF ShowSide, StatesOfLayers
<1>2. CASE {from, to} \cap ls.vis # {}
  <2>1. new = [vis |-> vis, pri |-> pri, now |-> ls.now, flip |-> ls.flip]
    BY <1>2 DEF ShowSide, Copied, CopiedOn
  <2>2. /\ ls.vis \subseteq Layers /\ ls.now \in Nat /\ ls.flip \in Flips /\ ls.pri \in [Layers -> Nat]
        /\ \A l \in Layers : ls.pri[l] <= ls.now
    BY DEF StatesOfLayers
  <2>3. to \in Layers /\ from \in Layers /\ PairSound(names, q) /\ to # from
    BY <2>2, SidesAre
  <2>4. vis \in SUBSET Layers
    BY <2>2, <2>3 DEF Copied, CopiedOn, PairSound, Layers
  <2>5. /\ Min({ls.pri[from], ls.pri[to]}) \in {ls.pri[from], ls.pri[to]}
        /\ Max({ls.pri[from], ls.pri[to]}) \in {ls.pri[from], ls.pri[to]}
    <3>1. {ls.pri[from], ls.pri[to]} \in SUBSET (0 .. ls.now) /\ {ls.pri[from], ls.pri[to]} \in SUBSET Nat
      BY <2>2, <2>3
    <3> QED BY <2>2, <3>1, FirstIsIn, LastIsIn
  <2>6. pri \in [Layers -> Nat] /\ \A l \in Layers : pri[l] <= ls.now
    <3>1. ls.pri[from] \in Nat /\ ls.pri[to] \in Nat /\ ls.pri[from] <= ls.now /\ ls.pri[to] <= ls.now
      BY <2>2, <2>3
    <3>2. plain \in [Layers -> Nat] /\ \A l \in Layers : plain[l] <= ls.now
      <4> HIDE DEF changed
      <4> QED BY <2>2
    <3> HIDE DEF plain, from, to
    <3> QED BY <2>3, <2>5, <3>1, <3>2
  <2>7. new \in StatesOfLayers
    <3> HIDE DEF pri, vis, new
    <3> QED BY <2>1, <2>2, <2>4, <2>6 DEF StatesOfLayers
  <2>8. new.vis = vis /\ new.flip = ls.flip
    <3> HIDE DEF new, pri, vis
    <3> QED BY <2>1
  <2> HIDE DEF new, pri
  <2> QED BY <1>2, <2>7, <2>8 DEF new
<1> QED BY <1>1, <1>2

\* The pairs one after another.
InTurn(pass, n, ls, visit) ==
  /\ pass \in [0 .. n -> StatesOfLayers] /\ pass[0] = ls /\ pass[n] = ShowSides(ls, visit)
  /\ \A i \in 1 .. n : visit[i] \in names.pairs /\ pass[i] = ShowSide(pass[i - 1], visit[i])
  /\ \A q \in names.pairs : \E i \in 1 .. n : visit[i] = q

\* setFlipOne passes over the pairs in the order of the maps.
LEMMA SidesInTurn ==
  ASSUME Sound(names), NEW ls \in StatesOfLayers, NEW visit \in names.visits
  PROVE  \E n \in Nat : \E pass : InTurn(pass, n, ls, visit)
<1>1. PICK n \in Nat : visit \in [1 .. n -> names.pairs] /\ \A q \in names.pairs : \E i \in 1 .. n : visit[i] = q
  BY DEF Sound, VisitsSound
<1>2. Len(visit) = n
  BY <1>1
<1> DEFINE step == [i \in 1 .. n |-> [s \in StatesOfLayers |-> ShowSide(s, visit[i])]]
<1>3. step \in [1 .. n -> [StatesOfLayers -> StatesOfLayers]]
  <2>1. \A i \in 1 .. n, s \in StatesOfLayers : ShowSide(s, visit[i]) \in StatesOfLayers
    BY <1>1, ShowSideIs
  <2> QED BY <2>1
<1>4. PICK f \in [0 .. n -> StatesOfLayers] : Iterated(f, ls, step, n)
  <2> HIDE DEF step
  <2> QED BY <1>3, Iterates
<1>5. \A i \in 1 .. n : f[i - 1] \in StatesOfLayers
  OBVIOUS
<1> DEFINE Sides(g) == [i \in 0 .. n |-> IF i = 0 THEN ls ELSE ShowSide(g[i - 1], visit[i])]
<1>6. f = Sides(f)
  <2>1. \A i \in 1 .. n : f[i] = ShowSide(f[i - 1], visit[i])
    BY <1>4, <1>5 DEF Iterated
  <2>2. \A i \in 0 .. n : i # 0 => i \in 1 .. n
    OBVIOUS
  <2> HIDE DEF step
  <2> QED BY <1>4, <2>1, <2>2 DEF Iterated
<1> DEFINE pass == CHOOSE g : g = Sides(g)
<1>7. pass = Sides(pass)
  BY <1>6
<1>8. ShowSides(ls, visit) = pass[n]
  BY <1>2 DEF ShowSides
<1>9. \A i \in 1 .. n : pass[i] = ShowSide(pass[i - 1], visit[i])
  <2> HIDE DEF pass
  <2> QED BY <1>7
<1>10. pass[0] = ls
  <2> HIDE DEF pass
  <2> QED BY <1>7
<1>11. \A i \in 0 .. n : pass[i] \in StatesOfLayers
  <2> DEFINE A == {i \in 0 .. n : pass[i] \in StatesOfLayers}
  <2>1. 0 \in A
    BY <1>10
  <2>2. \A i \in 1 .. n : i - 1 \in A => i \in A
    <3> HIDE DEF pass
    <3> QED BY <1>1, <1>9, ShowSideIs
  <2>3. \A i \in 0 .. n : i \in A
    <3> HIDE DEF A
    <3> QED BY <2>1, <2>2, Induction
  <2> QED BY <2>3
<1>12. pass \in [0 .. n -> StatesOfLayers]
  <2> HIDE DEF pass
  <2> QED BY <1>7, <1>11
<1> HIDE DEF pass
<1>13. InTurn(pass, n, ls, visit)
  BY <1>1, <1>8, <1>9, <1>10, <1>12 DEF InTurn
<1> QED BY <1>13

-----------------------------------------------------------------------------
(* Groups of radio buttons with one visible layer.                         *)

\* Groups that are copied completely among themselves, and those with one visible layer each.
Family(F) ==
  /\ F \in SUBSET names.groups
  /\ \A h \in F, pair \in names.pairs :
       h \cap DOMAIN pair.twin # {} =>
         h \subseteq DOMAIN pair.twin /\ {pair.twin[l] : l \in h} \in F

OnePer(F, vis) == \A g \in F : \E l \in g : g \cap vis = {l}

\* One pair of setFlipOne leaves every group of a family with one visible layer.
LEMMA ShowSideOnePer ==
  ASSUME Sound(names), NEW ls \in StatesOfLayers, NEW q \in names.pairs, NEW F, Family(F), OnePer(F, ls.vis)
  PROVE  OnePer(F, ShowSide(ls, q).vis)
<1> DEFINE new == ShowSide(ls, q)
           to == To(q, ls.flip)
           from == From(q, ls.flip)
           copied == Copied(ls, q)
           on == CopiedOn(ls, q)
<1>1. /\ {from, to} \cap ls.vis = {} => new = ls
      /\ {from, to} \cap ls.vis # {} => new.vis = (ls.vis \ (copied \cup {from})) \cup on \cup {to}
  BY ShowSideIs
<1>2. ls.flip \in Flips
  BY DEF StatesOfLayers
<1>3. {to, from} = {q.original, q.mirror} /\ to # from /\ PairSound(names, q)
  BY <1>2, SidesAre
<1>4. on = {l \in copied : q.twin[l] \in ls.vis} /\ copied = {l \in DOMAIN q.twin : to \in names.above[l]}
  BY DEF Copied, CopiedOn
<1> SUFFICES ASSUME NEW g \in F, {from, to} \cap ls.vis # {} PROVE \E l \in g : g \cap new.vis = {l}
  BY <1>1 DEF OnePer
<1>5. new.vis = (ls.vis \ (copied \cup {from})) \cup on \cup {to}
  BY <1>1
<1>6. PICK k \in g : g \cap ls.vis = {k}
  BY DEF OnePer
<1>7. g \in names.groups /\ (\A i, j \in g : names.above[i] = names.above[j]) /\ (to \in g <=> from \in g)
  BY <1>3 DEF Family, Sound, GroupsSound, PairSound
<1> HIDE DEF new, to, from, copied, on
<1>8. CASE g \cap copied = {}
  <2>1. g \cap new.vis = (g \cap (ls.vis \ {from})) \cup (g \cap {to})
    BY <1>4, <1>5, <1>8
  <2>2. CASE to \in g
    <3>1. k \in {from, to}
      BY <1>6, <1>7, <2>2
    <3>2. g \cap new.vis = {to}
      BY <1>3, <1>6, <2>1, <2>2, <3>1
    <3> QED BY <2>2, <3>2
  <2>3. CASE to \notin g
    <3>1. g \cap new.vis = {k}
      BY <1>6, <1>7, <2>1, <2>3
    <3> QED BY <3>1
  <2> QED BY <2>2, <2>3
<1>9. CASE g \cap copied # {}
  <2>1. PICK i \in g : i \in DOMAIN q.twin /\ to \in names.above[i]
    BY <1>4, <1>9
  <2>2. g \subseteq DOMAIN q.twin /\ {q.twin[l] : l \in g} \in F
    BY <2>1 DEF Family
  <2>3. g \subseteq copied
    BY <1>4, <1>7, <2>1, <2>2
  <2>4. to \notin g /\ from \notin g
    BY <1>3, <1>7, <2>1 DEF PairSound
  <2>5. g \cap new.vis = {l \in g : q.twin[l] \in ls.vis}
    BY <1>4, <1>5, <2>3, <2>4
  <2>6. PICK j \in {q.twin[l] : l \in g} : {q.twin[l] : l \in g} \cap ls.vis = {j}
    BY <2>2 DEF OnePer
  <2>7. PICK l \in g : j = q.twin[l]
    BY <2>6
  <2>8. \A i1 \in g : q.twin[q.twin[i1]] = i1
    BY <1>3, <2>2 DEF PairSound
  <2>9. \A i1 \in g : q.twin[i1] \in ls.vis <=> i1 = l
    BY <2>6, <2>7, <2>8
  <2>10. g \cap new.vis = {l}
    BY <2>5, <2>9
  <2> QED BY <2>10
<1> QED BY <1>8, <1>9

\* So does a whole pass.
LEMMA SetFlipOnePer ==
  ASSUME Sound(names), NEW ls \in StatesOfLayers, NEW visit \in names.visits, NEW F, Family(F), OnePer(F, ls.vis)
  PROVE  OnePer(F, ShowSides(ls, visit).vis)
<1>1. PICK n \in Nat : \E pass : InTurn(pass, n, ls, visit)
  BY SidesInTurn
<1>2. PICK pass : InTurn(pass, n, ls, visit)
  BY <1>1
<1> DEFINE A == {i \in 0 .. n : OnePer(F, pass[i].vis)}
<1>3. 0 \in A
  BY <1>2 DEF InTurn
<1>4. ASSUME NEW i \in 1 .. n, i - 1 \in A PROVE i \in A
  <2>1. pass[i - 1] \in StatesOfLayers /\ visit[i] \in names.pairs /\ pass[i] = ShowSide(pass[i - 1], visit[i])
    BY <1>2 DEF InTurn
  <2>2. OnePer(F, pass[i - 1].vis)
    BY <1>4
  <2>3. OnePer(F, ShowSide(pass[i - 1], visit[i]).vis)
    BY <2>1, <2>2, ShowSideOnePer
  <2> QED BY <2>1, <2>3
<1>5. n \in A
  <2> HIDE DEF A
  <2>1. \A i \in 1 .. n : i - 1 \in A => i \in A
    BY <1>4
  <2>2. \A i \in 0 .. n : i \in A
    BY <1>3, <2>1, Induction
  <2> QED BY <2>2
<1> QED BY <1>2, <1>5 DEF InTurn

-----------------------------------------------------------------------------
(* Pairs with the wrong side hidden.                                       *)

\* No mirror that does not go with the flip, and none that normalizeGroup would fall back to.
Hidden(vis, flip) == \A q \in names.pairs : ~Nested(q) /\ Min(q.axes) # flip => q.mirror \notin vis
Held(vis) ==
  \A g \in names.groups, q \in names.pairs :
    ~Nested(q) /\ q.original \in g => g \cap vis # {} \/ \A r \in names.pairs : Max(g) # r.mirror
Ready(vis, flip) == Hidden(vis, flip) /\ Held(vis)

\* A pair on the level of another one is not below a third one.
LEMMA NotNested ==
  ASSUME Sound(names), NEW q \in names.pairs, ~Nested(q), NEW r \in names.pairs
  PROVE  /\ r.original \notin names.above[q.original] /\ r.mirror \notin names.above[q.original]
         /\ names.above[q.mirror] = names.above[q.original]
         /\ q.original \notin DOMAIN r.twin /\ q.mirror \notin DOMAIN r.twin
         /\ r.original = q.original => ~Nested(r)
BY DEF Sound, PairSound, Nested

\* A mirror that does not go with the flip stays hidden and a group keeps a visible layer.
LEMMA ShowSideReady ==
  ASSUME Sound(names), NEW ls \in StatesOfLayers, NEW r \in names.pairs, NEW q \in names.pairs, ~Nested(q)
  PROVE  /\ Min(q.axes) # ls.flip /\ (r = q \/ q.mirror \notin ls.vis) => q.mirror \notin ShowSide(ls, r).vis
         /\ \A g \in names.groups : q.original \in g /\ g \cap ls.vis # {} => g \cap ShowSide(ls, r).vis # {}
<1> DEFINE new == ShowSide(ls, r)
           to == To(r, ls.flip)
           from == From(r, ls.flip)
           copied == Copied(ls, r)
           on == CopiedOn(ls, r)
<1>1. /\ {from, to} \cap ls.vis = {} => new = ls
      /\ {from, to} \cap ls.vis # {} => new.vis = (ls.vis \ (copied \cup {from})) \cup on \cup {to}
  BY ShowSideIs
<1>2. ls.flip \in Flips
  BY DEF StatesOfLayers
<1>3. {to, from} = {r.original, r.mirror} /\ to # from /\ PairSound(names, r)
  BY <1>2, SidesAre
<1>4. on \subseteq copied /\ copied \subseteq DOMAIN r.twin /\ \A l \in copied : to \in names.above[l]
  BY DEF Copied, CopiedOn
<1>5. /\ q.original \notin copied /\ q.mirror \notin copied /\ to \notin names.above[q.original]
  BY <1>3, <1>4, NotNested
<1>6. ASSUME Min(q.axes) # ls.flip, r = q \/ q.mirror \notin ls.vis PROVE q.mirror \notin new.vis
  <2>1. q.mirror # to
    BY <1>6 DEF To, Sound, MirrorsSound
  <2>2. r = q => q.mirror = from
    BY <1>6 DEF From
  <2> HIDE DEF new, to, from, copied, on
  <2> QED BY <1>1, <1>4, <1>5, <1>6, <2>1, <2>2
<1>7. ASSUME NEW g \in names.groups, q.original \in g, g \cap ls.vis # {} PROVE g \cap new.vis # {}
  <2>1. PICK k \in g : k \in ls.vis
    BY <1>7
  <2>2. names.above[k] = names.above[q.original]
    BY <1>7 DEF Sound, GroupsSound
  <2>4. to \in g <=> from \in g
    BY <1>3 DEF PairSound
  <2>3. k \notin copied
    BY <1>4, <1>5, <2>2
  <2> HIDE DEF new, to, from, copied, on
  <2> QED BY <1>1, <2>1, <2>3, <2>4
<1> QED BY <1>6, <1>7

\* A pass hides the mirrors that do not go with the flip.
LEMMA SetFlipReady ==
  ASSUME Sound(names), NEW ls \in StatesOfLayers, NEW visit \in names.visits
  PROVE  LET new == ShowSides(ls, visit)
         IN new \in StatesOfLayers /\ new.flip = ls.flip /\ Hidden(new.vis, ls.flip) /\ (Held(ls.vis) => Held(new.vis))
<1>1. PICK n \in Nat : \E pass : InTurn(pass, n, ls, visit)
  BY SidesInTurn
<1>2. PICK pass : InTurn(pass, n, ls, visit)
  BY <1>1
<1>3. /\ pass \in [0 .. n -> StatesOfLayers] /\ pass[0] = ls /\ pass[n] = ShowSides(ls, visit)
      /\ \A i \in 1 .. n : visit[i] \in names.pairs /\ pass[i] = ShowSide(pass[i - 1], visit[i]) /\ pass[i - 1] \in StatesOfLayers
      /\ \A q \in names.pairs : \E i \in 1 .. n : visit[i] = q
  BY <1>2 DEF InTurn
<1>4. \A i \in 0 .. n : pass[i].flip = ls.flip
  <2> DEFINE A == {i \in 0 .. n : pass[i].flip = ls.flip}
  <2>1. 0 \in A
    BY <1>3
  <2>2. ASSUME NEW i \in 1 .. n, i - 1 \in A PROVE i \in A
    <3>1. pass[i - 1] \in StatesOfLayers /\ visit[i] \in names.pairs /\ pass[i] = ShowSide(pass[i - 1], visit[i])
      BY <1>3
    <3> QED BY <2>2, <3>1, ShowSideIs
  <2>3. \A i \in 0 .. n : i \in A
    <3> HIDE DEF A
    <3>1. \A i \in 1 .. n : i - 1 \in A => i \in A
      BY <2>2
    <3> QED BY <2>1, <3>1, Induction
  <2> QED BY <2>3
<1>5. ASSUME NEW q \in names.pairs, ~Nested(q), Min(q.axes) # ls.flip PROVE q.mirror \notin pass[n].vis
  <2>1. PICK j \in 1 .. n : visit[j] = q
    BY <1>3
  <2> DEFINE A == {i \in 0 .. n : i < j \/ q.mirror \notin pass[i].vis}
  <2>2. 0 \in A
    OBVIOUS
  <2>3. ASSUME NEW i \in 1 .. n, i - 1 \in A PROVE i \in A
    <3>1. pass[i - 1] \in StatesOfLayers /\ pass[i - 1].flip = ls.flip /\ visit[i] \in names.pairs
      BY <1>3, <1>4
    <3>2. CASE i < j
      BY <3>2
    <3>3. CASE i >= j
      <4>1. visit[i] = q \/ q.mirror \notin pass[i - 1].vis
        BY <2>1, <2>3, <3>3
      <4>2. q.mirror \notin ShowSide(pass[i - 1], visit[i]).vis
        BY <1>5, <3>1, <4>1, ShowSideReady
      <4> QED BY <1>3, <4>2
    <3> QED BY <3>2, <3>3
  <2>4. n \in A
    <3> HIDE DEF A
    <3>1. \A i \in 1 .. n : i - 1 \in A => i \in A
      BY <2>3
    <3>2. \A i \in 0 .. n : i \in A
      BY <2>2, <3>1, Induction
    <3> QED BY <3>2
  <2> QED BY <2>4
<1>6. ASSUME NEW g \in names.groups, NEW q \in names.pairs, ~Nested(q), q.original \in g, g \cap ls.vis # {}
      PROVE  g \cap pass[n].vis # {}
  <2> DEFINE A == {i \in 0 .. n : g \cap pass[i].vis # {}}
  <2>1. 0 \in A
    BY <1>3, <1>6
  <2>2. ASSUME NEW i \in 1 .. n, i - 1 \in A PROVE i \in A
    <3>1. pass[i - 1] \in StatesOfLayers /\ visit[i] \in names.pairs /\ pass[i] = ShowSide(pass[i - 1], visit[i])
      BY <1>3
    <3>2. g \cap ShowSide(pass[i - 1], visit[i]).vis # {}
      BY <1>6, <2>2, <3>1, ShowSideReady
    <3> QED BY <3>1, <3>2
  <2>3. n \in A
    <3> HIDE DEF A
    <3>1. \A i \in 1 .. n : i - 1 \in A => i \in A
      BY <2>2
    <3>2. \A i \in 0 .. n : i \in A
      BY <2>1, <3>1, Induction
    <3> QED BY <3>2
  <2> QED BY <2>3
<1>7. Hidden(pass[n].vis, ls.flip)
  BY <1>5 DEF Hidden
<1>8. Held(ls.vis) => Held(pass[n].vis)
  BY <1>6 DEF Held
<1>9. pass[n] \in StatesOfLayers /\ pass[n].flip = ls.flip
  BY <1>3, <1>4
<1> QED BY <1>3, <1>7, <1>8, <1>9

\* The other mirrors of the layer that a pair hides do not show it again.
Others(q, vis, flip) ==
  \A r \in names.pairs : r # q /\ r.original = q.original /\ Min(r.axes) # flip => r.mirror \notin vis

\* A pair hides its original for good when the flip is its own.
LEMMA ShowSideShows ==
  ASSUME Sound(names), NEW ls \in StatesOfLayers, NEW r \in names.pairs, NEW q \in names.pairs, ~Nested(q),
         Min(q.axes) = ls.flip, Others(q, ls.vis, ls.flip)
  PROVE  /\ Others(q, ShowSide(ls, r).vis, ls.flip)
         /\ r = q \/ q.original \notin ls.vis => q.original \notin ShowSide(ls, r).vis
<1> DEFINE new == ShowSide(ls, r)
           to == To(r, ls.flip)
           from == From(r, ls.flip)
           copied == Copied(ls, r)
           on == CopiedOn(ls, r)
<1>1. /\ {from, to} \cap ls.vis = {} => new = ls
      /\ {from, to} \cap ls.vis # {} => new.vis = (ls.vis \ (copied \cup {from})) \cup on \cup {to}
  BY ShowSideIs
<1>2. on \subseteq copied /\ copied \subseteq DOMAIN r.twin
  BY DEF Copied, CopiedOn
<1>3. q.original \notin on
  BY <1>2, NotNested
<1>4. Others(q, new.vis, ls.flip)
  <2> SUFFICES ASSUME NEW s \in names.pairs, s # q, s.original = q.original, Min(s.axes) # ls.flip
               PROVE  s.mirror \notin new.vis
    BY DEF Others
  <2>1. ~Nested(s)
    BY NotNested
  <2>2. s.mirror \notin ls.vis
    BY DEF Others
  <2> QED BY <2>1, <2>2, ShowSideReady
<1>5. ASSUME r = q PROVE q.original \notin new.vis
  <2>1. from = q.original /\ to = q.mirror
    BY <1>5 DEF To, From
  <2>2. q.original # q.mirror
    BY DEF Sound, PairSound
  <2> HIDE DEF new, to, from, copied, on
  <2> QED BY <1>1, <1>3, <2>1, <2>2
<1>6. ASSUME r # q, q.original \notin ls.vis PROVE q.original \notin new.vis
  <2>1. CASE to = q.original
    <3>1. r.original = q.original /\ Min(r.axes) # ls.flip /\ from = r.mirror
      BY <2>1 DEF To, From, Sound, MirrorsSound
    <3>2. from \notin ls.vis
      BY <1>6, <3>1 DEF Others
    <3> HIDE DEF new, to, from, copied, on
    <3> QED BY <1>1, <1>6, <2>1, <3>2
  <2>2. CASE to # q.original
    <3> HIDE DEF new, to, from, copied, on
    <3> QED BY <1>1, <1>3, <1>6, <2>2
  <2> QED BY <2>1, <2>2
<1> QED BY <1>4, <1>5, <1>6

\* So does a whole pass.
LEMMA SetFlipShows ==
  ASSUME Sound(names), NEW ls \in StatesOfLayers, NEW visit \in names.visits, NEW q \in names.pairs, ~Nested(q),
         Min(q.axes) = ls.flip, Others(q, ls.vis, ls.flip)
  PROVE  q.original \notin ShowSides(ls, visit).vis
<1>1. PICK n \in Nat : \E pass : InTurn(pass, n, ls, visit)
  BY SidesInTurn
<1>2. PICK pass : InTurn(pass, n, ls, visit)
  BY <1>1
<1>3. /\ pass \in [0 .. n -> StatesOfLayers] /\ pass[0] = ls /\ pass[n] = ShowSides(ls, visit)
      /\ \A i \in 1 .. n : visit[i] \in names.pairs /\ pass[i] = ShowSide(pass[i - 1], visit[i]) /\ pass[i - 1] \in StatesOfLayers
      /\ \A r \in names.pairs : \E i \in 1 .. n : visit[i] = r
  BY <1>2 DEF InTurn
<1>4. PICK j \in 1 .. n : visit[j] = q
  BY <1>3
<1> DEFINE A == {i \in 0 .. n : /\ pass[i].flip = ls.flip /\ Others(q, pass[i].vis, ls.flip)
                                /\ i < j \/ q.original \notin pass[i].vis}
<1>5. 0 \in A
  BY <1>3
<1>6. ASSUME NEW i \in 1 .. n, i - 1 \in A PROVE i \in A
  <2>1. /\ pass[i - 1] \in StatesOfLayers /\ pass[i - 1].flip = ls.flip /\ visit[i] \in names.pairs
        /\ Others(q, pass[i - 1].vis, pass[i - 1].flip) /\ pass[i] = ShowSide(pass[i - 1], visit[i])
    BY <1>3, <1>6
  <2>2. pass[i].flip = ls.flip
    BY <2>1, ShowSideIs
  <2>3. Others(q, pass[i].vis, ls.flip)
    BY <2>1, ShowSideShows
  <2>4. i < j \/ q.original \notin pass[i].vis
    <3> SUFFICES ASSUME i >= j PROVE q.original \notin pass[i].vis
      OBVIOUS
    <3>1. visit[i] = q \/ q.original \notin pass[i - 1].vis
      BY <1>4, <1>6
    <3> QED BY <2>1, <3>1, ShowSideShows
  <2> QED BY <2>2, <2>3, <2>4
<1>7. n \in A
  <2> HIDE DEF A
  <2>1. \A i \in 1 .. n : i - 1 \in A => i \in A
    BY <1>6
  <2>2. \A i \in 0 .. n : i \in A
    BY <1>5, <2>1, Induction
  <2> QED BY <2>2
<1> QED BY <1>3, <1>7

\* The two stages of Normalize before the flip.
Stages(forced, start, ls, visit) ==
  /\ forced \in StatesOfLayers /\ start \in StatesOfLayers /\ start.flip = ls.flip
  /\ forced.vis = ls.vis \cup names.forced
  /\ \A g \in names.groups : g \cap start.vis = {Kept(forced, g)}
  /\ \A l \in Layers \ names.radio : l \in start.vis <=> l \in forced.vis
  /\ Normalize(ls, visit) = ShowSides(start, visit)

\* Normalize forces layers, keeps one per group, and passes over the pairs.
LEMMA NormalizeIs ==
  ASSUME Sound(names), NEW ls \in StatesOfLayers, NEW visit \in names.visits
  PROVE  \E forced, start : Stages(forced, start, ls, visit)
<1> DEFINE set == Set(Increment(ls), names.forced, TRUE)
           forced == Increment(set)
           grouped == NormalizeGroups(forced)
           start == Increment([Increment(grouped) EXCEPT !.flip = ls.flip])
<1>1. ls.flip \in Flips /\ names.forced \in SUBSET Layers
  BY DEF StatesOfLayers, Sound, LayersSound, Layers
<1>2. Increment(ls) \in StatesOfLayers /\ Increment(ls).vis = ls.vis /\ Increment(ls).flip = ls.flip
  BY <1>1, IncrementTyped
<1>3. set \in StatesOfLayers /\ set.vis = ls.vis \cup names.forced /\ set.flip = ls.flip
  <2>1. /\ Set(Increment(ls), names.forced, TRUE) \in StatesOfLayers
        /\ Set(Increment(ls), names.forced, TRUE).vis = Increment(ls).vis \cup names.forced
        /\ Set(Increment(ls), names.forced, TRUE).flip = Increment(ls).flip
    BY <1>1, <1>2, SetTyped
  <2> QED BY <1>2, <2>1
<1> HIDE DEF set
<1>4. forced \in StatesOfLayers /\ forced.vis = ls.vis \cup names.forced /\ forced.flip = ls.flip
  BY <1>1, <1>3, IncrementTyped
<1> HIDE DEF forced
<1>5. /\ grouped \in StatesOfLayers /\ grouped.flip = ls.flip
      /\ \A g \in names.groups : g \cap grouped.vis = {Kept(forced, g)}
      /\ \A l \in Layers \ names.radio : l \in grouped.vis <=> l \in forced.vis
  BY <1>4, GroupsNormal
<1> HIDE DEF grouped
<1>6. Increment(grouped) \in StatesOfLayers /\ Increment(grouped).vis = grouped.vis
  BY <1>1, <1>5, IncrementTyped
<1>7. start \in StatesOfLayers /\ start.vis = grouped.vis /\ start.flip = ls.flip
  BY <1>1, <1>6, IncrementTyped
<1>8. Normalize(ls, visit) = ShowSides(start, visit)
  BY DEF Normalize, SetFlip, set, forced, grouped, start
<1> HIDE DEF start
<1>9. Stages(forced, start, ls, visit)
  BY <1>4, <1>5, <1>7, <1>8 DEF Stages
<1> QED BY <1>9

\* After Normalize a group of a family has one visible layer.
LEMMA NormalizeOnePer ==
  ASSUME Sound(names), NEW ls \in StatesOfLayers, NEW visit \in names.visits, NEW F, Family(F)
  PROVE  OnePer(F, Normalize(ls, visit).vis)
<1>1. PICK forced, start : Stages(forced, start, ls, visit)
  BY NormalizeIs
<1>2. \A g \in F : Kept(forced, g) \in g /\ g \cap start.vis = {Kept(forced, g)}
  BY <1>1, KeptIsIn DEF Stages, Family
<1>3. OnePer(F, start.vis)
  BY <1>2 DEF OnePer
<1> QED BY <1>1, <1>3, SetFlipOnePer DEF Stages

\* After Normalize an image is ready for the next one.
LEMMA NormalizeReady ==
  ASSUME Sound(names), NEW ls \in StatesOfLayers, NEW visit \in names.visits
  PROVE  LET new == Normalize(ls, visit)
         IN new \in StatesOfLayers /\ new.flip = ls.flip /\ Ready(new.vis, ls.flip)
<1>1. PICK forced, start : Stages(forced, start, ls, visit)
  BY NormalizeIs
<1>2. \A g \in names.groups : Kept(forced, g) \in g /\ g \cap start.vis = {Kept(forced, g)}
  BY <1>1, KeptIsIn DEF Stages
<1>3. Held(start.vis)
  BY <1>2 DEF Held
<1>4. start \in StatesOfLayers /\ start.flip = ls.flip /\ Normalize(ls, visit) = ShowSides(start, visit)
  BY <1>1 DEF Stages
<1>5. /\ ShowSides(start, visit) \in StatesOfLayers /\ ShowSides(start, visit).flip = start.flip
      /\ Hidden(ShowSides(start, visit).vis, start.flip) /\ Held(ShowSides(start, visit).vis)
  BY <1>3, <1>4, SetFlipReady
<1> QED BY <1>4, <1>5 DEF Ready

\* As in FlipShown.
Straight(vis, flip) ==
  \A pair \in names.pairs :
    Odd(pair) \/ (IF flip \in pair.axes THEN pair.original ELSE pair.mirror) \notin vis

\* A set of one axis has it as its first.
LEMMA OneAxis ==
  ASSUME NEW axes \in SUBSET Axes, axes # {}, ~(Cardinality(axes) > 1), NEW a \in axes
  PROVE  Min(axes) = a
<1>1. Min(axes) \in axes
  <2>1. axes \in SUBSET Nat
    BY DEF Axes
  <2> QED BY <2>1, FirstIsIn
<1> SUFFICES ASSUME Min(axes) # a PROVE FALSE
  OBVIOUS
<1>2. IsFiniteSet(axes)
  <2>1. IsFiniteSet(Axes)
    <3>1. 1 \in Int /\ 3 \in Int
      OBVIOUS
    <3>2. IsFiniteSet(1 .. 3)
      BY <3>1, FS_Interval
    <3> QED BY <3>2 DEF Axes
  <2> QED BY <2>1, FS_Subset
<1>3. Cardinality({a}) = 1 /\ IsFiniteSet({a})
  BY FS_Singleton
<1>4. Cardinality({a} \cup {Min(axes)}) = 2
  BY <1>3, FS_AddElement
<1>5. {a} \cup {Min(axes)} \subseteq axes
  BY <1>1
<1>6. Cardinality({a} \cup {Min(axes)}) <= Cardinality(axes)
  BY <1>2, <1>5, FS_Subset
<1>7. Cardinality(axes) \in Nat
  BY <1>2, FS_CardinalityType
<1> QED BY <1>4, <1>6, <1>7

\* When an image was ready Normalize leaves no wrong side visible.
LEMMA NormalizeShows ==
  ASSUME Sound(names), NEW ls \in StatesOfLayers, NEW visit \in names.visits, Ready(ls.vis, ls.flip)
  PROVE  Straight(Normalize(ls, visit).vis, ls.flip)
<1>1. PICK forced, start : Stages(forced, start, ls, visit)
  BY NormalizeIs
<1>2. /\ forced \in StatesOfLayers /\ start \in StatesOfLayers /\ start.flip = ls.flip
      /\ forced.vis = ls.vis \cup names.forced
      /\ \A g \in names.groups : g \cap start.vis = {Kept(forced, g)}
      /\ \A l \in Layers \ names.radio : l \in start.vis <=> l \in forced.vis
      /\ Normalize(ls, visit) = ShowSides(start, visit)
  BY <1>1 DEF Stages
<1> SUFFICES ASSUME NEW q \in names.pairs, ~Odd(q)
             PROVE  (IF ls.flip \in q.axes THEN q.original ELSE q.mirror) \notin ShowSides(start, visit).vis
  BY <1>2 DEF Straight
<1>3. /\ ~Nested(q) /\ ~(Cardinality(q.axes) > 1)
      /\ q.original \in names.forced => \A p \in names.pairs : p.original = q.original => p = q
  BY DEF Odd
<1>4. PairSound(names, q) /\ Min(q.axes) \in q.axes
  BY SidesAre DEF Flips
<1>5. CASE ls.flip \notin q.axes
  <2>1. Min(q.axes) # start.flip
    BY <1>2, <1>4, <1>5
  <2>2. Hidden(ShowSides(start, visit).vis, start.flip)
    BY <1>2, SetFlipReady
  <2> QED BY <1>3, <1>5, <2>1, <2>2 DEF Hidden
<1>6. CASE ls.flip \in q.axes
  <2>1. Min(q.axes) = start.flip
    BY <1>2, <1>3, <1>4, <1>6, OneAxis DEF PairSound
  <2>2. ASSUME NEW r \in names.pairs, r # q, r.original = q.original, Min(r.axes) # start.flip
        PROVE  r.mirror \notin start.vis
    <3>1. PairSound(names, r) /\ ~Nested(r)
      BY <1>3, <2>2, NotNested DEF Sound
    <3>2. r.mirror \notin names.forced
      BY <1>3, <2>2, <3>1 DEF PairSound
    <3>3. r.mirror \notin ls.vis
      BY <1>2, <2>2, <3>1 DEF Ready, Hidden
    <3>4. r.mirror \notin forced.vis /\ r.mirror \in Layers
      BY <1>2, <3>1, <3>2, <3>3 DEF PairSound, Layers
    <3>5. CASE r.mirror \notin names.radio
      BY <1>2, <3>4, <3>5
    <3>6. CASE r.mirror \in names.radio
      <4>1. PICK g \in names.groups : r.mirror \in g
        BY <3>6 DEF Sound, GroupsSound
      <4>2. r.original \in g
        BY <3>1, <4>1 DEF PairSound
      <4>3. g \cap ls.vis # {} \/ \A p \in names.pairs : Max(g) # p.mirror
        BY <3>1, <4>2 DEF Ready, Held
      <4>4. Kept(forced, g) # r.mirror
        <5>1. CASE g \cap forced.vis # {}
          BY <1>2, <3>4, <5>1, KeptIsIn
        <5>2. CASE g \cap forced.vis = {}
          <6>1. Kept(forced, g) = Max(g)
            BY <5>2 DEF Kept
          <6>2. g \cap ls.vis = {}
            BY <1>2, <5>2
          <6> QED BY <4>3, <6>1, <6>2
        <5> QED BY <5>1, <5>2
      <4>5. g \cap start.vis = {Kept(forced, g)}
        BY <1>2
      <4> QED BY <4>1, <4>4, <4>5
    <3> QED BY <3>5, <3>6
  <2>3. Others(q, start.vis, start.flip)
    BY <2>2 DEF Others
  <2>4. q.original \notin ShowSides(start, visit).vis
    BY <1>2, <1>3, <2>1, <2>3, SetFlipShows
  <2> QED BY <1>6, <2>4
<1> QED BY <1>5, <1>6

-----------------------------------------------------------------------------
(* What the operations leave.                                              *)

\* What every operation ends with.
Good(m) ==
  /\ m \in LayerImages /\ Ready(m.vis, m.flip)
  /\ \A F \in SUBSET names.groups : Family(F) => OnePer(F, m.vis)

\* What Apply leaves, and that it tells whether the image is another one.
LEMMA ApplyGood ==
  ASSUME Sound(names), NEW m \in LayerImages, NEW ls \in StatesOfLayers, NEW visit \in names.visits
  PROVE  LET new == Apply(m, ls, visit)
         IN /\ Good(new) /\ new.flip = ls.flip
            /\ ~new.modified => ~m.modified /\ new.vis = m.vis
            /\ Ready(ls.vis, ls.flip) => Straight(new.vis, new.flip)
<1> DEFINE done == Normalize(ls, visit)
           new == Apply(m, ls, visit)
<1>1. done \in StatesOfLayers /\ done.flip = ls.flip /\ Ready(done.vis, ls.flip)
  BY NormalizeReady
<1>2. \A F \in SUBSET names.groups : Family(F) => OnePer(F, done.vis)
  BY NormalizeOnePer
<1>3. Ready(ls.vis, ls.flip) => Straight(done.vis, ls.flip)
  BY NormalizeShows
<1>4. new = [vis |-> done.vis, flip |-> done.flip, modified |-> m.modified \/ done.vis # m.vis]
  BY DEF Apply
<1> HIDE DEF done, new
<1>5. /\ new.vis = done.vis /\ new.flip = done.flip
      /\ new.modified = (m.modified \/ done.vis # m.vis)
  BY <1>4
<1>6. new \in LayerImages
  <2>1. m.modified \in BOOLEAN /\ done.vis \in SUBSET Layers /\ done.flip \in Flips
    BY <1>1 DEF LayerImages, StatesOfLayers
  <2> QED BY <1>4, <2>1 DEF LayerImages
<1>7. Good(new)
  BY <1>1, <1>2, <1>5, <1>6 DEF Good
<1>8. ~new.modified => ~m.modified /\ new.vis = m.vis
  BY <1>5
<1> QED BY <1>1, <1>3, <1>5, <1>7, <1>8 DEF new

\* Whatever order the maps are ranged over.
LEMMA AppliedGood ==
  ASSUME Sound(names), NEW m \in LayerImages, NEW ls \in StatesOfLayers, NEW new \in Applied(m, ls)
  PROVE  /\ Good(new) /\ new.flip = ls.flip
         /\ ~new.modified => ~m.modified /\ new.vis = m.vis
         /\ Ready(ls.vis, ls.flip) => Straight(new.vis, new.flip)
<1>1. PICK visit \in names.visits : new = Apply(m, ls, visit)
  BY DEF Applied
<1> QED BY <1>1, ApplyGood

\* The layerStates that an operation starts with.
LEMMA KeptTyped ==
  ASSUME NEW m \in LayerImages
  PROVE  /\ m.vis \in SUBSET Layers /\ m.flip \in Flips /\ m.modified \in BOOLEAN
         /\ NewLayerStates(m) \in StatesOfLayers /\ NewLayerStates(m).vis = m.vis /\ NewLayerStates(m).flip = m.flip
BY NewTyped DEF LayerImages

\* An operation either leaves the image as it was or ends straight.
LEMMA SettleGood ==
  ASSUME Sound(names), NEW m, Good(m), NEW new \in Settle(m)
  PROVE  Good(new) /\ new.flip = m.flip /\ ((new = m /\ ~m.modified) \/ Straight(new.vis, new.flip))
<1>1. m \in LayerImages /\ Ready(m.vis, m.flip)
  BY DEF Good
<1>2. CASE m.modified
  <2>1. NewLayerStates(m) \in StatesOfLayers /\ NewLayerStates(m).vis = m.vis /\ NewLayerStates(m).flip = m.flip
    BY <1>1, KeptTyped
  <2>2. new \in Applied(m, NewLayerStates(m))
    BY <1>2 DEF Settle
  <2>3. Good(new) /\ new.flip = m.flip /\ Straight(new.vis, new.flip)
    BY <1>1, <2>1, <2>2, AppliedGood
  <2> QED BY <2>3
<1>3. CASE ~m.modified
  BY <1>3 DEF Settle
<1> QED BY <1>2, <1>3

\* Twins are layers.
LEMMA SyncedTyped ==
  ASSUME Sound(names), synced \in names.synced, NEW S \in SUBSET Layers
  PROVE  UNION {synced[k] : k \in S} \in SUBSET Layers
BY DEF Sound, SyncedSound, Layers

\* Set, whichever way.
LEMMA SetAnyTyped ==
  ASSUME NEW ls \in StatesOfLayers, NEW S \in SUBSET Layers, NEW v \in BOOLEAN
  PROVE  Set(ls, S, v) \in StatesOfLayers /\ Set(ls, S, v).flip = ls.flip
<1>1. CASE v = TRUE
  BY <1>1, SetTyped
<1>2. CASE v = FALSE
  BY <1>2, SetTyped
<1> QED BY <1>1, <1>2

\* SetVisible and SetVisibleExclusive leave a good image.
LEMMA SetVisibleGood ==
  ASSUME Sound(names), synced \in names.synced, NEW m \in LayerImages, NEW l \in Layers, NEW v \in BOOLEAN,
         NEW new \in SetVisible(m, l, v) \cup SetVisibleExclusive(m, l, v)
  PROVE  Good(new) /\ new.flip = m.flip /\ (~new.modified => ~m.modified /\ new.vis = m.vis)
<1> DEFINE ls == Increment(NewLayerStates(m))
<1>1. ls \in StatesOfLayers /\ ls.flip = m.flip
  BY KeptTyped, IncrementTyped
<1>2. synced[l] \in SUBSET Layers
  BY DEF Sound, SyncedSound, Layers
<1>3. Set(ls, synced[l], v) \in StatesOfLayers /\ Set(ls, synced[l], v).flip = m.flip
  <2> HIDE DEF ls
  <2> QED BY <1>1, <1>2, SetAnyTyped
<1> DEFINE others == IF l \in names.radio THEN {} ELSE names.siblings[l] \ (names.radio \cup {l})
           hidden == Set(ls, UNION {synced[k] : k \in others}, FALSE)
<1>4. others \in SUBSET Layers
  BY DEF Sound, LayersSound, Layers
<1>5. hidden \in StatesOfLayers /\ hidden.flip = m.flip
  <2>1. UNION {synced[k] : k \in others} \in SUBSET Layers
    <3> HIDE DEF others
    <3> QED BY <1>4, SyncedTyped
  <2> HIDE DEF others, ls
  <2> QED BY <1>1, <2>1, SetAnyTyped
<1>6. SetVisible(m, l, v) = Applied(m, Set(ls, synced[l], v))
  BY DEF SetVisible, SetOne
<1>7. SetVisibleExclusive(m, l, v) = Applied(m, Set(hidden, synced[l], v))
  BY DEF SetVisibleExclusive, SetOne
<1> HIDE DEF ls, hidden
<1>8. Set(hidden, synced[l], v) \in StatesOfLayers /\ Set(hidden, synced[l], v).flip = m.flip
  BY <1>2, <1>5, SetAnyTyped
<1>9. PICK start \in StatesOfLayers : start.flip = m.flip /\ new \in Applied(m, start)
  BY <1>3, <1>6, <1>7, <1>8
<1> QED BY <1>9, AppliedGood

\* A click: an image that is not modified is the one before.
LEMMA ClickedGood ==
  ASSUME Sound(names), synced \in names.synced, NEW m \in LayerImages, ~m.modified, NEW l \in Layers, NEW ctrl \in BOOLEAN,
         NEW new \in Clicked(m, l, ctrl)
  PROVE  Good(new) /\ new.flip = m.flip /\ (new.vis = m.vis \/ Straight(new.vis, new.flip))
<1> DEFINE first == IF ctrl THEN SetVisibleExclusive(m, l, l \notin m.vis) ELSE SetVisible(m, l, l \notin m.vis)
           Opened == {s \in LayerImages : Good(s) /\ s.flip = m.flip /\ (~s.modified => s.vis = m.vis)}
           Step(i, S) == IF l - i \in names.above[l] THEN UNION {SetVisible(s, l - i, TRUE) : s \in S} ELSE S
           Fn(g) == [i \in 0 .. l - 1 |-> IF i = 0 THEN first ELSE IF l - i \in names.above[l]
                                     THEN UNION {SetVisible(s, l - i, TRUE) : s \in g[i - 1]} ELSE g[i - 1]]
           opened == CHOOSE g : g = Fn(g)
           step == [i \in 1 .. l - 1 |-> [S \in SUBSET Opened |-> Step(i, S)]]
<1>1. PICK n \in Nat : Layers = 1 .. n
  BY DEF Sound, LayersSound, Layers
<1>2. l - 1 \in Nat /\ \A i \in 1 .. l - 1 : l - i \in Layers
  BY <1>1
<1>3. first \in SUBSET Opened
  <2>1. (l \notin m.vis) \in BOOLEAN
    OBVIOUS
  <2> SUFFICES ASSUME NEW s \in first PROVE s \in Opened
    OBVIOUS
  <2>2. s \in SetVisible(m, l, l \notin m.vis) \cup SetVisibleExclusive(m, l, l \notin m.vis)
    OBVIOUS
  <2>3. Good(s) /\ s.flip = m.flip /\ (~s.modified => s.vis = m.vis)
    BY <2>1, <2>2, SetVisibleGood
  <2> QED BY <2>3 DEF Good
<1>4. \A i \in 1 .. l - 1 : \A S \in SUBSET Opened : Step(i, S) \in SUBSET Opened
  <2>1. ASSUME NEW i \in 1 .. l - 1, NEW s \in Opened, NEW t \in SetVisible(s, l - i, TRUE) PROVE t \in Opened
    <3>1. Good(t) /\ t.flip = s.flip /\ (~t.modified => ~s.modified /\ t.vis = s.vis)
      BY <1>2, <2>1, SetVisibleGood
    <3>2. t \in LayerImages
      BY <3>1 DEF Good
    <3> QED BY <3>1, <3>2
  <2> SUFFICES ASSUME NEW i \in 1 .. l - 1, NEW S \in SUBSET Opened, NEW t \in Step(i, S) PROVE t \in Opened
    OBVIOUS
  <2> HIDE DEF Opened
  <2>2. CASE l - i \in names.above[l]
    <3>1. PICK s \in S : t \in SetVisible(s, l - i, TRUE)
      BY <2>2
    <3> QED BY <2>1, <3>1
  <2>3. CASE l - i \notin names.above[l]
    BY <2>3
  <2> QED BY <2>2, <2>3
<1>5. step \in [1 .. l - 1 -> [SUBSET Opened -> SUBSET Opened]]
  <2> HIDE DEF Opened, Step
  <2> QED BY <1>4
<1>6. PICK f \in [0 .. l - 1 -> SUBSET Opened] : Iterated(f, first, step, l - 1)
  <2> HIDE DEF step, Opened, first
  <2> QED BY <1>2, <1>3, <1>5, Iterates
<1>7. f = Fn(f)
  <2>1. \A i \in 1 .. l - 1 : f[i] = Step(i, f[i - 1])
    <3> HIDE DEF Opened, Step, first
    <3>1. \A i \in 1 .. l - 1 : f[i - 1] \in SUBSET Opened
      BY <1>2
    <3> QED BY <1>6, <3>1 DEF Iterated
  <2>2. \A i \in 0 .. l - 1 : i # 0 => i \in 1 .. l - 1
    OBVIOUS
  <2>3. f[0] = first
    BY <1>6 DEF Iterated
  <2> HIDE DEF step, first, Opened
  <2> QED BY <1>6, <2>1, <2>2, <2>3
<1>8. opened = Fn(opened)
  <2> HIDE DEF first
  <2> QED BY <1>7
<1>9. opened[l - 1] \in SUBSET Opened
  <2> DEFINE A == {i \in 0 .. l - 1 : opened[i] \in SUBSET Opened}
  <2> HIDE DEF first, opened, Opened
  <2>1. 0 \in A
    BY <1>2, <1>3, <1>8
  <2>2. ASSUME NEW i \in 1 .. l - 1, i - 1 \in A PROVE i \in A
    <3>1. opened[i - 1] \in SUBSET Opened
      BY <2>2
    <3>2. opened[i] = Step(i, opened[i - 1])
      <4>1. i \in 0 .. l - 1 /\ i # 0
        OBVIOUS
      <4>2. opened[i] = Fn(opened)[i]
        BY <1>8
      <4> HIDE DEF opened
      <4> QED BY <4>1, <4>2
    <3> HIDE DEF Step
    <3> QED BY <1>4, <3>1, <3>2
  <2> HIDE DEF A
  <2>3. \A i \in 1 .. l - 1 : i - 1 \in A => i \in A
    BY <2>2
  <2>4. l - 1 \in A
    <3>1. \A i \in 0 .. l - 1 : i \in A
      BY <1>2, <2>1, <2>3, Induction
    <3> QED BY <1>2, <3>1
  <2> QED BY <2>4 DEF A
<1>10. Clicked(m, l, ctrl) = UNION {Settle(s) : s \in opened[l - 1]}
  BY DEF Clicked
<1> HIDE DEF opened, first
<1>11. PICK s \in Opened : new \in Settle(s)
  <2> HIDE DEF Opened
  <2> QED BY <1>9, <1>10
<1>12. Good(s) /\ s.flip = m.flip /\ (~s.modified => s.vis = m.vis)
  OBVIOUS
<1> QED BY <1>11, <1>12, SettleGood

\* The params that occur.
Typed(param) ==
  \/ param.op = "L" /\ param.flip \in Flips
  \/ param.op = "V" /\ param.vis \in SUBSET Layers
  \/ param.op = "v" /\ param.layer \in Layers /\ param.on \in BOOLEAN
  \/ param.op = "F" /\ DOMAIN param.pass \subseteq Layers

\* A param does what its letter says.
LEMMA ParamIs ==
  ASSUME NEW ls, NEW param, NEW new \in Param(ls, param)
  PROVE  /\ param.op = "L" => new \in Turned(ls, param.flip)
         /\ param.op = "V" => new = Set(Set(Increment(ls), Layers, FALSE), param.vis, TRUE)
         /\ param.op = "v" => new = SetNamed(Increment(ls), param.layer, param.on)
         /\ param.op = "F" => new = SetFavorite(Increment(ls), param.pass)
<1>1. param.op = "L" => Param(ls, param) = Turned(ls, param.flip)
  BY DEF Param
<1>2. param.op = "V" => Param(ls, param) = {Set(Set(Increment(ls), Layers, FALSE), param.vis, TRUE)}
  BY DEF Param
<1>3. param.op = "v" => Param(ls, param) = {SetNamed(Increment(ls), param.layer, param.on)}
  BY DEF Param
<1>4. param.op = "F" => Param(ls, param) = {SetFavorite(Increment(ls), param.pass)}
  BY DEF Param
<1> QED BY <1>1, <1>2, <1>3, <1>4

\* What a param shows.
LEMMA ShowsAre ==
  ASSUME NEW param
  PROVE  /\ param.op = "v" => Shows(param) = IF param.on THEN {param.layer} ELSE Fallbacks({param.layer})
         /\ param.op = "F" => Shows(param) = LET on == {l \in DOMAIN param.pass : param.pass[l]}
                                             IN on \cup Fallbacks(DOMAIN param.pass \ on)
BY DEF Shows

\* SetFlip hides the mirrors that do not go with the new flip.
LEMMA SetFlipTo ==
  ASSUME Sound(names), NEW ls \in StatesOfLayers, NEW flip \in Flips, NEW visit \in names.visits
  PROVE  LET new == SetFlip(ls, flip, visit)
         IN new \in StatesOfLayers /\ new.flip = flip /\ Hidden(new.vis, flip) /\ (Held(ls.vis) => Held(new.vis))
<1> DEFINE start == Increment([ls EXCEPT !.flip = flip])
<1>1. start \in StatesOfLayers /\ start.vis = ls.vis /\ start.flip = flip
  BY IncrementTyped
<1>2. SetFlip(ls, flip, visit) = ShowSides(start, visit)
  BY DEF SetFlip
<1> HIDE DEF start
<1> QED BY <1>1, <1>2, SetFlipReady

\* Whatever order the maps are ranged over.
LEMMA TurnedTo ==
  ASSUME Sound(names), NEW ls \in StatesOfLayers, NEW flip \in Flips, NEW new \in Turned(ls, flip)
  PROVE  new \in StatesOfLayers /\ new.flip = flip /\ Hidden(new.vis, flip) /\ (Held(ls.vis) => Held(new.vis))
<1>1. PICK visit \in names.visits : new = SetFlip(ls, flip, visit)
  BY DEF Turned
<1> QED BY <1>1, SetFlipTo

\* Every param leads to layerStates.
LEMMA ParamTyped ==
  ASSUME Sound(names), synced \in names.synced, NEW ls \in StatesOfLayers, NEW param, Typed(param),
         NEW new \in Param(ls, param)
  PROVE  new \in StatesOfLayers
<1>1. Increment(ls) \in StatesOfLayers
  BY IncrementTyped DEF StatesOfLayers
<1>2. CASE param.op = "L" /\ param.flip \in Flips
  <2>1. new \in Turned(ls, param.flip)
    BY <1>2, ParamIs
  <2> QED BY <1>2, <2>1, TurnedTo
<1>3. CASE param.op = "V" /\ param.vis \in SUBSET Layers
  <2>1. Set(Increment(ls), Layers, FALSE) \in StatesOfLayers
    BY <1>1, SetTyped
  <2>2. Set(Set(Increment(ls), Layers, FALSE), param.vis, TRUE) \in StatesOfLayers
    BY <1>3, <2>1, SetTyped
  <2> QED BY <1>3, <2>2, ParamIs
<1>4. CASE param.op = "v" /\ param.layer \in Layers /\ param.on \in BOOLEAN
  <2> DEFINE S == {param.layer} \cup IF param.on THEN names.above[param.layer] ELSE {}
  <2>1. S \in SUBSET Layers
    BY <1>4 DEF Sound, LayersSound, Layers
  <2>2. UNION {synced[k] : k \in S} \in SUBSET Layers
    <3> HIDE DEF S
    <3> QED BY <2>1, SyncedTyped
  <2>3. SetNamed(Increment(ls), param.layer, param.on) = Set(Increment(ls), UNION {synced[k] : k \in S}, param.on)
    BY DEF SetNamed
  <2> HIDE DEF S
  <2>4. Set(Increment(ls), UNION {synced[k] : k \in S}, param.on) \in StatesOfLayers
    BY <1>1, <1>4, <2>2, SetAnyTyped
  <2> QED BY <1>4, <2>3, <2>4, ParamIs
<1>5. CASE param.op = "F" /\ DOMAIN param.pass \subseteq Layers
  <2> DEFINE pass == param.pass
             LastOf(l) == Max({k \in DOMAIN pass : l \in synced[k]})
             set == UNION {synced[k] : k \in DOMAIN pass}
             on == {l \in set : pass[LastOf(l)]}
  <2>1. set \in SUBSET Layers
    BY <1>5, SyncedTyped
  <2>2. SetFavorite(Increment(ls), pass) = Set(Set(Increment(ls), on, TRUE), set \ on, FALSE)
    BY DEF SetFavorite
  <2>3. on \in SUBSET Layers /\ set \ on \in SUBSET Layers
    <3> HIDE DEF set, LastOf
    <3> QED BY <2>1
  <2> HIDE DEF on, set
  <2>4. Set(Increment(ls), on, TRUE) \in StatesOfLayers
    BY <1>1, <2>3, SetTyped
  <2>5. Set(Set(Increment(ls), on, TRUE), set \ on, FALSE) \in StatesOfLayers
    BY <2>3, <2>4, SetTyped
  <2> QED BY <1>5, <2>2, <2>5, ParamIs
<1> QED BY <1>2, <1>3, <1>4, <1>5 DEF Typed

\* The params one after another.
After(after, ls, params) ==
  /\ after \in [0 .. Len(params) -> SUBSET StatesOfLayers]
  /\ after[0] = {ls} /\ after[Len(params)] = Params(ls, params)
  /\ \A i \in 1 .. Len(params) : after[i] = UNION {Param(s, params[i]) : s \in after[i - 1]}

\* Params are applied in order.
LEMMA ParamsInTurn ==
  ASSUME Sound(names), synced \in names.synced, NEW ls \in StatesOfLayers, NEW params, Len(params) \in Nat,
         \A i \in 1 .. Len(params) : Typed(params[i])
  PROVE  \E after : After(after, ls, params)
<1> DEFINE n == Len(params)
           All == SUBSET StatesOfLayers
           Each(i, S) == UNION {Param(s, params[i]) : s \in S}
           step == [i \in 1 .. n |-> [S \in All |-> Each(i, S)]]
           Fn(g) == [i \in 0 .. n |-> IF i = 0 THEN {ls} ELSE UNION {Param(s, params[i]) : s \in g[i - 1]}]
           after == CHOOSE g : g = Fn(g)
<1>1. \A i \in 1 .. n : \A S \in All : Each(i, S) \in All
  <2>1. \A i \in 1 .. n, s \in StatesOfLayers : \A t \in Param(s, params[i]) : t \in StatesOfLayers
    BY ParamTyped
  <2> QED BY <2>1
<1>2. step \in [1 .. n -> [All -> All]]
  <2> HIDE DEF All, Each
  <2> QED BY <1>1
<1>3. PICK f \in [0 .. n -> All] : Iterated(f, {ls}, step, n)
  <2>1. {ls} \in All
    OBVIOUS
  <2> HIDE DEF step, All
  <2> QED BY <1>2, <2>1, Iterates
<1>4. f = Fn(f)
  <2>1. \A i \in 1 .. n : f[i - 1] \in All
    <3> HIDE DEF All
    <3> QED OBVIOUS
  <2>2. \A i \in 1 .. n : f[i] = Each(i, f[i - 1])
    <3> HIDE DEF All, Each
    <3> QED BY <1>3, <2>1 DEF Iterated
  <2>3. \A i \in 0 .. n : i # 0 => i \in 1 .. n
    OBVIOUS
  <2>4. f[0] = {ls}
    BY <1>3 DEF Iterated
  <2> HIDE DEF step, All
  <2> QED BY <1>3, <2>2, <2>3, <2>4
<1>5. after = Fn(after)
  <2> HIDE DEF n
  <2> QED BY <1>4
<1>6. Params(ls, params) = after[n]
  BY DEF Params
<1> HIDE DEF after
<1>7. after[0] = {ls}
  BY <1>5
<1>8. \A i \in 1 .. n : after[i] = Each(i, after[i - 1])
  <2> SUFFICES ASSUME NEW i \in 1 .. n PROVE after[i] = Each(i, after[i - 1])
    OBVIOUS
  <2>1. i \in 0 .. n /\ i # 0
    OBVIOUS
  <2>2. after[i] = Fn(after)[i]
    BY <1>5
  <2> QED BY <2>1, <2>2
<1>9. after \in [0 .. n -> All]
  <2> DEFINE A == {i \in 0 .. n : after[i] \in All}
  <2>1. 0 \in A
    BY <1>7
  <2>2. \A i \in 1 .. n : i - 1 \in A => i \in A
    <3> HIDE DEF All, Each
    <3> QED BY <1>1, <1>8
  <2>3. \A i \in 0 .. n : i \in A
    <3> HIDE DEF A
    <3> QED BY <2>1, <2>2, Induction
  <2> HIDE DEF All
  <2> QED BY <1>5, <2>3
<1>10. After(after, ls, params)
  BY <1>6, <1>7, <1>8, <1>9 DEF After
<1> QED BY <1>10

\* Deserialize leaves a good image, a straight one when its params left it ready.
LEMMA DeserializeGood ==
  ASSUME Sound(names), synced \in names.synced, NEW m \in LayerImages, NEW params, Len(params) \in Nat,
         \A i \in 1 .. Len(params) : Typed(params[i]), NEW new \in Deserialize(m, params)
  PROVE  \E ls \in Params(NewLayerStates(m), params) :
            /\ Good(new) /\ (~new.modified => new.vis = m.vis /\ new.flip = m.flip)
            /\ Ready(ls.vis, ls.flip) => Straight(new.vis, new.flip)
<1> DEFINE All == Params(NewLayerStates(m), params)
<1>1. PICK after : After(after, NewLayerStates(m), params)
  BY KeptTyped, ParamsInTurn
<1>2. All \in SUBSET StatesOfLayers
  BY <1>1 DEF After
<1>3. PICK ls \in All : \E t \in Applied(m, ls) : new = [t EXCEPT !.modified = @ \/ t.flip # m.flip]
  <2> HIDE DEF All
  <2>1. Deserialize(m, params) = {[t EXCEPT !.modified = @ \/ t.flip # m.flip] : t \in UNION {Applied(m, k) : k \in All}}
    BY DEF Deserialize, All
  <2>2. PICK t \in UNION {Applied(m, k) : k \in All} : new = [t EXCEPT !.modified = @ \/ t.flip # m.flip]
    BY <2>1
  <2> QED BY <2>2
<1> HIDE DEF All
<1>4. PICK done \in Applied(m, ls) : new = [done EXCEPT !.modified = @ \/ done.flip # m.flip]
  BY <1>3
<1>5. /\ Good(done) /\ done.flip = ls.flip /\ (~done.modified => done.vis = m.vis)
      /\ Ready(ls.vis, ls.flip) => Straight(done.vis, done.flip)
  BY <1>2, <1>3, <1>4, AppliedGood
<1>6. done \in LayerImages
  BY <1>5 DEF Good
<1>7. /\ new \in LayerImages /\ new.vis = done.vis /\ new.flip = done.flip
      /\ ~new.modified => ~done.modified /\ done.flip = m.flip
  BY <1>4, <1>6 DEF LayerImages
<1>8. Good(new)
  BY <1>5, <1>7 DEF Good
<1> QED BY <1>3, <1>5, <1>7, <1>8 DEF All

\* A layer on the level of a pair follows no other one.
LEMMA SyncedAlone ==
  ASSUME Sound(names), synced \in names.synced, NEW q \in names.pairs, ~Nested(q),
         NEW x \in Layers, names.above[x] = names.above[q.original], NEW k \in Layers, x \in synced[k]
  PROVE  k = x
<1> SUFFICES ASSUME k # x PROVE FALSE
  OBVIOUS
<1>1. PICK r \in names.pairs : k \in DOMAIN r.twin /\ x = r.twin[k]
  BY DEF Sound, SyncedSound, Layers
<1>2. PairSound(names, r)
  BY DEF Sound
<1>3. r.original \in names.above[x] \/ r.mirror \in names.above[x]
  BY <1>1, <1>2 DEF PairSound
<1> QED BY <1>3, NotNested

\* A param whose layers are no mirrors and not below one.
Unmirrored(param) ==
  \A l \in Layers, pair \in names.pairs : l \in Shows(param) => pair.mirror \notin {l} \cup names.above[l]

\* The layers on the level of a pair.
LEMMA LevelIs ==
  ASSUME Sound(names), NEW q \in names.pairs
  PROVE  /\ q.mirror \in Layers /\ names.above[q.mirror] = names.above[q.original]
         /\ \A g \in names.groups : q.original \in g =>
              \A x \in g : x \in Layers /\ names.above[x] = names.above[q.original]
         /\ \A g \in names.groups : Max(g) \in g /\ Max(g) \in Layers
<1>1. PairSound(names, q)
  BY DEF Sound
<1>2. \A g \in names.groups : g \subseteq Layers /\ g # {} /\ \A x, y \in g : names.above[x] = names.above[y]
  BY DEF Sound, GroupsSound, LayersSound, Layers
<1>3. PICK n \in Nat : Layers = 1 .. n
  BY DEF Sound, LayersSound, Layers
<1>4. ASSUME NEW g \in names.groups PROVE Max(g) \in g /\ Max(g) \in Layers
  <2>1. g \in SUBSET (0 .. n) /\ g # {}
    BY <1>2, <1>3
  <2>2. Max(g) \in g
    BY <2>1, LastIsIn
  <2> QED BY <1>2, <2>2
<1>5. \A g \in names.groups : q.original \in g => \A x \in g : x \in Layers /\ names.above[x] = names.above[q.original]
  BY <1>2
<1> QED BY <1>1, <1>4, <1>5 DEF PairSound, Layers

\* What hides a group shows its last layer afterwards.
LEMMA HeldStill ==
  ASSUME Sound(names), NEW vis, Held(vis), NEW new, NEW param, Unmirrored(param),
         \A q \in names.pairs : ~Nested(q) => \A g \in names.groups : q.original \in g =>
           \A k \in g : k \in vis /\ k \notin new => Max(g) \in Shows(param)
  PROVE  Held(new)
<1> SUFFICES ASSUME NEW g \in names.groups, NEW q \in names.pairs, ~Nested(q), q.original \in g, g \cap new = {},
                    NEW r \in names.pairs, Max(g) = r.mirror
             PROVE  FALSE
  BY DEF Held
<1>1. g \cap vis # {}
  BY DEF Held
<1>2. PICK k \in g : k \in vis /\ k \notin new
  BY <1>1
<1>3. Max(g) \in Shows(param)
  BY <1>2
<1>4. Max(g) \in Layers
  BY LevelIs
<1> QED BY <1>3, <1>4 DEF Unmirrored

\* The layer that normalizeGroup shows when it has nothing else.
LEMMA FallbackIs ==
  ASSUME NEW S, NEW g \in names.groups, NEW k \in g, k \in S
  PROVE  Max(g) \in Fallbacks(S)
BY DEF Fallbacks

\* A "v0." or "v1." that shows no mirror leaves the image ready.
LEMMA SetNamedReady ==
  ASSUME Sound(names), synced \in names.synced, NEW ls \in StatesOfLayers, Ready(ls.vis, ls.flip), NEW param,
         param.op = "v", param.layer \in Layers, param.on \in BOOLEAN, Unmirrored(param)
  PROVE  LET new == SetNamed(ls, param.layer, param.on)
         IN new.flip = ls.flip /\ Ready(new.vis, new.flip)
<1> DEFINE l == param.layer
           S == {l} \cup IF param.on THEN names.above[l] ELSE {}
           all == UNION {synced[k] : k \in S}
           new == SetNamed(ls, l, param.on)
<1>1. S \in SUBSET Layers
  BY DEF Sound, LayersSound, Layers
<1>2. all \in SUBSET Layers
  <2> HIDE DEF S
  <2> QED BY <1>1, SyncedTyped
<1>3. new = Set(ls, all, param.on)
  BY DEF SetNamed
<1>4. Shows(param) = IF param.on THEN {l} ELSE Fallbacks({l})
  BY ShowsAre
<1>5. ASSUME NEW q \in names.pairs, ~Nested(q), NEW x \in all, names.above[x] = names.above[q.original]
      PROVE  x \in S
  <2>1. PICK k \in S : x \in synced[k]
    OBVIOUS
  <2>2. x \in Layers /\ k \in Layers
    BY <1>1, <1>2
  <2>3. k = x
    BY <1>5, <2>1, <2>2, SyncedAlone
  <2> QED BY <2>3
<1>6. ASSUME param.on = TRUE PROVE new.flip = ls.flip /\ Ready(new.vis, new.flip)
  <2>1. new.vis = ls.vis \cup all /\ new.flip = ls.flip
    <3> HIDE DEF all, new
    <3>1. new = Set(ls, all, TRUE)
      BY <1>3, <1>6
    <3> QED BY <1>2, <3>1, SetTyped
  <2>2. Hidden(new.vis, ls.flip)
    <3> SUFFICES ASSUME NEW q \in names.pairs, ~Nested(q), Min(q.axes) # ls.flip, q.mirror \in all PROVE FALSE
      BY <2>1 DEF Hidden, Ready
    <3>1. q.mirror \in S
      BY <1>5, LevelIs
    <3>2. l \in Layers /\ l \in Shows(param)
      BY <1>4, <1>6
    <3> QED BY <1>6, <3>1, <3>2 DEF Unmirrored
  <2>3. Held(new.vis)
    BY <2>1 DEF Ready, Held
  <2> QED BY <2>1, <2>2, <2>3 DEF Ready
<1>7. ASSUME param.on = FALSE PROVE new.flip = ls.flip /\ Ready(new.vis, new.flip)
  <2>1. new.vis = ls.vis \ all /\ new.flip = ls.flip
    <3> HIDE DEF all, new
    <3>1. new = Set(ls, all, FALSE)
      BY <1>3, <1>7
    <3> QED BY <1>2, <3>1, SetTyped
  <2>2. Hidden(new.vis, ls.flip)
    BY <2>1 DEF Hidden, Ready
  <2>3. Held(new.vis)
    <3>1. ASSUME NEW q \in names.pairs, ~Nested(q), NEW g \in names.groups, q.original \in g, NEW k \in g,
                 k \in ls.vis, k \notin new.vis
          PROVE  Max(g) \in Shows(param)
      <4>1. k \in all
        BY <2>1, <3>1
      <4>2. k \in S
        BY <1>5, <3>1, <4>1, LevelIs
      <4>3. k \in {l}
        BY <1>7, <4>2
      <4> QED BY <1>4, <1>7, <4>3, FallbackIs
    <3> HIDE DEF new
    <3> QED BY <3>1, HeldStill DEF Ready
  <2> QED BY <2>1, <2>2, <2>3 DEF Ready
<1> QED BY <1>6, <1>7

\* So does a favorite.
LEMMA SetFavoriteReady ==
  ASSUME Sound(names), synced \in names.synced, NEW ls \in StatesOfLayers, Ready(ls.vis, ls.flip), NEW param,
         param.op = "F", DOMAIN param.pass \subseteq Layers, Unmirrored(param)
  PROVE  LET new == SetFavorite(ls, param.pass)
         IN new.flip = ls.flip /\ Ready(new.vis, new.flip)
<1> DEFINE pass == param.pass
           LastOf(l) == Max({k \in DOMAIN pass : l \in synced[k]})
           set == UNION {synced[k] : k \in DOMAIN pass}
           on == {l \in set : pass[LastOf(l)]}
           named == {l \in DOMAIN pass : pass[l]}
           new == SetFavorite(ls, pass)
<1>1. set \in SUBSET Layers
  BY SyncedTyped
<1>2. on \in SUBSET Layers /\ set \ on \in SUBSET Layers
  <2> HIDE DEF set, LastOf
  <2> QED BY <1>1
<1>3. new.vis = (ls.vis \cup on) \ (set \ on) /\ new.flip = ls.flip
  <2>1. new = Set(Set(ls, on, TRUE), set \ on, FALSE)
    BY DEF SetFavorite
  <2> HIDE DEF on, set, new
  <2>2. Set(ls, on, TRUE) \in StatesOfLayers /\ Set(ls, on, TRUE).vis = ls.vis \cup on /\ Set(ls, on, TRUE).flip = ls.flip
    BY <1>2, SetTyped
  <2>3. /\ Set(Set(ls, on, TRUE), set \ on, FALSE).vis = Set(ls, on, TRUE).vis \ (set \ on)
        /\ Set(Set(ls, on, TRUE), set \ on, FALSE).flip = Set(ls, on, TRUE).flip
    BY <1>2, <2>2, SetTyped
  <2> QED BY <2>1, <2>2, <2>3
<1>4. Shows(param) = named \cup Fallbacks(DOMAIN pass \ named)
  BY ShowsAre
<1>5. ASSUME NEW q \in names.pairs, ~Nested(q), NEW x \in set, names.above[x] = names.above[q.original]
      PROVE  x \in DOMAIN pass /\ LastOf(x) = x
  <2>1. x \in Layers
    BY <1>1
  <2>2. \A k \in DOMAIN pass : x \in synced[k] => k = x
    BY <1>5, <2>1, SyncedAlone
  <2>3. x \in DOMAIN pass /\ x \in synced[x]
    BY <2>2
  <2>4. {k \in DOMAIN pass : x \in synced[k]} = {x}
    BY <2>2, <2>3
  <2>5. x \in Nat
    BY <2>1 DEF Sound, LayersSound, Layers
  <2>6. Max({x}) \in {x}
    <3>1. {x} \in SUBSET (0 .. x) /\ {x} # {}
      BY <2>5
    <3> QED BY <2>5, <3>1, LastIsIn
  <2> QED BY <2>3, <2>4, <2>6
<1> HIDE DEF LastOf, set, new
<1>6. Hidden(new.vis, ls.flip)
  <2> SUFFICES ASSUME NEW q \in names.pairs, ~Nested(q), Min(q.axes) # ls.flip, q.mirror \in on PROVE FALSE
    BY <1>3 DEF Hidden, Ready
  <2>1. q.mirror \in DOMAIN pass /\ pass[q.mirror]
    BY <1>5, LevelIs
  <2>2. q.mirror \in Shows(param) /\ q.mirror \in Layers
    BY <1>4, <2>1, LevelIs
  <2> QED BY <2>2 DEF Unmirrored
<1>7. Held(new.vis)
  <2>1. ASSUME NEW q \in names.pairs, ~Nested(q), NEW g \in names.groups, q.original \in g, NEW k \in g,
               k \in ls.vis, k \notin new.vis
        PROVE  Max(g) \in Shows(param)
    <3>1. k \in set /\ k \notin on
      BY <1>3, <2>1
    <3>2. k \in DOMAIN pass /\ LastOf(k) = k
      BY <1>5, <2>1, <3>1, LevelIs
    <3>3. k \in DOMAIN pass \ named
      BY <3>1, <3>2
    <3> QED BY <1>4, <3>3, FallbackIs
  <2> QED BY <2>1, HeldStill DEF Ready
<1> QED BY <1>3, <1>6, <1>7 DEF Ready, new

\* The params of Serialize.
Turn(f) == [op |-> "L", flip |-> f]
ListsOf(vis) == [op |-> "V", vis |-> vis]

\* The favorites of the model are params.
LEMMA FavoriteTyped ==
  ASSUME Sound(names), NEW p \in Favorites
  PROVE  Typed(p) /\ p.op \in {"v", "F"}
<1>1. PICK l \in Layers : p \in {Favorite(l, k) : k \in names.siblings[l]}
  BY DEF Favorites
<1>2. PICK k \in names.siblings[l] : p = Favorite(l, k)
  BY <1>1
<1>3. {l, k} \subseteq Layers
  BY DEF Sound, LayersSound, Layers
<1>4. p.op = "F" /\ DOMAIN p.pass = {l, k}
  BY <1>2 DEF Favorite
<1> QED BY <1>3, <1>4 DEF Typed

\* A string is a flip and at most one switch or favorite.
LEMMA StringsAre ==
  ASSUME Sound(names), NEW s \in Strings
  PROVE  \E f \in Flips : \/ s = <<Turn(f)>>
                          \/ \E p : s = <<Turn(f), p>> /\ Typed(p) /\ p.op \in {"v", "F"}
<1>1. ASSUME NEW p \in Switches PROVE Typed(p) /\ p.op \in {"v", "F"}
  BY DEF Switches, Typed
<1>2. \A p \in Favorites : Typed(p) /\ p.op \in {"v", "F"}
  BY FavoriteTyped
<1>3. CASE s \in {<<[op |-> "L", flip |-> f]>> : f \in Flips}
  BY <1>3 DEF Turn
<1>4. CASE s \in {<<[op |-> "L", flip |-> f], p>> : f \in Flips, p \in Switches \cup Favorites}
  <2>1. PICK f \in Flips, p \in Switches \cup Favorites : s = <<[op |-> "L", flip |-> f], p>>
    BY <1>4
  <2>2. Typed(p) /\ p.op \in {"v", "F"} /\ s = <<Turn(f), p>>
    BY <1>1, <1>2, <2>1 DEF Turn
  <2> QED BY <2>2
<1> QED BY <1>3, <1>4 DEF Strings

\* A string that is not counted as naming a mirror shows none.
LEMMA NamesAre ==
  ASSUME NEW s, Names(s) # "mirror", NEW i \in DOMAIN s
  PROVE  Unmirrored(s[i])
BY DEF Names, Unmirrored

\* Either of them.
LEMMA SwitchReady ==
  ASSUME Sound(names), synced \in names.synced, NEW ls \in StatesOfLayers, Ready(ls.vis, ls.flip), NEW param,
         Typed(param), param.op \in {"v", "F"}, Unmirrored(param), NEW new \in Param(ls, param)
  PROVE  new.flip = ls.flip /\ Ready(new.vis, new.flip)
<1> DEFINE next == Increment(ls)
<1>1. next \in StatesOfLayers /\ next.vis = ls.vis /\ next.flip = ls.flip
  BY IncrementTyped DEF StatesOfLayers
<1> HIDE DEF next
<1>2. Ready(next.vis, next.flip)
  BY <1>1
<1>3. CASE param.op = "v"
  <2>1. param.layer \in Layers /\ param.on \in BOOLEAN
    BY <1>3 DEF Typed
  <2>2. new = SetNamed(next, param.layer, param.on)
    BY <1>3, ParamIs DEF next
  <2>3. /\ SetNamed(next, param.layer, param.on).flip = next.flip
        /\ Ready(SetNamed(next, param.layer, param.on).vis, SetNamed(next, param.layer, param.on).flip)
    BY <1>1, <1>2, <1>3, <2>1, SetNamedReady
  <2> QED BY <1>1, <2>2, <2>3
<1>4. CASE param.op = "F"
  <2>1. DOMAIN param.pass \subseteq Layers
    BY <1>4 DEF Typed
  <2>2. new = SetFavorite(next, param.pass)
    BY <1>4, ParamIs DEF next
  <2>3. /\ SetFavorite(next, param.pass).flip = next.flip
        /\ Ready(SetFavorite(next, param.pass).vis, SetFavorite(next, param.pass).flip)
    BY <1>1, <1>2, <1>4, <2>1, SetFavoriteReady
  <2> QED BY <1>1, <2>2, <2>3
<1> QED BY <1>3, <1>4

\* "V." shows what it lists.
LEMMA ShownReady ==
  ASSUME Sound(names), NEW ls \in StatesOfLayers, NEW vis \in SUBSET Layers, NEW new \in Param(ls, ListsOf(vis))
  PROVE  new.vis = vis
<1> DEFINE none == Set(Increment(ls), Layers, FALSE)
<1>1. Increment(ls) \in StatesOfLayers /\ Increment(ls).vis \subseteq Layers
  <2>1. ls.flip \in Flips
    BY DEF StatesOfLayers
  <2>2. Increment(ls) \in StatesOfLayers
    BY <2>1, IncrementTyped
  <2> QED BY <2>2 DEF StatesOfLayers
<1>2. none \in StatesOfLayers /\ none.vis = Increment(ls).vis \ Layers
  BY <1>1, SetTyped
<1> HIDE DEF none
<1>3. Set(none, vis, TRUE).vis = none.vis \cup vis
  BY <1>2, SetTyped
<1>4. ListsOf(vis).op = "V" /\ ListsOf(vis).vis = vis
  BY DEF ListsOf
<1>5. new = Set(none, vis, TRUE)
  BY <1>4, ParamIs DEF none
<1> QED BY <1>1, <1>2, <1>3, <1>5

\* A drawn string leaves a good image, a straight one when it names no mirror.
LEMMA DrawnGood ==
  ASSUME Sound(names), synced \in names.synced, initial \in SUBSET Layers, NEW m \in LayerImages, NEW s \in Strings,
         NEW new \in Drawn(m, s)
  PROVE  Good(new) /\ (Held(initial) /\ Names(s) # "mirror" => Straight(new.vis, new.flip))
<1> DEFINE params == <<[op |-> "V", vis |-> initial]>> \o s
           start == NewLayerStates(m)
           All == Params(start, params)
<1>1. PICK f \in Flips : s = <<Turn(f)>> \/ \E p : s = <<Turn(f), p>> /\ Typed(p) /\ p.op \in {"v", "F"}
  BY StringsAre
<1>2. /\ Len(params) = Len(s) + 1 /\ Len(s) \in {1, 2} /\ DOMAIN s = 1 .. Len(s)
      /\ params[1] = ListsOf(initial) /\ params[2] = Turn(f) /\ s[1] = Turn(f)
      /\ Len(s) = 2 => params[3] = s[2] /\ Typed(s[2]) /\ s[2].op \in {"v", "F"}
  <2>1. CASE s = <<Turn(f)>>
    BY <2>1 DEF ListsOf
  <2>2. CASE \E p : s = <<Turn(f), p>> /\ Typed(p) /\ p.op \in {"v", "F"}
    <3>1. PICK p : s = <<Turn(f), p>> /\ Typed(p) /\ p.op \in {"v", "F"}
      BY <2>2
    <3> QED BY <3>1 DEF ListsOf
  <2> QED BY <1>1, <2>1, <2>2
<1>3. Typed(ListsOf(initial)) /\ Typed(Turn(f)) /\ Turn(f).op = "L" /\ Turn(f).flip = f
  BY DEF Typed, ListsOf, Turn
<1> HIDE DEF params
<1>4. Len(params) \in Nat /\ \A i \in 1 .. Len(params) : Typed(params[i])
  <2> SUFFICES ASSUME NEW i \in 1 .. Len(params) PROVE Typed(params[i])
    BY <1>2
  <2>1. i = 1 \/ i = 2 \/ (i = 3 /\ Len(s) = 2)
    BY <1>2
  <2> QED BY <1>2, <1>3, <2>1
<1>5. start \in StatesOfLayers
  BY KeptTyped
<1> HIDE DEF start
<1>6. PICK after : After(after, start, params)
  BY <1>4, <1>5, ParamsInTurn
<1>7. /\ after \in [0 .. Len(params) -> SUBSET StatesOfLayers] /\ after[0] = {start} /\ after[Len(params)] = All
      /\ \A i \in 1 .. Len(params) : after[i] = UNION {Param(k, params[i]) : k \in after[i - 1]}
  BY <1>6 DEF After
<1> HIDE DEF All
<1>8. \A k \in after[1] : k.vis = initial /\ k \in StatesOfLayers
  <2>1. after[1] = UNION {Param(k, ListsOf(initial)) : k \in after[0]} /\ after[1] \in SUBSET StatesOfLayers
    BY <1>2, <1>7
  <2>2. after[1] = Param(start, ListsOf(initial))
    BY <1>7, <2>1
  <2> QED BY <1>5, <2>1, <2>2, ShownReady
<1>9. \A k \in after[2] : k \in StatesOfLayers /\ Hidden(k.vis, f) /\ k.flip = f /\ (Held(initial) => Held(k.vis))
  <2> SUFFICES ASSUME NEW k \in after[2]
               PROVE  k \in StatesOfLayers /\ Hidden(k.vis, f) /\ k.flip = f /\ (Held(initial) => Held(k.vis))
    OBVIOUS
  <2>1. after[2] = UNION {Param(j, Turn(f)) : j \in after[1]}
    BY <1>2, <1>7
  <2>2. PICK j \in after[1] : k \in Param(j, Turn(f))
    BY <2>1
  <2>3. k \in Turned(j, f)
    BY <1>3, <2>2, ParamIs
  <2> QED BY <1>8, <2>3, TurnedTo
<1>10. ASSUME Held(initial), Names(s) # "mirror", NEW k \in All PROVE Ready(k.vis, k.flip)
  <2>1. \A j \in after[2] : j \in StatesOfLayers /\ Ready(j.vis, j.flip)
    BY <1>9, <1>10 DEF Ready
  <2>2. CASE Len(s) = 1
    BY <1>2, <1>7, <1>10, <2>1, <2>2
  <2>3. CASE Len(s) = 2
    <3>1. All = UNION {Param(j, s[2]) : j \in after[2]}
      BY <1>2, <1>7, <2>3
    <3>2. PICK j \in after[2] : k \in Param(j, s[2])
      BY <1>10, <3>1
    <3>3. Unmirrored(s[2])
      BY <1>2, <1>10, <2>3, NamesAre
    <3> QED BY <1>2, <2>1, <2>3, <3>2, <3>3, SwitchReady
  <2> QED BY <1>2, <2>2, <2>3
<1>11. Drawn(m, s) = Deserialize(m, params)
  BY DEF Drawn, params
<1>12. PICK k \in All : Good(new) /\ (Ready(k.vis, k.flip) => Straight(new.vis, new.flip))
  BY <1>4, <1>11, DeserializeGood DEF All, start
<1> QED BY <1>10, <1>12

-----------------------------------------------------------------------------
(* The invariant of the images.                                            *)

\* As FlipShown.
Straightened == last = "reload" \/ (role = "drawn" /\ last = "mirror") \/ Straight(lm.vis, lm.flip)

\* The invariant: the source's own state has no group that falls back to a mirror, too.
LayerInv ==
  /\ LayerTypes
  /\ Held(initial)
  /\ \A F \in SUBSET names.groups : Family(F) => OnePer(F, lm.vis)
  /\ Straightened

\* So does the load of a file.
LEMMA NewGood ==
  ASSUME Sound(names), NEW vis \in SUBSET Layers, NEW new \in New(vis)
  PROVE  Good(new) /\ new.flip = FlipNone /\ (Ready(vis, FlipNone) => Straight(new.vis, new.flip))
<1> DEFINE m == [vis |-> vis, flip |-> FlipNone, modified |-> FALSE]
           ls == NewLayerStates(m)
<1>1. m \in LayerImages /\ m.vis = vis /\ m.flip = FlipNone
  BY DEF LayerImages, Flips
<1>2. New(vis) = Applied(m, ls)
  BY DEF New
<1> HIDE DEF m
<1>3. ls \in StatesOfLayers /\ ls.vis = vis /\ ls.flip = FlipNone
  BY <1>1, KeptTyped
<1> HIDE DEF ls
<1> QED BY <1>1, <1>2, <1>3, AppliedGood

\* The image starts so.
LEMMA LayerInvInit == LayerInit => LayerInv
<1> SUFFICES ASSUME LayerInit PROVE LayerInv
  OBVIOUS
<1>1. names \in Managers /\ role \in {"edited", "drawn"} /\ synced \in names.synced /\ last = "new"
  BY DEF LayerInit
<1>2. Sound(names)
  BY <1>1, ManagersSound
<1>3. PICK raw \in SUBSET Layers : \E first \in New(raw) : \E second \in New(first.vis) :
        /\ initial = second.vis
        /\ \E clone \in New(initial) : lm = [clone EXCEPT !.modified = FALSE]
  BY DEF LayerInit
<1>4. PICK first \in New(raw) : \E second \in New(first.vis) :
        /\ initial = second.vis
        /\ \E clone \in New(initial) : lm = [clone EXCEPT !.modified = FALSE]
  BY <1>3
<1>5. PICK second \in New(first.vis) :
        /\ initial = second.vis
        /\ \E clone \in New(initial) : lm = [clone EXCEPT !.modified = FALSE]
  BY <1>4
<1>6. PICK clone \in New(initial) : lm = [clone EXCEPT !.modified = FALSE]
  BY <1>5
<1>7. first.vis \in SUBSET Layers
  BY <1>2, NewGood DEF Good, LayerImages
<1>8. Good(second) /\ second.flip = FlipNone
  BY <1>2, <1>7, NewGood
<1>9. initial \in SUBSET Layers /\ Ready(initial, FlipNone)
  BY <1>5, <1>8 DEF Good, LayerImages
<1>10. Good(clone) /\ clone.flip = FlipNone /\ Straight(clone.vis, clone.flip)
  BY <1>2, <1>9, NewGood
<1>11. lm \in [vis : SUBSET Layers, flip : Flips, modified : {FALSE}] /\ lm.vis = clone.vis /\ lm.flip = clone.flip
  BY <1>6, <1>10 DEF Good, LayerImages
<1>12. LayerTypes
  BY <1>1, <1>9, <1>11 DEF LayerTypes
<1>13. \A F \in SUBSET names.groups : Family(F) => OnePer(F, lm.vis)
  BY <1>10, <1>11 DEF Good
<1> QED BY <1>9, <1>10, <1>11, <1>12, <1>13 DEF LayerInv, Straightened, Ready

\* An operation keeps the invariant when it leaves a good image, or the one before.
LEMMA BecomesKeeps ==
  ASSUME LayerInv, NEW m, m \in LayerImages, NEW op, op \in {"click", "flip", "string", "mirror", "reload"}, Becomes(m, op),
         Good(m) \/ m.vis = lm.vis,
         \/ op = "reload"
         \/ role = "drawn" /\ op = "mirror"
         \/ m.vis = lm.vis /\ m.flip = lm.flip
         \/ Straight(m.vis, m.flip)
  PROVE  LayerInv'
<1>1. /\ lm' = [m EXCEPT !.modified = FALSE] /\ last' = IF lm' = lm THEN last ELSE op
      /\ names' = names /\ role' = role /\ synced' = synced /\ initial' = initial
  BY DEF Becomes
<1>2. lm' \in [vis : SUBSET Layers, flip : Flips, modified : {FALSE}] /\ lm'.vis = m.vis /\ lm'.flip = m.flip
  BY <1>1 DEF LayerImages
<1>3. LayerTypes'
  BY <1>1, <1>2 DEF LayerInv, LayerTypes, Layers
<1>4. Held(initial)'
  BY <1>1 DEF LayerInv, Held, Nested
<1>5. \A F \in SUBSET names.groups : Family(F) => OnePer(F, lm'.vis)
  BY <1>2 DEF LayerInv, Good
<1>6. (\A F \in SUBSET names.groups : Family(F) => OnePer(F, lm.vis))'
  BY <1>1, <1>5 DEF Family, OnePer
<1>7. lm' = lm \/ last' = "reload" \/ (role = "drawn" /\ last' = "mirror") \/ Straight(lm'.vis, lm'.flip)
  <2>1. ASSUME m.vis = lm.vis, m.flip = lm.flip PROVE lm' = lm
    <3>1. lm \in [vis : SUBSET Layers, flip : Flips, modified : {FALSE}]
      BY DEF LayerInv, LayerTypes
    <3>2. lm = [vis |-> lm.vis, flip |-> lm.flip, modified |-> FALSE]
      BY <3>1
    <3>3. lm' = [vis |-> lm'.vis, flip |-> lm'.flip, modified |-> FALSE]
      BY <1>2
    <3> QED BY <1>2, <2>1, <3>2, <3>3
  <2> QED BY <1>1, <1>2, <2>1
<1>8. ASSUME lm' = lm PROVE Straightened'
  BY <1>1, <1>8 DEF LayerInv, Straightened, Straight, Odd, Nested
<1>9. ASSUME Straight(lm'.vis, lm'.flip) PROVE Straight(lm.vis, lm.flip)'
  BY <1>1, <1>9 DEF Straight, Odd, Nested
<1>10. Straightened'
  BY <1>1, <1>7, <1>8, <1>9 DEF Straightened
<1> QED BY <1>3, <1>4, <1>6, <1>10 DEF LayerInv

\* Every operation does.
LEMMA LayerInvNext == LayerInv /\ [LayerNext]_layerVars => LayerInv'
<1> SUFFICES ASSUME LayerInv, [LayerNext]_layerVars PROVE LayerInv'
  OBVIOUS
<1>1. /\ names \in Managers /\ synced \in names.synced /\ initial \in SUBSET Layers
      /\ lm \in [vis : SUBSET Layers, flip : Flips, modified : {FALSE}]
      /\ Held(initial)
  BY DEF LayerInv, LayerTypes
<1>2. Sound(names)
  BY <1>1, ManagersSound
<1>3. lm \in LayerImages /\ ~lm.modified /\ lm.flip \in Flips /\ lm.vis \in SUBSET Layers
  BY <1>1 DEF LayerImages
<1>4. ASSUME NEW ctrl \in BOOLEAN, Click(ctrl) PROVE LayerInv'
  <2>1. PICK l \in Layers \ names.forced : \E m \in Clicked(lm, l, ctrl) : Becomes(m, "click")
    BY <1>4 DEF Click
  <2>2. PICK m \in Clicked(lm, l, ctrl) : Becomes(m, "click")
    BY <2>1
  <2>3. Good(m) /\ m.flip = lm.flip /\ (m.vis = lm.vis \/ Straight(m.vis, m.flip))
    BY <1>1, <1>2, <1>3, ClickedGood
  <2>4. m \in LayerImages
    BY <2>3 DEF Good
  <2> QED BY <2>2, <2>3, <2>4, BecomesKeeps
<1>5. ASSUME NEW axis \in {1, 2}, Flip(axis) PROVE LayerInv'
  <2>1. PICK m \in Flipped(lm, axis) : Becomes(m, "flip")
    BY <1>5 DEF Flip
  <2> DEFINE turned == Turned(NewLayerStates(lm), Toggled(axis))
             new == UNION {Applied(lm, ls) : ls \in turned}
  <2>2. Toggled(axis) \in Flips
    BY <1>3 DEF Toggled, Flips, FlipNone, Axes
  <2>3. \A ls \in turned : ls \in StatesOfLayers
    BY <1>2, <1>3, <2>2, KeptTyped, TurnedTo
  <2>4. PICK done \in new : m \in Settle([done EXCEPT !.modified = TRUE])
    BY <2>1 DEF Flipped
  <2>5. PICK ls \in turned : done \in Applied(lm, ls)
    BY <2>4
  <2> HIDE DEF turned, new
  <2>6. Good(done)
    BY <1>2, <1>3, <2>3, <2>5, AppliedGood
  <2> DEFINE flipped == [done EXCEPT !.modified = TRUE]
  <2>7. Good(flipped) /\ flipped.modified
    BY <2>6 DEF Good, LayerImages
  <2> HIDE DEF flipped
  <2>8. m \in Settle(flipped)
    BY <2>4 DEF flipped
  <2>9. Good(m) /\ Straight(m.vis, m.flip)
    BY <1>2, <2>7, <2>8, SettleGood
  <2>10. m \in LayerImages
    BY <2>9 DEF Good
  <2> QED BY <2>1, <2>9, <2>10, BecomesKeeps
<1>6. ASSUME NEW params, Len(params) \in Nat, \A i \in 1 .. Len(params) : Typed(params[i]),
             NEW new \in Deserialize(lm, params), NEW m \in Settle(new), NEW op, op \in {"string", "mirror"}, Becomes(m, op)
      PROVE  LayerInv'
  <2>1. Good(new) /\ (~new.modified => new.vis = lm.vis /\ new.flip = lm.flip)
    BY <1>1, <1>2, <1>3, <1>6, DeserializeGood
  <2>2. Good(m) /\ ((m.vis = lm.vis /\ m.flip = lm.flip) \/ Straight(m.vis, m.flip))
    BY <1>2, <1>6, <2>1, SettleGood
  <2>3. m \in LayerImages
    BY <2>2 DEF Good
  <2> QED BY <1>6, <2>2, <2>3, BecomesKeeps
<1>7. ASSUME TakeOver PROVE LayerInv'
  <2>1. PICK s \in Strings : \E drawn \in Drawn(lm, s) : \E new \in Deserialize(lm, Serialize(drawn)) :
          \E m \in Settle(new) : Becomes(m, Names(s))
    BY <1>7 DEF TakeOver
  <2>2. PICK drawn \in Drawn(lm, s) : \E new \in Deserialize(lm, Serialize(drawn)) : \E m \in Settle(new) : Becomes(m, Names(s))
    BY <2>1
  <2>3. drawn \in LayerImages
    BY <1>1, <1>2, <1>3, DrawnGood DEF Good
  <2> DEFINE params == Serialize(drawn)
  <2>4. Len(params) = 2 /\ params[1] = [op |-> "L", flip |-> drawn.flip] /\ params[2] = [op |-> "V", vis |-> drawn.vis]
    BY DEF Serialize
  <2> HIDE DEF params
  <2>5. Len(params) \in Nat /\ \A i \in 1 .. Len(params) : Typed(params[i])
    <3>1. Typed(params[1]) /\ Typed(params[2])
      BY <2>3, <2>4 DEF Typed, LayerImages
    <3> SUFFICES ASSUME NEW i \in 1 .. Len(params) PROVE Typed(params[i])
      BY <2>4
    <3>2. i = 1 \/ i = 2
      BY <2>4
    <3> QED BY <3>1, <3>2
  <2>6. Names(s) \in {"string", "mirror"}
    BY DEF Names
  <2>7. PICK new \in Deserialize(lm, params) : \E m \in Settle(new) : Becomes(m, Names(s))
    BY <2>2 DEF params
  <2> QED BY <1>6, <2>5, <2>6, <2>7
<1>8. ASSUME SelectFavorite PROVE LayerInv'
  <2>1. PICK p \in Favorites : \E new \in Deserialize(lm, <<p>>) : \E m \in Settle(new) : Becomes(m, Names(<<p>>))
    BY <1>8 DEF SelectFavorite
  <2>2. Typed(p)
    BY <1>2, FavoriteTyped
  <2>3. Len(<<p>>) \in Nat /\ \A i \in 1 .. Len(<<p>>) : Typed(<<p>>[i])
    BY <2>2
  <2>4. Names(<<p>>) \in {"string", "mirror"}
    BY DEF Names
  <2>5. PICK new \in Deserialize(lm, <<p>>) : \E m \in Settle(new) : Becomes(m, Names(<<p>>))
    BY <2>1
  <2> DEFINE params == <<p>>
  <2>6. Len(params) \in Nat /\ (\A i \in 1 .. Len(params) : Typed(params[i])) /\ new \in Deserialize(lm, params)
    BY <2>3, <2>5
  <2> HIDE DEF params
  <2> QED BY <1>6, <2>4, <2>5, <2>6
<1>9. ASSUME Reload PROVE LayerInv'
  <2> DEFINE m == [lm EXCEPT !.flip = FlipNone]
  <2>1. m \in LayerImages /\ m.vis = lm.vis
    BY <1>3 DEF LayerImages, Flips
  <2>2. Becomes(m, "reload")
    BY <1>9 DEF Reload
  <2> HIDE DEF m
  <2> QED BY <2>1, <2>2, BecomesKeeps
<1>10. ASSUME DrawString PROVE LayerInv'
  <2>1. PICK s \in Strings : \E m \in Drawn(lm, s) : Becomes(m, Names(s))
    BY <1>10 DEF DrawString
  <2>2. role = "drawn"
    BY <1>10 DEF DrawString
  <2>3. PICK m \in Drawn(lm, s) : Becomes(m, Names(s))
    BY <2>1
  <2>4. Good(m) /\ (Names(s) # "mirror" => Straight(m.vis, m.flip))
    BY <1>1, <1>2, <1>3, DrawnGood
  <2>5. m \in LayerImages
    BY <2>4 DEF Good
  <2>6. Names(s) \in {"string", "mirror"}
    BY DEF Names
  <2> QED BY <2>2, <2>3, <2>4, <2>5, <2>6, BecomesKeeps
<1>11. ASSUME UNCHANGED layerVars PROVE LayerInv'
  <2>1. /\ names' = names /\ role' = role /\ synced' = synced /\ initial' = initial /\ lm' = lm /\ last' = last
    BY <1>11 DEF layerVars
  <2>2. LayerTypes'
    BY <2>1 DEF LayerInv, LayerTypes, Layers
  <2>3. Held(initial)'
    BY <2>1 DEF LayerInv, Held, Nested
  <2>4. (\A F \in SUBSET names.groups : Family(F) => OnePer(F, lm.vis))'
    BY <2>1 DEF LayerInv, Family, OnePer
  <2>5. Straightened'
    BY <2>1 DEF LayerInv, Straightened, Straight, Odd, Nested
  <2> QED BY <2>2, <2>3, <2>4, <2>5 DEF LayerInv
<1> QED BY <1>4, <1>5, <1>7, <1>8, <1>9, <1>10, <1>11 DEF LayerNext

\* The invariant of the images.
LEMMA LayerInvHolds == LayerSpec => []LayerInv
<1>1. LayerInit => LayerInv
  BY LayerInvInit
<1>2. LayerInv /\ [LayerNext]_layerVars => LayerInv'
  BY LayerInvNext
<1> QED BY <1>1, <1>2, PTL DEF LayerSpec

\* Of the radio buttons of a folder exactly one is visible, for any files and any names
\* of layers, after any clicks, flips, strings, favorites and loaded projects.
THEOREM ButtonsShowOne == LayerSpec => []RadioShowsOne
<1>1. LayerInv => RadioShowsOne
  <2> SUFFICES ASSUME LayerInv, NEW g \in names.groups, Whole(g) PROVE \E l \in g : g \cap lm.vis = {l}
    BY DEF RadioShowsOne, LayerInv
  <2>1. PICK F \in SUBSET names.groups :
          /\ g \in F
          /\ \A h \in F, pair \in names.pairs :
               h \cap DOMAIN pair.twin # {} =>
                 h \subseteq DOMAIN pair.twin /\ {pair.twin[l] : l \in h} \in F
    BY DEF Whole
  <2>2. Family(F)
    BY <2>1 DEF Family
  <2>3. OnePer(F, lm.vis)
    BY <2>2 DEF LayerInv
  <2> QED BY <2>1, <2>3 DEF OnePer
<1> QED BY <1>1, LayerInvHolds, PTL

\* Of a layer and its mirror the side that does not go with the flip is hidden, but for a
\* drawn string that names a mirror and a project that was loaded.
THEOREM MirrorsFollow == LayerSpec => []FlipShown
<1>1. LayerInv => FlipShown
  BY DEF LayerInv, Straightened, Straight, FlipShown
<1> QED BY <1>1, LayerInvHolds, PTL
=============================================================================
