--------------------------- MODULE Editing_proofs ---------------------------
(***************************************************************************)
(* Theorems about Editing, for any images, tags, limit of the list and     *)
(* bounds.                                                                 *)
(***************************************************************************)
EXTENDS Editing, SequenceTheorems, TLAPS

-----------------------------------------------------------------------------
(* Facts about the list.                                                   *)

\* The items of a list and their fields.
LEMMA Items ==
  ASSUME NEW list \in Seq(Item)
  PROVE  /\ Len(list) \in Nat /\ DOMAIN list = 1 .. Len(list)
         /\ \A i \in 1 .. Len(list) :
              /\ list[i] \in Item
              /\ list[i].img \in Imgs /\ list[i].tag \in Tags \cup {NoTag}
              /\ list[i].latest \in {0} \cup Sends
              /\ list[i].thumb \in {"none", "own", "other"}
<1>1. Len(list) \in Nat /\ DOMAIN list = 1 .. Len(list)
  BY LenProperties
<1>2. \A i \in 1 .. Len(list) : list[i] \in Item
  BY ElementOfSeq
<1> QED BY <1>1, <1>2 DEF Item

\* A function on 1 .. n is a list of n items.
LEMMA IsList ==
  ASSUME NEW n \in Nat, NEW list \in [1 .. n -> Item]
  PROVE  list \in Seq(Item) /\ Len(list) = n
<1>1. list \in Seq(Item)
  BY SeqDef
<1>2. DOMAIN list = 1 .. n
  OBVIOUS
<1> QED BY <1>1, <1>2, LenProperties

LEMMA SelectionType ==
  ASSUME NEW list \in Seq(Item), NEW index \in Nat
  PROVE  /\ Selection(list, index) \in Imgs \cup {NoImg}
         /\ index < Len(list) => Selection(list, index) = list[index + 1].img
         /\ Selection(list, index) # NoImg <=> index < Len(list)
<1>1. CASE index < Len(list)
  <2>1. index + 1 \in 1 .. Len(list)
    BY <1>1, Items
  <2> QED BY <1>1, <2>1, Items, EditingNames DEF Selection
<1>2. CASE ~(index < Len(list))
  BY <1>2 DEF Selection
<1> QED BY <1>1, <1>2

\* What Find returns.
LEMMA Found ==
  ASSUME images \in Seq(Item), NEW tag
  PROVE  /\ Find(tag) # 0 => Find(tag) \in 1 .. Len(images) /\ images[Find(tag)].tag = tag /\ tag # NoTag
         /\ Find(tag) = 0 => tag = NoTag \/ \A i \in 1 .. Len(images) : images[i].tag # tag
<1>1. DOMAIN images = 1 .. Len(images) /\ Len(images) \in Nat
  BY Items
<1>2. CASE tag # NoTag /\ \E i \in DOMAIN images : images[i].tag = tag
  <2>1. Find(tag) \in DOMAIN images /\ images[Find(tag)].tag = tag
    BY <1>2 DEF Find
  <2> QED BY <1>1, <1>2, <2>1
<1>3. CASE ~(tag # NoTag /\ \E i \in DOMAIN images : images[i].tag = tag)
  <2>1. Find(tag) = 0
    BY <1>3 DEF Find
  <2> QED BY <1>1, <1>3, <2>1
<1> QED BY <1>2, <1>3

\* AddNew appends an item and selects it.
LEMMA Added ==
  ASSUME TypeOK, NEW tag \in Tags \cup {NoTag}, NEW latest \in {0} \cup Sends,
         AddNew(tag, latest)
  PROVE  /\ images' \in Seq(Item) /\ Len(images') = Len(images) + 1
         /\ Len(images) < Limit /\ selected' = Len(images)
         /\ \A i \in 1 .. Len(images) : images'[i] = images[i]
         /\ images'[Len(images) + 1].tag = tag /\ images'[Len(images) + 1].latest = latest
         /\ images'[Len(images) + 1].thumb = "none"
<1>1. PICK i \in Fresh : AppendItem([NewItem(i, tag) EXCEPT !.latest = latest])
  BY DEF AddNew
<1> DEFINE item == [NewItem(i, tag) EXCEPT !.latest = latest]
<1>2. i \in Imgs
  BY <1>1 DEF Fresh
<1>3. item = [img |-> i, tag |-> tag, latest |-> latest, thumb |-> "none"]
  BY DEF NewItem
<1>4. item \in Item
  BY <1>2, <1>3 DEF Item
<1>5. images' = Append(images, item) /\ selected' = Len(images)
  BY <1>1 DEF AppendItem
<1>6. images \in Seq(Item) /\ Len(images) < Limit
  BY DEF TypeOK, AddNew
<1>7. item.tag = tag /\ item.latest = latest /\ item.thumb = "none"
  BY <1>3
<1> HIDE DEF item
<1> QED BY <1>4, <1>5, <1>6, <1>7, AppendProperties

\* Delete moves the items after the selected one.
LEMMA Deleted ==
  ASSUME TypeOK, Delete
  PROVE  /\ images' \in Seq(Item)
         /\ Len(images') = IF Len(images) = 0 THEN 0 ELSE Len(images) - 1
         /\ selected' = IF selected = 0 THEN 0 ELSE selected - 1
         /\ \A i \in 1 .. Len(images') :
              /\ images'[i] = images[IF i <= selected THEN i ELSE i + 1]
              /\ (IF i <= selected THEN i ELSE i + 1) \in 1 .. Len(images)
<1> DEFINE n == IF Len(images) = 0 THEN 0 ELSE Len(images) - 1
<1>1. images \in Seq(Item) /\ Len(images) \in Nat
  BY Items DEF TypeOK
<1>2. n \in Nat /\ 1 .. n = 1 .. Len(images) - 1
  BY <1>1
<1>3. \A i \in 1 .. n : (IF i <= selected THEN i ELSE i + 1) \in 1 .. Len(images)
  BY <1>1
<1> HIDE DEF n
<1>4. images' = [i \in 1 .. n |-> images[IF i <= selected THEN i ELSE i + 1]]
  BY <1>2 DEF Delete
<1>5. images' \in [1 .. n -> Item]
  BY <1>1, <1>3, <1>4, Items
<1>6. images' \in Seq(Item) /\ Len(images') = n
  BY <1>2, <1>5, IsList
<1>7. \A i \in 1 .. n : images'[i] = images[IF i <= selected THEN i ELSE i + 1]
  BY <1>4
<1> QED BY <1>3, <1>6, <1>7 DEF n, Delete

\* Deserialize makes the list of the tags and thumbnails of the project.
LEMMA Loaded ==
  ASSUME TypeOK, NEW p \in Projects, Load(p)
  PROVE  /\ images' \in Seq(Item) /\ Len(images') <= Limit
         /\ selected' = IF Len(images') = 0 THEN 0 ELSE Len(images') - 1
         /\ cap' \in Capacities(Len(images'))
         /\ \A i \in 1 .. Len(images') :
              images'[i].tag = p[i][1] /\ images'[i].thumb \in {"none", "own"} /\ images'[i].latest = 0
         /\ \A i, j \in 1 .. Len(images') :
              images'[i].tag = images'[j].tag /\ images'[i].tag # NoTag => i = j
<1> DEFINE Saved == (Tags \cup {NoTag}) \X {"none", "own"}
<1>1. PICK n \in 0 .. Limit : p \in [1 .. n -> Saved]
  BY DEF Projects
<1>2. \A i, j \in 1 .. n : p[i][1] = p[j][1] /\ p[i][1] # NoTag => i = j
  BY <1>1 DEF Projects
<1>3. n \in Nat /\ n <= Limit /\ DOMAIN p = 1 .. n
  BY <1>1, EditingAssumption
<1>4. p \in Seq(Saved) /\ Len(p) = n
  <2>1. p \in Seq(Saved)
    BY <1>1, <1>3, SeqDef
  <2> QED BY <1>3, <2>1, LenProperties
<1>5. PICK ids \in Injection(DOMAIN p, Fresh) :
        images' = [i \in DOMAIN p |-> [NewItem(ids[i], p[i][1]) EXCEPT !.thumb = p[i][2]]]
  BY DEF Load
<1>6. \A i \in 1 .. n : ids[i] \in Imgs
  BY <1>3, <1>5 DEF Injection, Fresh
<1>7. \A i \in 1 .. n : /\ p[i][1] \in Tags \cup {NoTag} /\ p[i][2] \in {"none", "own"}
  BY <1>1
<1>8. \A i \in 1 .. n :
        images'[i] = [img |-> ids[i], tag |-> p[i][1], latest |-> 0, thumb |-> p[i][2]]
  BY <1>3, <1>5 DEF NewItem
<1>9. images' \in [1 .. n -> Item]
  <2>1. DOMAIN images' = 1 .. n /\ images' = [i \in 1 .. n |-> images'[i]]
    BY <1>3, <1>5
  <2>2. ASSUME NEW i \in 1 .. n PROVE images'[i] \in Item
    <3>1. /\ ids[i] \in Imgs /\ p[i][1] \in Tags \cup {NoTag}
          /\ p[i][2] \in {"none", "own", "other"} /\ 0 \in {0} \cup Sends
      BY <1>6, <1>7
    <3>2. [img |-> ids[i], tag |-> p[i][1], latest |-> 0, thumb |-> p[i][2]] \in Item
      BY <3>1 DEF Item
    <3> QED BY <1>8, <3>2
  <2> QED BY <2>1, <2>2
<1>10. images' \in Seq(Item) /\ Len(images') = n
  BY <1>3, <1>9, IsList
<1>11. p = <<>> <=> n = 0
  BY <1>4, EmptySeq
<1>12. cap' \in Capacities(n) /\ selected' = IF n = 0 THEN 0 ELSE n - 1
  BY <1>4, <1>11 DEF Load
<1>13. \A i \in 1 .. n :
         images'[i].tag = p[i][1] /\ images'[i].thumb = p[i][2] /\ images'[i].latest = 0
  <2> TAKE i \in 1 .. n
  <2>1. images'[i] = [img |-> ids[i], tag |-> p[i][1], latest |-> 0, thumb |-> p[i][2]]
    BY <1>8
  <2> QED BY <2>1
<1> QED BY <1>2, <1>3, <1>7, <1>10, <1>12, <1>13

-----------------------------------------------------------------------------
(* Type correctness.  The types of the list, of the thumbnailer and of the *)
(* reports are proved apart, since most steps leave two of them alone.     *)

ListType ==
  /\ images \in Seq(Item) /\ Len(images) <= cap
  /\ cap \in 0 .. 2 * Limit
  /\ selected \in 0 .. Limit - 1

ThumbType ==
  /\ img \in Imgs \cup {NoImg}
  /\ target \in Pointers
  /\ rendering \in Imgs \cup {NoImg} /\ stale \subseteq Imgs
  /\ armed \in Timer \cup {NoTimer} /\ fired \subseteq Timer

TagType ==
  /\ sent \in [Tags -> 0 .. MaxSends]
  /\ flight \subseteq Tags \X Sends
  /\ overtaken \subseteq Tags

ExcuseType == late \in BOOLEAN /\ moved \in BOOLEAN /\ failed \in BOOLEAN /\ unmade \in BOOLEAN

LEMMA TypeParts == TypeOK <=> ListType /\ ThumbType /\ TagType /\ ExcuseType
BY DEF TypeOK, ListType, ThumbType, TagType, ExcuseType

LEMMA TypeParts2 == TypeOK' <=> ListType' /\ ThumbType' /\ TagType' /\ ExcuseType'
BY DEF TypeOK, ListType, ThumbType, TagType, ExcuseType

LEMMA PointerType ==
  ASSUME NEW left \in BOOLEAN
  PROVE  /\ \A q \in Pointers : Pointer(q, left) \in Pointers
         /\ \A t \in Timer : Following(t, left) \in Timer /\ Following(t, left).pic = t.pic
                              /\ Following(t, left).at = IF left THEN Gone ELSE t.at
         /\ Following(NoTimer, left) = NoTimer
         /\ NoTimer \notin Timer
<1>1. \A q \in Pointers : Pointer(q, left) \in Pointers
  BY EditingAssumption DEF Pointers, Pointer, Gone
<1>2. NoTimer \notin Timer
  BY EditingNames DEF NoTimer, Timer
<1>3. ASSUME NEW t \in Timer
      PROVE  /\ Following(t, left) \in Timer /\ Following(t, left).pic = t.pic
             /\ Following(t, left).at = IF left THEN Gone ELSE t.at
  <2>1. Following(t, left) = [t EXCEPT !.at = Pointer(t.at, left)]
    BY <1>2 DEF Following
  <2>2. t.at \in Pointers /\ t.pic \in Imgs /\ t = [at |-> t.at, pic |-> t.pic]
    BY DEF Timer
  <2>3. Following(t, left) = [at |-> Pointer(t.at, left), pic |-> t.pic]
    BY <2>1, <2>2
  <2>4. Pointer(t.at, left) \in Pointers
    BY <1>1, <2>2
  <2> QED BY <2>2, <2>3, <2>4 DEF Timer, Pointer
<1> QED BY <1>1, <1>2, <1>3 DEF Following

LEMMA TimersType ==
  ASSUME ThumbType
  PROVE  Timers \subseteq Timer
BY DEF ThumbType, Timers

LEMMA IndexType == \A i \in 0 .. Limit - 1 : i \in Nat /\ i + 1 \in Pointers
BY EditingAssumption DEF Pointers, Gone

LEMMA KeepType ==
  ASSUME ThumbType, NEW left \in BOOLEAN, Keep(left), img' \in Imgs \cup {NoImg}
  PROVE  ThumbType'
<1>1. target' \in Pointers
  BY PointerType DEF ThumbType, Keep
<1>2. armed' \in Timer \cup {NoTimer}
  BY PointerType DEF ThumbType, Keep
<1>3. fired' \subseteq Timer
  BY PointerType DEF ThumbType, Keep
<1> QED BY <1>1, <1>2, <1>3 DEF ThumbType, Keep

LEMMA StartRenderType ==
  ASSUME ThumbType, NEW i \in Imgs, StartRender(i)
  PROVE  rendering' \in Imgs \cup {NoImg} /\ stale' \subseteq Imgs
BY DEF ThumbType, StartRender

LEMMA ChangeType ==
  ASSUME ThumbType, images' \in Seq(Item), selected' \in 0 .. Limit - 1,
         NEW left \in BOOLEAN, ChangeSelectedImage(left)
  PROVE  ThumbType' /\ failed' = FALSE /\ unmade' = FALSE
<1>1. failed' = FALSE /\ unmade' = FALSE /\ img' = Selection(images', selected')
  BY DEF ChangeSelectedImage
<1>2. selected' \in Nat /\ selected' + 1 \in Pointers
  BY IndexType
<1>3. img' \in Imgs \cup {NoImg}
  BY <1>1, <1>2, SelectionType
<1>4. CASE img' = NoImg
  <2>1. Keep(left)
    BY <1>4 DEF ChangeSelectedImage
  <2> QED BY <1>1, <1>3, <2>1, KeepType
<1>5. CASE img' # NoImg
  <2>1. /\ StartRender(img') /\ target' = selected' + 1 /\ armed' = NoTimer
        /\ fired' = {Following(t, left) : t \in Timers}
    BY <1>5 DEF ChangeSelectedImage
  <2>2. rendering' \in Imgs \cup {NoImg} /\ stale' \subseteq Imgs
    BY <1>3, <1>5, <2>1, StartRenderType
  <2>3. fired' \subseteq Timer
    BY <2>1, TimersType, PointerType
  <2> QED BY <1>1, <1>2, <1>3, <2>1, <2>2, <2>3 DEF ThumbType
<1> QED BY <1>4, <1>5

LEMMA AddedType ==
  ASSUME TypeOK, NEW tag \in Tags \cup {NoTag}, NEW latest \in {0} \cup Sends,
         AddNew(tag, latest)
  PROVE  ListType' /\ Full \in BOOLEAN
<1>1. /\ images' \in Seq(Item) /\ Len(images') = Len(images) + 1
      /\ Len(images) < Limit /\ selected' = Len(images)
  BY Added
<1>2. Len(images) \in Nat /\ Len(images) <= cap /\ cap \in 0 .. 2 * Limit
  BY Items DEF TypeOK
<1>3. IF Full THEN cap' \in Capacities(Len(images) + 1) ELSE cap' = cap
  BY DEF AddNew, AppendItem
<1>4. cap' \in 0 .. 2 * Limit /\ Len(images') <= cap'
  <2>1. CASE Full
    BY <1>1, <1>2, <1>3, <2>1, EditingAssumption DEF Capacities
  <2>2. CASE ~Full
    BY <1>1, <1>2, <1>3, <2>2, EditingAssumption DEF Full
  <2> QED BY <2>1, <2>2
<1>5. selected' \in 0 .. Limit - 1
  BY <1>1, <1>2, EditingAssumption
<1> QED BY <1>1, <1>4, <1>5 DEF ListType, Full

LEMMA EntersType ==
  ASSUME TagType, NEW tag \in Tags, NEW n, Enters(tag, n)
  PROVE  TagType'
BY DEF TagType, Enters

\* Changing a field of an item.
LEMMA ChangedItem ==
  ASSUME images \in Seq(Item), NEW k \in 1 .. Len(images), NEW item \in Item,
         images' = [images EXCEPT ![k] = item]
  PROVE  /\ images' \in Seq(Item) /\ Len(images') = Len(images)
         /\ images'[k] = item
         /\ \A i \in 1 .. Len(images) : i # k => images'[i] = images[i]
BY ExceptSeq

LEMMA KnownItem ==
  ASSUME TypeOK, NEW tag, NEW n \in Sends, UpdateKnown(tag, n)
  PROVE  /\ images' \in Seq(Item) /\ Len(images') = Len(images)
         /\ Find(tag) \in 1 .. Len(images) /\ images[Find(tag)].tag = tag
         /\ \A i \in 1 .. Len(images) :
              /\ images'[i].img = images[i].img /\ images'[i].tag = images[i].tag
              /\ images'[i].thumb = images[i].thumb
              /\ images'[i].latest = IF i = Find(tag) THEN n ELSE images[i].latest
<1> DEFINE k == Find(tag)
<1>1. images \in Seq(Item) /\ k \in 1 .. Len(images) /\ images[k].tag = tag
  BY Found DEF TypeOK, UpdateKnown
<1>2. images[k] \in Item
  BY <1>1, Items
<1> DEFINE item == [images[k] EXCEPT !.latest = n]
<1>3. item \in Item
  BY <1>2 DEF Item
<1>4. item.img = images[k].img /\ item.tag = images[k].tag /\ item.thumb = images[k].thumb
      /\ item.latest = n
  BY <1>2 DEF Item
<1>5. images' = [images EXCEPT ![k] = item]
  BY DEF UpdateKnown
<1> HIDE DEF item, k
<1>6. /\ images' \in Seq(Item) /\ Len(images') = Len(images)
      /\ images'[k] = item
      /\ \A i \in 1 .. Len(images) : i # k => images'[i] = images[i]
  BY <1>1, <1>3, <1>5, ChangedItem
<1>7. \A i \in 1 .. Len(images) :
        /\ images'[i].img = images[i].img /\ images'[i].tag = images[i].tag
        /\ images'[i].thumb = images[i].thumb
        /\ images'[i].latest = IF i = k THEN n ELSE images[i].latest
  BY <1>4, <1>6
<1> QED BY <1>1, <1>6, <1>7 DEF k

LEMMA ThumbnailItem ==
  ASSUME TypeOK, NEW t \in Timer, DeliverThumbnail(t)
  PROVE  /\ images' \in Seq(Item) /\ Len(images') = Len(images)
         /\ \A i \in 1 .. Len(images) :
              /\ images'[i].img = images[i].img /\ images'[i].tag = images[i].tag
              /\ images'[i].latest = images[i].latest
              /\ images'[i].thumb = IF i # t.at THEN images[i].thumb
                                    ELSE IF images[i].img = t.pic THEN "own" ELSE "other"
<1>1. images \in Seq(Item) /\ DOMAIN images = 1 .. Len(images)
  BY Items DEF TypeOK
<1>2. CASE t.at \notin DOMAIN images
  BY <1>1, <1>2 DEF DeliverThumbnail
<1>3. CASE t.at \in DOMAIN images
  <2> DEFINE k == t.at
             mark == IF images[k].img = t.pic THEN "own" ELSE "other"
             item == [images[k] EXCEPT !.thumb = mark]
  <2>1. images[k] \in Item /\ k \in 1 .. Len(images) /\ mark \in {"none", "own", "other"}
    BY <1>1, <1>3, Items
  <2>2. images' = [images EXCEPT ![k] = item]
    BY <1>3 DEF DeliverThumbnail
  <2> HIDE DEF mark
  <2>3. item \in Item
    BY <2>1 DEF Item
  <2>4. item.img = images[k].img /\ item.tag = images[k].tag /\ item.latest = images[k].latest
        /\ item.thumb = mark
    BY <2>1 DEF Item
  <2> HIDE DEF item, k
  <2>5. /\ images' \in Seq(Item) /\ Len(images') = Len(images)
        /\ images'[k] = item
        /\ \A i \in 1 .. Len(images) : i # k => images'[i] = images[i]
    BY <1>1, <2>1, <2>2, <2>3, ChangedItem
  <2>6. \A i \in 1 .. Len(images) :
          /\ images'[i].img = images[i].img /\ images'[i].tag = images[i].tag
          /\ images'[i].latest = images[i].latest
          /\ images'[i].thumb = IF i # k THEN images[i].thumb ELSE mark
    BY <2>4, <2>5
  <2> QED BY <2>5, <2>6 DEF k, mark
<1> QED BY <1>2, <1>3

\* A report that is under way has a tag and a number.
LEMMA Reports ==
  ASSUME TypeOK, NEW r \in flight
  PROVE  r[1] \in Tags /\ r[2] \in Sends /\ r = <<r[1], r[2]>>
BY DEF TypeOK

LEMMA TypeStep == TypeOK /\ [Next]_vars => TypeOK'
<1> SUFFICES ASSUME TypeOK, [Next]_vars PROVE TypeOK'
  OBVIOUS
<1>0. ListType /\ ThumbType /\ TagType /\ ExcuseType /\ FALSE \in BOOLEAN
  BY TypeParts
<1>1. CASE UNCHANGED vars
  BY <1>1 DEF TypeOK, vars, listVars, thumbVars, tagVars, excuses, Timer, Pointers
<1>2. ASSUME NEW tag \in Tags \cup {NoTag}, AddFile(tag) PROVE TypeOK'
  <2>1. ListType' /\ Full \in BOOLEAN
    BY <1>2, AddedType DEF AddFile
  <2>2. ThumbType' /\ failed' = FALSE /\ unmade' = FALSE
    BY <1>0, <1>2, <2>1, ChangeType DEF AddFile, ListType
  <2>3. TagType' /\ ExcuseType'
    BY <1>0, <1>2, <2>2 DEF AddFile, TagType, ExcuseType, tagVars, excuses
  <2> QED BY <2>1, <2>2, <2>3, TypeParts2
<1>3. ASSUME NEW tag \in Tags \cup {NoTag}, AddKnown(tag) PROVE TypeOK'
  <2>1. ListType'
    BY <1>0, <1>3 DEF AddKnown, ListType, listVars
  <2>2. ThumbType' /\ failed' = FALSE /\ unmade' = FALSE
    BY <1>0, <1>3, <2>1, ChangeType DEF AddKnown, ListType
  <2>3. TagType' /\ ExcuseType'
    BY <1>0, <1>3, <2>2 DEF AddKnown, TagType, ExcuseType, tagVars, excuses
  <2> QED BY <2>1, <2>2, <2>3, TypeParts2
<1>4. ASSUME NEW tag \in Tags, Report(tag) PROVE TypeOK'
  <2>1. sent[tag] \in 0 .. MaxSends /\ sent[tag] < MaxSends
    BY <1>0, <1>4 DEF Report, TagType
  <2>2. sent[tag] + 1 \in 0 .. MaxSends /\ sent[tag] + 1 \in Sends
    BY <2>1, EditingAssumption DEF Sends
  <2>3. TagType'
    BY <1>0, <1>4, <2>2 DEF Report, TagType
  <2>4. ListType' /\ ThumbType' /\ ExcuseType'
    BY <1>0, <1>4 DEF Report, ListType, ThumbType, ExcuseType, listVars, thumbVars, excuses
  <2> QED BY <2>3, <2>4, TypeParts2
<1>5. ASSUME NEW tag \in Tags, NEW n \in Sends, <<tag, n>> \in flight, UpdateKnown(tag, n)
      PROVE  TypeOK'
  <2>1. ListType'
    BY <1>0, <1>5, KnownItem DEF ListType, UpdateKnown
  <2>2. TagType'
    BY <1>0, <1>5, EntersType DEF UpdateKnown
  <2>3. ThumbType' /\ ExcuseType'
    BY <1>0, <1>5 DEF UpdateKnown, ThumbType, ExcuseType, thumbVars, excuses
  <2> QED BY <2>1, <2>2, <2>3, TypeParts2
<1>6. ASSUME NEW tag \in Tags, NEW n \in Sends, <<tag, n>> \in flight, UpdateNew(tag, n)
      PROVE  TypeOK'
  <2>1. ListType' /\ Full \in BOOLEAN
    BY <1>6, AddedType DEF UpdateNew
  <2>2. ThumbType' /\ failed' = FALSE /\ unmade' = FALSE
    BY <1>0, <1>6, <2>1, ChangeType DEF UpdateNew, ListType
  <2>3. TagType'
    BY <1>0, <1>6, EntersType DEF UpdateNew
  <2>4. ExcuseType'
    BY <1>0, <1>6, <2>2 DEF UpdateNew, ExcuseType, excuses
  <2> QED BY <2>1, <2>2, <2>3, <2>4, TypeParts2
<1>7. ASSUME NEW tag \in Tags, NEW n \in Sends, <<tag, n>> \in flight, UpdateNewFails(tag, n)
      PROVE  TypeOK'
  <2>1. ListType' /\ Full \in BOOLEAN
    BY <1>7, AddedType DEF UpdateNewFails
  <2>2. img' \in Imgs \cup {NoImg}
    BY <1>0, <1>7 DEF UpdateNewFails, ThumbType
  <2>3. ThumbType'
    BY <1>0, <1>7, <2>1, <2>2, KeepType DEF UpdateNewFails
  <2>4. TagType'
    BY <1>0, <1>7, EntersType DEF UpdateNewFails
  <2>5. ExcuseType'
    BY <1>0, <1>7 DEF UpdateNewFails, ExcuseType, excuses
  <2> QED BY <2>1, <2>3, <2>4, <2>5, TypeParts2
<1>8. ASSUME NEW tag \in Tags, NEW n \in Sends, <<tag, n>> \in flight, UpdateFails(tag, n)
      PROVE  TypeOK'
  <2>1. TagType'
    BY <1>0, <1>8, EntersType DEF UpdateFails
  <2>2. ListType' /\ ThumbType' /\ ExcuseType'
    BY <1>0, <1>8 DEF UpdateFails, ListType, ThumbType, ExcuseType, listVars, thumbVars, excuses
  <2> QED BY <2>1, <2>2, TypeParts2
<1>9. ASSUME NEW index \in 0 .. Limit - 1, ClickTab(index) PROVE TypeOK'
  <2>1. ListType'
    BY <1>0, <1>9 DEF ClickTab, ListType
  <2>2. ThumbType' /\ failed' = FALSE /\ unmade' = FALSE
    BY <1>0, <1>9, <2>1, ChangeType DEF ClickTab, ListType
  <2>3. TagType' /\ ExcuseType'
    BY <1>0, <1>9, <2>2 DEF ClickTab, TagType, ExcuseType, tagVars, excuses
  <2> QED BY <2>1, <2>2, <2>3, TypeParts2
<1>10. CASE Close
  <2>1. /\ images' \in Seq(Item)
        /\ Len(images') = IF Len(images) = 0 THEN 0 ELSE Len(images) - 1
        /\ selected' = (IF selected = 0 THEN 0 ELSE selected - 1) /\ cap' = cap
    BY <1>10, Deleted DEF Close, Delete
  <2>2. Len(images) \in Nat /\ Len(images) <= cap /\ cap \in 0 .. 2 * Limit
    BY <1>0, Items DEF ListType
  <2>3. Len(images') <= cap'
    BY <2>1, <2>2
  <2>4. selected' \in 0 .. Limit - 1
    BY <1>0, <2>1, EditingAssumption DEF ListType
  <2>5. ListType'
    BY <2>1, <2>2, <2>3, <2>4 DEF ListType
  <2>6. ThumbType' /\ failed' = FALSE /\ unmade' = FALSE
    BY <1>0, <1>10, <2>5, ChangeType DEF Close, ListType
  <2>7. moved' \in BOOLEAN /\ late' \in BOOLEAN
    BY <1>0, <1>10 DEF Close, ExcuseType
  <2>8. TagType' /\ ExcuseType'
    BY <1>0, <1>10, <2>6, <2>7 DEF Close, TagType, ExcuseType, tagVars
  <2> QED BY <2>5, <2>6, <2>8, TypeParts2
<1>11. CASE Modify
  <2>1. rendering' \in Imgs \cup {NoImg} /\ stale' \subseteq Imgs
    BY <1>0, <1>11, StartRenderType DEF Modify, ThumbType
  <2>2. ThumbType'
    BY <1>0, <1>11, <2>1 DEF Modify, ThumbType
  <2>3. ListType' /\ TagType' /\ ExcuseType'
    BY <1>0, <1>11 DEF Modify, ListType, TagType, ExcuseType, listVars, tagVars, excuses
  <2> QED BY <2>2, <2>3, TypeParts2
<1>12. ASSUME NEW p \in Projects, Load(p) PROVE TypeOK'
  <2>1. /\ images' \in Seq(Item) /\ Len(images') <= Limit /\ cap' \in Capacities(Len(images'))
        /\ selected' = IF Len(images') = 0 THEN 0 ELSE Len(images') - 1
    BY <1>12, Loaded
  <2>2. Len(images') \in Nat
    BY <2>1, LenProperties
  <2>3. cap' \in 0 .. 2 * Limit /\ Len(images') <= cap' /\ selected' \in 0 .. Limit - 1
    BY <2>1, <2>2, EditingAssumption DEF Capacities
  <2>4. ListType'
    BY <2>1, <2>3 DEF ListType
  <2>5. ThumbType' /\ failed' = FALSE /\ unmade' = FALSE
    BY <1>0, <1>12, <2>4, ChangeType DEF Load, ListType
  <2>6. TagType' /\ ExcuseType'
    BY <1>0, <1>12, <2>5 DEF Load, TagType, ExcuseType, tagVars, excuses
  <2> QED BY <2>4, <2>5, <2>6, TypeParts2
<1>13. ASSUME NEW i \in Imgs, UpdateThumbnail(i), stale' \subseteq Imgs,
              rendering' \in Imgs \cup {NoImg}, UNCHANGED <<listVars, img, target, tagVars, moved, failed, unmade>>,
              late' \in BOOLEAN
       PROVE  TypeOK'
  <2>1. armed' \in Timer
    BY <1>0, <1>13 DEF UpdateThumbnail, ThumbType, Timer
  <2>2. ThumbType'
    BY <1>0, <1>13, <2>1 DEF UpdateThumbnail, ThumbType
  <2>3. ListType' /\ TagType' /\ ExcuseType'
    BY <1>0, <1>13 DEF ListType, TagType, ExcuseType, listVars, tagVars
  <2> QED BY <2>2, <2>3, TypeParts2
<1>14. CASE DeliverRender
  <2>1. rendering \in Imgs /\ NoImg \in Imgs \cup {NoImg} /\ stale \subseteq Imgs
    BY <1>0, <1>14 DEF DeliverRender, ThumbType
  <2>2. late' \in BOOLEAN
    BY <1>0, <1>14 DEF DeliverRender, ExcuseType
  <2> QED BY <1>13, <1>14, <2>1, <2>2 DEF DeliverRender
<1>15. ASSUME NEW i \in stale, DeliverStale(i) PROVE TypeOK'
  <2>1. i \in Imgs /\ stale \ {i} \subseteq Imgs /\ rendering \in Imgs \cup {NoImg}
    BY <1>0 DEF ThumbType
  <2>2. late' \in BOOLEAN
    BY <1>0, <1>15 DEF DeliverStale, ExcuseType
  <2> QED BY <1>13, <1>15, <2>1, <2>2 DEF DeliverStale
<1>16. ASSUME NEW i \in stale, AbortRender(i) PROVE TypeOK'
  <2>1. ThumbType'
    BY <1>0, <1>16 DEF AbortRender, ThumbType
  <2>2. ListType' /\ TagType' /\ ExcuseType'
    BY <1>0, <1>16 DEF AbortRender, ListType, TagType, ExcuseType, listVars, tagVars, excuses
  <2> QED BY <2>1, <2>2, TypeParts2
<1>17. CASE Fire
  <2>1. ThumbType'
    BY <1>0, <1>17 DEF Fire, ThumbType
  <2>2. ListType' /\ TagType' /\ ExcuseType'
    BY <1>0, <1>17 DEF Fire, ListType, TagType, ExcuseType, listVars, tagVars, excuses
  <2> QED BY <2>1, <2>2, TypeParts2
<1>18. ASSUME NEW t \in fired, DeliverThumbnail(t) PROVE TypeOK'
  <2>1. t \in Timer
    BY <1>0 DEF ThumbType
  <2>2. ListType'
    BY <1>0, <1>18, <2>1, ThumbnailItem DEF ListType, DeliverThumbnail
  <2>3. ThumbType' /\ TagType' /\ ExcuseType'
    BY <1>0, <1>18 DEF DeliverThumbnail, ThumbType, TagType, ExcuseType, tagVars, excuses
  <2> QED BY <2>2, <2>3, TypeParts2
<1>19. ASSUME NEW t \in fired, ThumbnailFails(t) PROVE TypeOK'
  <2>1. ThumbType'
    BY <1>0, <1>19 DEF ThumbnailFails, ThumbType
  <2>2. ListType' /\ TagType' /\ ExcuseType'
    BY <1>0, <1>19 DEF ThumbnailFails, ListType, TagType, ExcuseType, listVars, tagVars, excuses
  <2> QED BY <2>1, <2>2, TypeParts2
<1> QED
  BY <1>1, <1>2, <1>3, <1>4, <1>5, <1>6, <1>7, <1>8, <1>9, <1>10, <1>11, <1>12, <1>14, <1>15,
     <1>16, <1>17, <1>18, <1>19, Reports DEF Next, Reported

LEMMA TypeInit == Init => TypeOK
<1> SUFFICES ASSUME Init PROVE TypeOK
  OBVIOUS
<1>1. ListType
  BY EmptySeq, EditingAssumption DEF Init, ListType
<1>2. ThumbType
  BY EditingAssumption DEF Init, ThumbType, Pointers, Gone
<1>3. TagType
  BY EditingAssumption DEF Init, TagType
<1>4. ExcuseType
  BY DEF Init, ExcuseType
<1> QED BY <1>1, <1>2, <1>3, <1>4, TypeParts

\* The list stays within its limit and the array behind it, the selected index
\* below the limit, and pointers within an array (editing.go: Add, Delete, Deserialize).
THEOREM TypeCorrect == Spec => []TypeOK
BY TypeInit, TypeStep, PTL DEF Spec

-----------------------------------------------------------------------------
(* Selection and tags.  Both follow the list through append, Delete and    *)
(* Deserialize; the other steps keep its length, images and tags.          *)

SameList ==
  /\ images' \in Seq(Item) /\ Len(images') = Len(images)
  /\ \A i \in 1 .. Len(images) :
       images'[i].img = images[i].img /\ images'[i].tag = images[i].tag

Same == SameList /\ UNCHANGED selected

\* The steps that select, add, remove or replace items.
Selects ==
  \/ \E tag \in Tags \cup {NoTag} : AddFile(tag)
  \/ \E tag \in Tags, n \in Sends : UpdateNew(tag, n) \/ UpdateNewFails(tag, n)
  \/ \E index \in 0 .. Limit - 1 : ClickTab(index)
  \/ Close
  \/ \E p \in Projects : Load(p)

LEMMA Unchanged ==
  ASSUME TypeOK, UNCHANGED images
  PROVE  SameList
BY DEF TypeOK, SameList

LEMMA SameOrSelects == TypeOK /\ [Next]_vars => Same \/ Selects
<1> SUFFICES ASSUME TypeOK, [Next]_vars PROVE Same \/ Selects
  OBVIOUS
<1>0. UNCHANGED vars => Same
  BY Unchanged DEF vars, listVars, Same
<1>1. ASSUME NEW tag, AddKnown(tag) PROVE Same
  BY <1>1, Unchanged DEF AddKnown, listVars, Same
<1>2. ASSUME NEW tag \in Tags, Report(tag) PROVE Same
  BY <1>2, Unchanged DEF Report, listVars, Same
<1>3. ASSUME NEW tag \in Tags, NEW n \in Sends, UpdateKnown(tag, n) PROVE Same
  BY <1>3, KnownItem DEF SameList, Same, UpdateKnown
<1>4. ASSUME NEW tag \in Tags, NEW n \in Sends, UpdateFails(tag, n) PROVE Same
  BY <1>4, Unchanged DEF UpdateFails, listVars, Same
<1>5. Modify => Same
  BY Unchanged DEF Modify, listVars, Same
<1>6. DeliverRender => Same
  BY Unchanged DEF DeliverRender, listVars, Same
<1>7. Fire => Same
  BY Unchanged DEF Fire, listVars, Same
<1>8. ASSUME NEW i \in stale, DeliverStale(i) \/ AbortRender(i) PROVE Same
  BY <1>8, Unchanged DEF DeliverStale, AbortRender, listVars, Same
<1>9. ASSUME NEW t \in fired, DeliverThumbnail(t) PROVE Same
  <2>1. t \in Timer
    BY DEF TypeOK
  <2> QED BY <1>9, <2>1, ThumbnailItem DEF SameList, Same, DeliverThumbnail
<1>10. ASSUME NEW t \in fired, ThumbnailFails(t) PROVE Same
  BY <1>10, Unchanged DEF ThumbnailFails, listVars, Same
<1> QED
  BY <1>0, <1>1, <1>2, <1>3, <1>4, <1>5, <1>6, <1>7, <1>8, <1>9, <1>10, Reports
  DEF Next, Reported, Selects

LEMMA EmptyList ==
  ASSUME NEW list \in Seq(Item)
  PROVE  list = <<>> <=> Len(list) = 0
BY EmptySeq

\* An index that is selected stays one.
LEMMA OneStep == TypeOK /\ TypeOK' /\ OneIsSelected /\ [Next]_vars => OneIsSelected'
<1> SUFFICES ASSUME TypeOK, TypeOK', OneIsSelected, [Next]_vars, images' # <<>>
             PROVE  selected' < Len(images')
  BY DEF OneIsSelected
<1>1. /\ images \in Seq(Item) /\ images' \in Seq(Item) /\ Len(images) \in Nat
      /\ Len(images') \in Nat \ {0} /\ selected \in Nat
  BY LenProperties, EmptySeq, EditingAssumption DEF TypeOK
<1>2. CASE Same
  <2>1. images # <<>>
    BY <1>1, <1>2, EmptyList DEF Same, SameList
  <2> QED BY <1>2, <2>1 DEF OneIsSelected, Same, SameList
<1>3. ASSUME NEW tag \in Tags \cup {NoTag}, NEW latest \in {0} \cup Sends, AddNew(tag, latest)
      PROVE  selected' < Len(images')
  <2>1. selected' = Len(images) /\ Len(images') = Len(images) + 1
    BY <1>3, Added
  <2> QED BY <1>1, <2>1
<1>4. ASSUME NEW index \in 0 .. Limit - 1, ClickTab(index) PROVE selected' < Len(images')
  BY <1>4 DEF ClickTab
<1>5. CASE Close
  <2>1. /\ Len(images') = IF Len(images) = 0 THEN 0 ELSE Len(images) - 1
        /\ selected' = IF selected = 0 THEN 0 ELSE selected - 1
    BY <1>5, Deleted DEF Close
  <2>2. images # <<>> => selected < Len(images)
    BY DEF OneIsSelected
  <2>3. images # <<>>
    BY <1>1, <2>1, EmptyList
  <2> QED BY <1>1, <2>1, <2>2, <2>3
<1>6. ASSUME NEW p \in Projects, Load(p) PROVE selected' < Len(images')
  BY <1>1, <1>6, Loaded
<1>7. ASSUME NEW tag \in Tags, NEW n \in Sends, UpdateNew(tag, n) \/ UpdateNewFails(tag, n)
      PROVE  selected' < Len(images')
  BY <1>3, <1>7 DEF UpdateNew, UpdateNewFails
<1>8. ASSUME NEW tag \in Tags \cup {NoTag}, AddFile(tag) PROVE selected' < Len(images')
  BY <1>3, <1>8 DEF AddFile
<1> QED BY <1>2, <1>4, <1>5, <1>6, <1>7, <1>8, SameOrSelects DEF Selects

\* The steps that end in changeSelectedImage.
LEMMA EditedStep == TypeOK /\ TypeOK' /\ EditedIsSelected /\ [Next]_vars => EditedIsSelected'
<1> SUFFICES ASSUME TypeOK, TypeOK', EditedIsSelected, [Next]_vars
             PROVE  EditedIsSelected'
  OBVIOUS
<1>1. images \in Seq(Item) /\ Len(images) \in Nat /\ images' \in Seq(Item) /\ selected \in Nat
  BY LenProperties, EditingAssumption DEF TypeOK
<1>2. CASE Same /\ UNCHANGED <<img, failed>>
  <2>1. Selection(images', selected') = Selection(images, selected)
    <3>1. CASE selected < Len(images)
      <4>1. selected + 1 \in 1 .. Len(images) /\ selected' < Len(images')
        BY <1>1, <1>2, <3>1 DEF Same, SameList
      <4> QED BY <1>2, <3>1, <4>1 DEF Same, SameList, Selection
    <3>2. CASE ~(selected < Len(images))
      BY <1>2, <3>2 DEF Same, SameList, Selection
    <3> QED BY <3>1, <3>2
  <2> QED BY <1>2, <2>1 DEF EditedIsSelected
<1>3. ASSUME NEW left, ChangeSelectedImage(left) PROVE EditedIsSelected'
  BY <1>3 DEF ChangeSelectedImage, EditedIsSelected
<1>4. CASE Selects
  <2>1. ASSUME NEW tag, NEW n, UpdateNewFails(tag, n) PROVE EditedIsSelected'
    BY <2>1 DEF UpdateNewFails, EditedIsSelected
  <2> QED BY <1>3, <1>4, <2>1 DEF Selects, AddFile, UpdateNew, ClickTab, Close, Load
<1>5. CASE Same /\ ~Selects
  <2>1. UNCHANGED <<img, failed>> \/ \E tag : AddKnown(tag)
    BY <1>5, Reports DEF Selects, Next, Reported, Report, UpdateKnown, UpdateFails, Modify,
       DeliverRender, Fire, DeliverStale, AbortRender, DeliverThumbnail, ThumbnailFails, vars, thumbVars
  <2> QED BY <1>2, <1>3, <1>5, <2>1 DEF AddKnown
<1> QED BY <1>4, <1>5, SameOrSelects

\* A tag in the list is not added again, and every other step keeps or drops tags.
LEMMA TagsStep == TypeOK /\ TypeOK' /\ TagsUnique /\ [Next]_vars => TagsUnique'
<1> SUFFICES ASSUME TypeOK, TypeOK', TagsUnique, [Next]_vars PROVE TagsUnique'
  OBVIOUS
<1>1. /\ images \in Seq(Item) /\ Len(images) \in Nat /\ DOMAIN images = 1 .. Len(images)
      /\ images' \in Seq(Item) /\ DOMAIN images' = 1 .. Len(images') /\ Len(images') \in Nat
      /\ selected \in Nat
  BY LenProperties, EditingAssumption DEF TypeOK
<1>2. \A i, j \in 1 .. Len(images) :
        images[i].tag = images[j].tag /\ images[i].tag # NoTag => i = j
  BY <1>1 DEF TagsUnique
<1> SUFFICES ASSUME NEW i \in 1 .. Len(images'), NEW j \in 1 .. Len(images'),
                    images'[i].tag = images'[j].tag, images'[i].tag # NoTag
             PROVE  i = j
  BY <1>1 DEF TagsUnique
<1>3. CASE SameList
  BY <1>2, <1>3 DEF SameList
<1>4. ASSUME NEW tag \in Tags \cup {NoTag}, NEW latest \in {0} \cup Sends, AddNew(tag, latest)
      PROVE  i = j
  <2> DEFINE n == Len(images)
  <2>1. /\ Len(images') = n + 1 /\ images'[n + 1].tag = tag
        /\ \A k \in 1 .. n : images'[k] = images[k]
    BY <1>4, Added
  <2>2. tag = NoTag \/ \A k \in 1 .. n : images[k].tag # tag
    BY <1>1, <1>4, Found DEF AddNew
  <2>3. \A k \in 1 .. n + 1 : k \in 1 .. n \/ k = n + 1
    BY <1>1
  <2> QED BY <1>2, <2>1, <2>2, <2>3
<1>5. CASE Close
  <2> DEFINE old(k) == IF k <= selected THEN k ELSE k + 1
  <2>1. \A k \in 1 .. Len(images') : images'[k] = images[old(k)] /\ old(k) \in 1 .. Len(images)
    BY <1>5, Deleted DEF Close
  <2>2. old(i) = old(j)
    BY <1>2, <2>1
  <2> QED BY <1>1, <2>2
<1>6. ASSUME NEW p \in Projects, Load(p) PROVE i = j
  BY <1>6, Loaded
<1>7. ASSUME NEW tag \in Tags, NEW n \in Sends, UpdateNew(tag, n) \/ UpdateNewFails(tag, n)
      PROVE  i = j
  BY <1>4, <1>7 DEF UpdateNew, UpdateNewFails
<1>8. ASSUME NEW tag \in Tags \cup {NoTag}, AddFile(tag) PROVE i = j
  BY <1>4, <1>8 DEF AddFile
<1>9. ASSUME NEW index \in 0 .. Limit - 1, ClickTab(index) PROVE i = j
  BY <1>3, <1>9, Unchanged DEF ClickTab
<1> QED BY <1>3, <1>5, <1>6, <1>7, <1>8, <1>9, SameOrSelects DEF Selects, Same

-----------------------------------------------------------------------------
(* Reports.  While no report of a tag has been overtaken, those after the  *)
(* one that the image has taken are still under way.                       *)

FlightSent == \A r \in flight : r[2] <= sent[r[1]]

Ordered(tag, n) ==
  tag \in Tags \ overtaken /\ n # 0 =>
    n <= sent[tag] /\ \A m \in n + 1 .. sent[tag] : <<tag, m>> \in flight

\* The same after a step.
OrderedNext(tag, n) ==
  tag \in Tags \ overtaken' /\ n # 0 =>
    n <= sent'[tag] /\ \A m \in n + 1 .. sent'[tag] : <<tag, m>> \in flight'

InOrder == \A i \in 1 .. Len(images) : Ordered(images[i].tag, images[i].latest)

\* What the steps do to the reports.
LEMMA ReportSteps ==
  ASSUME TypeOK, [Next]_vars
  PROVE  \/ UNCHANGED tagVars
         \/ \E tag \in Tags : Report(tag)
         \/ \E tag \in Tags, n \in Sends : <<tag, n>> \in flight /\ Reported(tag, n)
BY Reports DEF Next, AddFile, AddKnown, ClickTab, Close, Modify, Load, DeliverRender, Fire,
   DeliverStale, AbortRender, DeliverThumbnail, ThumbnailFails, vars

LEMMA FlightStep == TypeOK /\ FlightSent /\ [Next]_vars => FlightSent'
<1> SUFFICES ASSUME TypeOK, FlightSent, [Next]_vars PROVE FlightSent'
  OBVIOUS
<1>1. CASE UNCHANGED tagVars
  BY <1>1 DEF FlightSent, tagVars
<1>2. ASSUME NEW tag \in Tags, Report(tag) PROVE FlightSent'
  <2>1. /\ sent' = [sent EXCEPT ![tag] = @ + 1] /\ flight' = flight \cup {<<tag, sent[tag] + 1>>}
        /\ sent \in [Tags -> 0 .. MaxSends] /\ flight \subseteq Tags \X Sends
    BY <1>2 DEF Report, TypeOK
  <2>2. \A u \in Tags : sent[u] \in Int /\ sent'[u] \in Int /\ sent[u] <= sent'[u]
    BY <2>1, EditingAssumption
  <2>3. ASSUME NEW r \in flight PROVE r[2] <= sent'[r[1]]
    <3>1. r[1] \in Tags /\ r[2] \in Int /\ r[2] <= sent[r[1]]
      BY <2>1, Reports DEF FlightSent, Sends
    <3> QED BY <2>2, <3>1
  <2>4. sent[tag] + 1 <= sent'[tag]
    BY <2>1, <2>2
  <2> QED BY <2>1, <2>3, <2>4 DEF FlightSent
<1>3. ASSUME NEW tag \in Tags, NEW n \in Sends, Reported(tag, n) PROVE FlightSent'
  <2>1. Enters(tag, n)
    BY <1>3 DEF Reported, UpdateKnown, UpdateNew, UpdateNewFails, UpdateFails
  <2> QED BY <2>1 DEF Enters, FlightSent
<1> QED BY <1>1, <1>2, <1>3, ReportSteps

\* A report that enters is newer than what the image has, or the tag is overtaken.
LEMMA OrderedEnters ==
  ASSUME TypeOK, FlightSent, NEW tag \in Tags, NEW n \in Sends, <<tag, n>> \in flight, Enters(tag, n)
  PROVE  /\ OrderedNext(tag, n)
         /\ \A u, k : u # tag /\ Ordered(u, k) => OrderedNext(u, k)
<1>1. n <= sent[tag] /\ UNCHANGED sent /\ flight' = flight \ {<<tag, n>>}
  BY DEF FlightSent, Enters
<1>2. /\ overtaken \subseteq overtaken'
      /\ tag \notin overtaken' => \A m \in n + 1 .. sent[tag] : <<tag, m>> \in flight
      /\ \A u : u # tag /\ u \notin overtaken' => u \notin overtaken
  BY DEF Enters
<1>3. n \notin n + 1 .. sent[tag]
  BY EditingAssumption DEF Sends, TypeOK
<1>4. OrderedNext(tag, n)
  BY <1>1, <1>2, <1>3 DEF Ordered, OrderedNext
<1>5. ASSUME NEW u, NEW k, u # tag, Ordered(u, k) PROVE OrderedNext(u, k)
  BY <1>1, <1>2, <1>5 DEF Ordered, OrderedNext
<1> QED BY <1>4, <1>5

LEMMA OrderedReport ==
  ASSUME TypeOK, NEW tag \in Tags, Report(tag), NEW u, NEW k \in {0} \cup Sends, Ordered(u, k)
  PROVE  OrderedNext(u, k)
<1> SUFFICES ASSUME u \in Tags \ overtaken, k # 0
             PROVE  k <= sent'[u] /\ \A m \in k + 1 .. sent'[u] : <<u, m>> \in flight'
  BY DEF Ordered, OrderedNext, Report
<1>1. /\ sent' = [sent EXCEPT ![tag] = @ + 1] /\ flight' = flight \cup {<<tag, sent[tag] + 1>>}
      /\ sent \in [Tags -> 0 .. MaxSends] /\ k \in Int
  BY DEF Report, TypeOK, Sends
<1>2. k <= sent[u] /\ \A m \in k + 1 .. sent[u] : <<u, m>> \in flight
  BY DEF Ordered, OrderedNext
<1>3. sent[u] \in Int /\ sent'[u] = IF u = tag THEN sent[u] + 1 ELSE sent[u]
  BY <1>1, EditingAssumption
<1>4. k <= sent'[u]
  BY <1>1, <1>2, <1>3
<1>5. ASSUME NEW m \in k + 1 .. sent'[u] PROVE <<u, m>> \in flight'
  <2>1. m \in k + 1 .. sent[u] \/ (u = tag /\ m = sent[tag] + 1)
    BY <1>1, <1>3
  <2> QED BY <1>1, <1>2, <2>1
<1> QED BY <1>4, <1>5

LEMMA OrderStep ==
  TypeOK /\ TypeOK' /\ TagsUnique /\ FlightSent /\ InOrder /\ [Next]_vars => InOrder'
<1> SUFFICES ASSUME TypeOK, TypeOK', TagsUnique, FlightSent, InOrder, [Next]_vars PROVE InOrder'
  OBVIOUS
<1>1. /\ images \in Seq(Item) /\ Len(images) \in Nat /\ DOMAIN images = 1 .. Len(images)
      /\ images' \in Seq(Item) /\ DOMAIN images' = 1 .. Len(images') /\ Len(images') \in Nat
      /\ selected \in Nat
  BY LenProperties, EditingAssumption DEF TypeOK
<1>2. \A i \in 1 .. Len(images) : images[i].latest \in {0} \cup Sends
  BY <1>1, Items
<1> SUFFICES ASSUME NEW i \in 1 .. Len(images')
             PROVE  OrderedNext(images'[i].tag, images'[i].latest)
  BY DEF InOrder, Ordered, OrderedNext
<1>3. \A u : OrderedNext(u, 0)
  BY DEF OrderedNext
<1>4. \A k \in 1 .. Len(images) : Ordered(images[k].tag, images[k].latest)
  BY DEF InOrder
<1>5. UNCHANGED tagVars => \A u, k : Ordered(u, k) => OrderedNext(u, k)
  BY DEF Ordered, OrderedNext, tagVars
\* Items that keep their tags and their states.
<1>6. ASSUME UNCHANGED tagVars \/ \E tag \in Tags : Report(tag),
             NEW k \in 1 .. Len(images), images'[i].tag = images[k].tag,
             images'[i].latest = images[k].latest
      PROVE  OrderedNext(images'[i].tag, images'[i].latest)
  BY <1>2, <1>4, <1>5, <1>6, OrderedReport
\* Items of other tags than the one a report is for.
<1>7. ASSUME NEW tag \in Tags, NEW n \in Sends, <<tag, n>> \in flight, Enters(tag, n),
             NEW k \in 1 .. Len(images), images[k].tag # tag, images'[i].tag = images[k].tag,
             images'[i].latest = images[k].latest
      PROVE  OrderedNext(images'[i].tag, images'[i].latest)
  BY <1>4, <1>7, OrderedEnters
<1>8. ASSUME UNCHANGED images, UNCHANGED tagVars \/ \E tag \in Tags : Report(tag)
      PROVE  OrderedNext(images'[i].tag, images'[i].latest)
  BY <1>6, <1>8
<1>9. ASSUME NEW tag \in Tags \cup {NoTag}, AddFile(tag)
      PROVE  OrderedNext(images'[i].tag, images'[i].latest)
  <2>1. /\ Len(images') = Len(images) + 1 /\ images'[Len(images) + 1].latest = 0
        /\ \A k \in 1 .. Len(images) : images'[k] = images[k]
    BY <1>9, Added DEF AddFile
  <2>2. CASE i \in 1 .. Len(images)
    BY <1>6, <1>9, <2>1, <2>2 DEF AddFile
  <2>3. CASE i = Len(images) + 1
    BY <1>3, <2>1, <2>3
  <2> QED BY <1>1, <2>1, <2>2, <2>3
<1>10. CASE Close
  <2> DEFINE k == IF i <= selected THEN i ELSE i + 1
  <2>1. images'[i] = images[k] /\ k \in 1 .. Len(images)
    BY <1>10, Deleted DEF Close
  <2> HIDE DEF k
  <2> QED BY <1>6, <1>10, <2>1 DEF Close
<1>11. ASSUME NEW p \in Projects, Load(p) PROVE OrderedNext(images'[i].tag, images'[i].latest)
  BY <1>3, <1>11, Loaded
<1>12. ASSUME NEW t \in fired, DeliverThumbnail(t)
       PROVE  OrderedNext(images'[i].tag, images'[i].latest)
  <2>1. t \in Timer
    BY DEF TypeOK
  <2>2. i \in 1 .. Len(images) /\ images'[i].tag = images[i].tag /\ images'[i].latest = images[i].latest
    BY <1>12, <2>1, ThumbnailItem
  <2> QED BY <1>6, <1>12, <2>2 DEF DeliverThumbnail
<1>13. ASSUME NEW tag \in Tags, NEW n \in Sends, <<tag, n>> \in flight,
              UpdateNew(tag, n) \/ UpdateNewFails(tag, n)
       PROVE  OrderedNext(images'[i].tag, images'[i].latest)
  <2>1. PICK latest \in {0, n} : AddNew(tag, latest)
    BY <1>13 DEF UpdateNew, UpdateNewFails
  <2>2. Enters(tag, n)
    BY <1>13 DEF UpdateNew, UpdateNewFails
  <2>3. /\ Len(images') = Len(images) + 1
        /\ images'[Len(images) + 1].tag = tag /\ images'[Len(images) + 1].latest = latest
        /\ \A k \in 1 .. Len(images) : images'[k] = images[k]
    BY <2>1, Added
  <2>4. \A k \in 1 .. Len(images) : images[k].tag # tag
    BY <1>1, <2>1, Found, EditingNames DEF AddNew
  <2>5. CASE i \in 1 .. Len(images)
    BY <1>7, <1>13, <2>2, <2>3, <2>4, <2>5
  <2>6. CASE i = Len(images) + 1
    BY <1>3, <1>13, <2>2, <2>3, <2>6, OrderedEnters
  <2> QED BY <1>1, <2>3, <2>5, <2>6
<1>14. ASSUME NEW tag \in Tags, NEW n \in Sends, <<tag, n>> \in flight, UpdateKnown(tag, n)
       PROVE  OrderedNext(images'[i].tag, images'[i].latest)
  <2>1. Enters(tag, n)
    BY <1>14 DEF UpdateKnown
  <2>2. /\ i \in 1 .. Len(images) /\ Find(tag) \in 1 .. Len(images) /\ images[Find(tag)].tag = tag
        /\ images'[i].tag = images[i].tag
        /\ images'[i].latest = IF i = Find(tag) THEN n ELSE images[i].latest
    BY <1>14, KnownItem
  <2>3. CASE i = Find(tag)
    BY <1>14, <2>1, <2>2, <2>3, OrderedEnters
  <2>4. CASE i # Find(tag)
    <3>1. images[i].tag # tag
      BY <1>1, <1>14, <2>2, <2>4, EditingNames DEF TagsUnique
    <3> QED BY <1>7, <1>14, <2>1, <2>2, <2>4, <3>1
  <2> QED BY <2>3, <2>4
<1>15. ASSUME NEW tag \in Tags, NEW n \in Sends, <<tag, n>> \in flight, UpdateFails(tag, n)
       PROVE  OrderedNext(images'[i].tag, images'[i].latest)
  <2>1. Enters(tag, n) /\ UNCHANGED images
    BY <1>15 DEF UpdateFails, listVars
  <2>2. \A k \in 1 .. Len(images) : images[k].tag # tag
    BY <1>1, <1>15, Found, EditingNames DEF UpdateFails
  <2> QED BY <1>7, <1>15, <2>1, <2>2
<1>16. CASE UNCHANGED images /\ UNCHANGED tagVars
  BY <1>8, <1>16
<1> QED
  BY <1>8, <1>9, <1>10, <1>11, <1>12, <1>13, <1>14, <1>15, <1>16, Reports
  DEF Next, Reported, vars, listVars, AddKnown, Report, ClickTab, Modify, DeliverRender, Fire,
      DeliverStale, AbortRender, ThumbnailFails

-----------------------------------------------------------------------------
(* Thumbnails.  A pointer is good while the item it points to is the one   *)
(* that it was made for.  The pointer of the thumbnailer is that of the    *)
(* edited image; that of a timer may lag behind, but then the list has     *)
(* left its array, or the item is still where it was.                      *)

Own(t) == t.at = Gone \/ (t.at \in 1 .. Len(images) /\ images[t.at].img = t.pic)

TargetOwn == img # NoImg => Own([at |-> target, pic |-> img])

TargetIsSelected == ~failed /\ img # NoImg => target = selected + 1

PointersOwn == ~late /\ ~moved => \A t \in Timers : Own(t)

\* What is still to come for an image that has no thumbnail.
Waiting ==
  ~late /\ ~moved /\ ~failed /\ ~unmade /\ img # NoImg =>
    \/ images[selected + 1].thumb = "own"
    \/ rendering = img
    \/ [at |-> selected + 1, pic |-> img] \in Timers

Targets == TargetOwn /\ TargetIsSelected /\ Waiting

\* A good pointer stays good if its item stays, or the list leaves the array.
OwnNext(t) == t.at = Gone \/ (t.at \in 1 .. Len(images') /\ images'[t.at].img = t.pic)

Prefix ==
  /\ Len(images) \in Nat /\ Len(images') \in Nat /\ Len(images) <= Len(images')
  /\ \A i \in 1 .. Len(images) : images'[i].img = images[i].img

LEMMA OwnKept ==
  ASSUME Prefix, NEW t, Own(t)
  PROVE  OwnNext(t)
<1>1. \A i \in 1 .. Len(images) : i \in 1 .. Len(images')
  BY DEF Prefix
<1> QED BY <1>1 DEF Own, OwnNext, Prefix

LEMMA OwnFollows ==
  ASSUME NEW left \in BOOLEAN, left \/ Prefix, NEW t \in Timer, Own(t)
  PROVE  OwnNext(Following(t, left))
<1>1. /\ Following(t, left).pic = t.pic
      /\ Following(t, left).at = IF left THEN Gone ELSE t.at
  BY PointerType
<1>2. CASE left
  BY <1>1, <1>2 DEF OwnNext
<1>3. CASE ~left
  <2>1. OwnNext(t)
    BY <1>3, OwnKept
  <2> QED BY <1>1, <1>3, <2>1 DEF OwnNext
<1> QED BY <1>2, <1>3

\* changeSelectedImage leaves the timers, some of which it cannot stop.
LEMMA FollowingTimers ==
  ASSUME TypeOK, NEW left \in BOOLEAN, Keep(left) \/ ChangeSelectedImage(left)
  PROVE  \A u \in Timers' : \E t \in Timers : u = Following(t, left)
<1>1. Following(NoTimer, left) = NoTimer /\ fired \subseteq Timer /\ armed \in Timer \cup {NoTimer}
      /\ NoTimer \notin Timer
  BY PointerType DEF TypeOK
<1>2. CASE Keep(left)
  <2>1. armed' = Following(armed, left) /\ fired' = {Following(t, left) : t \in fired}
    BY <1>2 DEF Keep
  <2> QED BY <1>1, <2>1 DEF Timers
<1>3. CASE armed' = NoTimer /\ fired' = {Following(t, left) : t \in Timers}
  BY <1>3 DEF Timers
<1> QED BY <1>2, <1>3 DEF ChangeSelectedImage

\* ... and takes the thumbnailer and the render of the image that is selected.
LEMMA ChangeTargets ==
  ASSUME TypeOK', NEW left, ChangeSelectedImage(left)
  PROVE  Targets'
<1> SUFFICES ASSUME img' # NoImg PROVE Targets'
  BY DEF Targets, TargetOwn, TargetIsSelected, Waiting
<1>1. img' = Selection(images', selected') /\ target' = selected' + 1 /\ rendering' = img'
  BY DEF ChangeSelectedImage, StartRender
<1>2. images' \in Seq(Item) /\ selected' \in Nat /\ Len(images') \in Nat
  BY LenProperties, EditingAssumption DEF TypeOK
<1>3. selected' < Len(images') /\ img' = images'[selected' + 1].img
  BY <1>1, <1>2, SelectionType
<1>4. target' \in 1 .. Len(images') /\ images'[target'].img = img'
  <2>1. \A i, n \in Nat : i < n => i + 1 \in 1 .. n
    OBVIOUS
  <2>2. selected' + 1 \in 1 .. Len(images')
    BY <1>2, <1>3, <2>1
  <2> QED BY <1>1, <1>3, <2>2
<1>5. TargetOwn'
  BY <1>4 DEF TargetOwn, Own
<1>6. TargetIsSelected' /\ Waiting'
  BY <1>1 DEF TargetIsSelected, Waiting
<1> QED BY <1>5, <1>6 DEF Targets

\* The steps in which items stay where they are.
LEMMA PrefixKept ==
  ASSUME TypeOK, SameList \/ \E tag \in Tags \cup {NoTag}, n \in {0} \cup Sends : AddNew(tag, n)
  PROVE  Prefix
<1>1. images \in Seq(Item) /\ Len(images) \in Nat
  BY LenProperties DEF TypeOK
<1>2. CASE SameList
  BY <1>1, <1>2 DEF SameList, Prefix
<1>3. ASSUME NEW tag \in Tags \cup {NoTag}, NEW n \in {0} \cup Sends, AddNew(tag, n) PROVE Prefix
  <2>1. Len(images') = Len(images) + 1 /\ \A i \in 1 .. Len(images) : images'[i] = images[i]
    BY <1>3, Added
  <2> QED BY <1>1, <2>1 DEF Prefix
<1> QED BY <1>2, <1>3

LEMMA PointersStep ==
  TypeOK /\ TypeOK' /\ TargetOwn /\ PointersOwn /\ [Next]_vars => PointersOwn'
<1> SUFFICES ASSUME TypeOK, TypeOK', TargetOwn, PointersOwn, [Next]_vars, ~late', ~moved',
                    NEW u \in Timers'
             PROVE  OwnNext(u)
  BY DEF PointersOwn, Own, OwnNext
<1>1. ~late /\ ~moved
  BY DEF TypeOK, Next, Reported, AddFile, AddKnown, Report, UpdateKnown, UpdateNew, UpdateNewFails,
     UpdateFails, ClickTab, Close, Modify, Load, DeliverRender, Fire, DeliverStale, AbortRender,
     DeliverThumbnail, ThumbnailFails, vars, excuses
<1>2. (\A t \in Timers : Own(t)) /\ Timers \subseteq Timer
  BY <1>1 DEF PointersOwn, Timers, TypeOK
<1>3. CASE u \in Timers /\ Prefix
  BY <1>2, <1>3, OwnKept
<1>4. ASSUME NEW left \in BOOLEAN, Keep(left) \/ ChangeSelectedImage(left), left \/ Prefix
      PROVE  OwnNext(u)
  <2>1. PICK t \in Timers : u = Following(t, left)
    BY <1>4, FollowingTimers
  <2> QED BY <1>2, <1>4, <2>1, OwnFollows
<1>5. ASSUME SameList, Timers' \subseteq Timers PROVE OwnNext(u)
  BY <1>3, <1>5, PrefixKept
<1>6. ASSUME NEW tag \in Tags \cup {NoTag}, NEW latest \in {0} \cup Sends, AddNew(tag, latest),
             Keep(Full) \/ ChangeSelectedImage(Full)
      PROVE  OwnNext(u)
  BY <1>4, <1>6, PrefixKept DEF Full
<1>7. ASSUME SameList, ChangeSelectedImage(FALSE) PROVE OwnNext(u)
  BY <1>4, <1>7, PrefixKept
<1>8. ASSUME NEW i, UpdateThumbnail(i), SameList, i = img \/ target = Gone, i # NoImg
      PROVE  OwnNext(u)
  <2>1. u \in Timers \/ u = [at |-> target, pic |-> i]
    BY <1>8 DEF UpdateThumbnail, Timers
  <2>2. Own([at |-> target, pic |-> i])
    BY <1>8 DEF TargetOwn, Own
  <2>3. Prefix
    BY <1>8, PrefixKept
  <2> QED BY <1>3, <2>1, <2>2, <2>3, OwnKept
<1>9. CASE Close
  <2>1. ChangeSelectedImage(FALSE) /\ \A t \in Timers : t.at = Gone
    BY <1>9 DEF Close
  <2>2. PICK t \in Timers : u = Following(t, FALSE)
    BY <2>1, FollowingTimers
  <2>3. Following(t, FALSE).at = Gone
    BY <1>2, <2>1, <2>2, PointerType
  <2> QED BY <2>2, <2>3 DEF OwnNext
<1>10. ASSUME NEW p \in Projects, Load(p) PROVE OwnNext(u)
  BY <1>4, <1>10 DEF Load
<1>11. CASE DeliverRender
  BY <1>8, <1>11, Unchanged DEF DeliverRender, listVars
<1>12. ASSUME NEW i \in stale, DeliverStale(i) PROVE OwnNext(u)
  <2>1. i # NoImg
    BY EditingNames DEF TypeOK
  <2> QED BY <1>8, <1>12, <2>1, Unchanged DEF DeliverStale, listVars
<1>13. ASSUME NEW t \in fired, DeliverThumbnail(t) PROVE OwnNext(u)
  <2>1. SameList
    BY <1>13, ThumbnailItem DEF TypeOK, SameList
  <2> QED BY <1>5, <1>13, <2>1 DEF DeliverThumbnail, Timers
<1>14. ASSUME Fire \/ \E t \in fired : ThumbnailFails(t) PROVE OwnNext(u)
  <2>1. SameList
    BY <1>14, Unchanged DEF Fire, ThumbnailFails, listVars
  <2> QED BY <1>5, <1>14, <2>1 DEF Fire, ThumbnailFails, Timers
<1>15. ASSUME NEW tag, NEW n \in Sends, UpdateKnown(tag, n) PROVE OwnNext(u)
  <2>1. SameList
    BY <1>15, KnownItem DEF SameList
  <2> QED BY <1>5, <1>15, <2>1 DEF UpdateKnown, Timers, thumbVars
<1>16. ASSUME UNCHANGED images, UNCHANGED <<armed, fired>> PROVE OwnNext(u)
  BY <1>5, <1>16, Unchanged DEF Timers
<1>17. ASSUME NEW tag \in Tags, NEW n \in Sends,
              UpdateNew(tag, n) \/ UpdateNewFails(tag, n)
       PROVE  OwnNext(u)
  BY <1>6, <1>17 DEF UpdateNew, UpdateNewFails
<1>18. ASSUME NEW tag \in Tags \cup {NoTag}, AddFile(tag) \/ AddKnown(tag) PROVE OwnNext(u)
  BY <1>6, <1>7, <1>18, Unchanged DEF AddFile, AddKnown, listVars
<1>19. ASSUME NEW index \in 0 .. Limit - 1, ClickTab(index) PROVE OwnNext(u)
  BY <1>7, <1>19, Unchanged DEF ClickTab
<1> QED
  BY <1>9, <1>10, <1>11, <1>12, <1>13, <1>14, <1>15, <1>16, <1>17, <1>18, <1>19, Reports
  DEF Next, Reported, vars, listVars, thumbVars, Report, UpdateFails, Modify, AbortRender

\* Only a timer writes a thumbnail into the list, through its pointer.
LEMMA ThumbnailsStep ==
  TypeOK /\ TypeOK' /\ PointersOwn /\ ThumbnailsAreOwn /\ [Next]_vars => ThumbnailsAreOwn'
<1> SUFFICES ASSUME TypeOK, TypeOK', PointersOwn, ThumbnailsAreOwn, [Next]_vars, ~late', ~moved',
                    NEW i \in 1 .. Len(images')
             PROVE  images'[i].thumb # "other"
  BY Items DEF ThumbnailsAreOwn, TypeOK
<1>1. ~late /\ ~moved
  BY DEF TypeOK, Next, Reported, AddFile, AddKnown, Report, UpdateKnown, UpdateNew, UpdateNewFails,
     UpdateFails, ClickTab, Close, Modify, Load, DeliverRender, Fire, DeliverStale, AbortRender,
     DeliverThumbnail, ThumbnailFails, vars, excuses
<1>2. images \in Seq(Item) /\ Len(images) \in Nat /\ DOMAIN images = 1 .. Len(images) /\ selected \in Nat
  BY Items, EditingAssumption DEF TypeOK
<1>3. \A k \in 1 .. Len(images) : images[k].thumb # "other"
  BY <1>1, <1>2 DEF ThumbnailsAreOwn
<1>4. CASE UNCHANGED images
  BY <1>3, <1>4
<1>5. ASSUME NEW tag \in Tags \cup {NoTag}, NEW latest \in {0} \cup Sends, AddNew(tag, latest)
      PROVE  images'[i].thumb # "other"
  <2>1. /\ Len(images') = Len(images) + 1 /\ images'[Len(images) + 1].thumb = "none"
        /\ \A k \in 1 .. Len(images) : images'[k] = images[k]
    BY <1>5, Added
  <2> QED BY <1>2, <1>3, <2>1
<1>6. CASE Close
  <2> DEFINE k == IF i <= selected THEN i ELSE i + 1
  <2>1. images'[i] = images[k] /\ k \in 1 .. Len(images)
    BY <1>6, Deleted DEF Close
  <2> HIDE DEF k
  <2> QED BY <1>3, <2>1
<1>7. ASSUME NEW p \in Projects, Load(p) PROVE images'[i].thumb # "other"
  BY <1>7, Loaded
<1>8. ASSUME NEW tag, NEW n \in Sends, UpdateKnown(tag, n) PROVE images'[i].thumb # "other"
  BY <1>3, <1>8, KnownItem
<1>9. ASSUME NEW t \in fired, DeliverThumbnail(t) PROVE images'[i].thumb # "other"
  <2>1. t \in Timer /\ Own(t)
    BY <1>1 DEF TypeOK, PointersOwn, Timers
  <2>2. /\ i \in 1 .. Len(images)
        /\ images'[i].thumb = IF i # t.at THEN images[i].thumb
                              ELSE IF images[i].img = t.pic THEN "own" ELSE "other"
    BY <1>9, <2>1, ThumbnailItem
  <2> QED BY <1>2, <1>3, <2>1, <2>2 DEF Own, Gone
<1> QED
  BY <1>4, <1>5, <1>6, <1>7, <1>8, <1>9, Reports
  DEF Next, Reported, vars, listVars, AddFile, AddKnown, Report, UpdateNew, UpdateNewFails,
      UpdateFails, ClickTab, Modify, DeliverRender, Fire, DeliverStale, AbortRender, ThumbnailFails

\* The edited image is that of the item that is selected.
LEMMA EditedItem ==
  ASSUME TypeOK, EditedIsSelected, ~failed, img # NoImg
  PROVE  selected + 1 \in 1 .. Len(images) /\ images[selected + 1].img = img
<1>1. images \in Seq(Item) /\ selected \in Nat /\ Len(images) \in Nat
  BY LenProperties, EditingAssumption DEF TypeOK
<1>2. img = Selection(images, selected)
  BY DEF EditedIsSelected
<1>3. selected < Len(images) /\ img = images[selected + 1].img
  BY <1>1, <1>2, SelectionType
<1> QED BY <1>1, <1>3

\* Every new selection takes a new thumbnailer and a new render, and
\* whatever ends afterwards for that image leaves the next step to come.
LEMMA TargetsStep ==
  TypeOK /\ TypeOK' /\ EditedIsSelected /\ PointersOwn /\ Targets /\ [Next]_vars => Targets'
<1> SUFFICES ASSUME TypeOK, TypeOK', EditedIsSelected, PointersOwn, Targets, [Next]_vars
             PROVE  Targets'
  OBVIOUS
<1>1. ASSUME NEW left, ChangeSelectedImage(left) PROVE Targets'
  BY <1>1, ChangeTargets
<1>2. ASSUME Prefix, UNCHANGED <<img, target>> PROVE TargetOwn'
  <2>1. img # NoImg => OwnNext([at |-> target, pic |-> img])
    BY <1>2, OwnKept DEF Targets, TargetOwn
  <2> QED BY <1>2, <2>1 DEF TargetOwn, Own, OwnNext
<1>3. ASSUME SameList, UNCHANGED <<selected, img, target, failed>>
      PROVE  TargetOwn' /\ TargetIsSelected'
  <2>1. TargetOwn'
    BY <1>2, <1>3, PrefixKept
  <2>2. TargetIsSelected'
    BY <1>3 DEF Targets, TargetIsSelected
  <2> QED BY <2>1, <2>2
\* Steps that leave thumbnails, timers and render.
<1>4. ASSUME SameList, UNCHANGED <<selected, img, target, rendering, late, moved, failed, unmade>>,
             Timers \subseteq Timers', \A i \in 1 .. Len(images) : images'[i].thumb = images[i].thumb
      PROVE  Targets'
  <2>1. Waiting'
    <3>1. ~failed /\ img # NoImg => images'[selected + 1].thumb = images[selected + 1].thumb
      BY <1>4, EditedItem
    <3> QED BY <1>4, <3>1 DEF Targets, Waiting
  <2> QED BY <1>3, <1>4, <2>1 DEF Targets
<1>5. ASSUME UNCHANGED <<images, selected, img, target, rendering, late, moved, failed, unmade>>,
             Timers \subseteq Timers'
      PROVE  Targets'
  BY <1>4, <1>5, Unchanged
<1>6. ASSUME NEW tag \in Tags, NEW n \in Sends, UpdateNewFails(tag, n) PROVE Targets'
  <2>1. /\ Prefix /\ Keep(Full) /\ img' = img /\ failed' = TRUE
        /\ target' = IF Full THEN Gone ELSE target
    BY <1>6, PrefixKept DEF UpdateNewFails, Keep, Pointer
  <2>2. TargetOwn'
    <3>1. CASE Full
      BY <2>1, <3>1 DEF TargetOwn, Own
    <3>2. CASE ~Full
      BY <1>2, <2>1, <3>2
    <3> QED BY <3>1, <3>2
  <2> QED BY <2>1, <2>2 DEF Targets, TargetIsSelected, Waiting
<1>7. CASE Modify
  <2>1. SameList /\ UNCHANGED <<selected, img, target, failed>> /\ rendering' = img
    BY <1>7, Unchanged DEF Modify, StartRender, listVars
  <2> QED BY <1>3, <2>1 DEF Targets, Waiting
\* The end of a render starts the timer of the selected item.
<1>8. ASSUME NEW i \in Imgs, UpdateThumbnail(i), UNCHANGED <<listVars, img, target, moved, failed, unmade>>,
             late' = (late \/ (i # img /\ target # Gone)),
             rendering = img => rendering' = img \/ i = img
      PROVE  Targets'
  <2>1. SameList /\ UNCHANGED <<selected, img, target, failed>>
    BY <1>8, Unchanged DEF listVars
  <2>2. Waiting'
    <3> SUFFICES ASSUME ~late', ~moved', ~failed', ~unmade', img' # NoImg
                 PROVE  \/ images'[selected' + 1].thumb = "own" \/ rendering' = img'
                        \/ [at |-> selected' + 1, pic |-> img'] \in Timers'
      BY DEF Waiting
    <3>1. ~late /\ ~moved /\ ~failed /\ ~unmade /\ img # NoImg
      BY <1>8 DEF TypeOK
    <3>2. selected + 1 \in 1 .. Len(images)
      BY <3>1, EditedItem
    <3>3. target = selected + 1 /\ target # Gone
      BY <3>1, <3>2 DEF Targets, TargetIsSelected, Gone
    <3>4. i = img
      BY <1>8, <3>3
    <3>5. [at |-> selected + 1, pic |-> img] \in Timers'
      BY <1>8, <3>1, <3>3, <3>4, EditingNames DEF UpdateThumbnail, Timers, NoTimer
    <3> QED BY <1>8, <3>5 DEF listVars
  <2> QED BY <1>3, <2>1, <2>2 DEF Targets
<1>9. CASE DeliverRender
  <2>1. rendering \in Imgs
    BY <1>9 DEF DeliverRender, TypeOK
  <2> QED BY <1>8, <1>9, <2>1 DEF DeliverRender
<1>10. ASSUME NEW i \in stale, DeliverStale(i) PROVE Targets'
  <2>1. i \in Imgs
    BY DEF TypeOK
  <2> QED BY <1>8, <1>10, <2>1 DEF DeliverStale
\* The timer writes the thumbnail.
<1>11. ASSUME NEW t \in fired, DeliverThumbnail(t) PROVE Targets'
  <2>1. /\ t \in Timer /\ images \in Seq(Item) /\ Len(images) \in Nat
        /\ UNCHANGED <<selected, img, target, rendering, late, moved, failed, unmade>>
    BY <1>11, LenProperties DEF TypeOK, DeliverThumbnail, excuses
  <2>2. /\ SameList
        /\ \A i \in 1 .. Len(images) :
             images'[i].thumb = IF i # t.at THEN images[i].thumb
                                ELSE IF images[i].img = t.pic THEN "own" ELSE "other"
    BY <1>11, <2>1, ThumbnailItem DEF SameList
  <2>3. Waiting'
    <3> SUFFICES ASSUME ~late, ~moved, ~failed, ~unmade, img # NoImg
                 PROVE  \/ images'[selected + 1].thumb = "own" \/ rendering = img
                        \/ [at |-> selected + 1, pic |-> img] \in Timers'
      BY <2>1 DEF Waiting
    <3>1. selected + 1 \in 1 .. Len(images) /\ images[selected + 1].img = img
      BY EditedItem
    <3>2. Own(t) /\ Timers \ {t} \subseteq Timers'
      BY <1>11 DEF PointersOwn, Timers, DeliverThumbnail
    <3>3. CASE t.at = selected + 1
      BY <2>2, <3>1, <3>2, <3>3 DEF Own, Gone
    <3>4. CASE t.at # selected + 1
      <4>1. images'[selected + 1].thumb = images[selected + 1].thumb
        BY <2>2, <3>1, <3>4
      <4>2. [at |-> selected + 1, pic |-> img] # t
        BY <3>4
      <4> QED BY <3>2, <4>1, <4>2 DEF Targets, Waiting
    <3> QED BY <3>3, <3>4
  <2> QED BY <1>3, <2>1, <2>2, <2>3 DEF Targets
<1>12. CASE Fire
  <2>1. Timers' = Timers
    BY <1>12 DEF Fire, Timers
  <2> QED BY <1>5, <1>12, <2>1 DEF Fire, listVars, excuses
<1>13. ASSUME NEW tag, NEW n \in Sends, UpdateKnown(tag, n) PROVE Targets'
  <2>1. SameList /\ \A i \in 1 .. Len(images) : images'[i].thumb = images[i].thumb
    BY <1>13, KnownItem DEF SameList
  <2>2. Timers' = Timers
    BY <1>13 DEF UpdateKnown, thumbVars, Timers
  <2> QED BY <1>4, <1>13, <2>1, <2>2 DEF UpdateKnown, thumbVars, excuses
<1>14. ASSUME UNCHANGED <<listVars, img, thumbVars, excuses, failed, unmade>> PROVE Targets'
  <2>1. Timers' = Timers
    BY <1>14 DEF Timers, thumbVars
  <2> QED BY <1>5, <1>14, <2>1 DEF listVars, thumbVars, excuses
<1>15. ASSUME NEW i \in stale, AbortRender(i) PROVE Targets'
  <2>1. Timers' = Timers
    BY <1>15 DEF Timers, AbortRender
  <2> QED BY <1>5, <1>15, <2>1 DEF AbortRender, listVars, excuses
\* A thumbnail that cannot be made is missed on the tab of the edited image, when that has none.
<1>16. ASSUME NEW t \in fired, ThumbnailFails(t) PROVE Targets'
  <2>1. /\ SameList /\ Timers \ {t} \subseteq Timers'
        /\ UNCHANGED <<images, selected, img, target, rendering, late, moved, failed>>
    BY <1>16, Unchanged DEF ThumbnailFails, listVars, excuses, Timers
  <2>2. Waiting'
    <3> SUFFICES ASSUME ~late, ~moved, ~failed, ~unmade', img # NoImg, images[selected + 1].thumb # "own"
                 PROVE  rendering = img \/ [at |-> selected + 1, pic |-> img] \in Timers'
      BY <2>1 DEF Waiting
    <3>1. ~unmade /\ t.pic # img
      <4>1. unmade' = (unmade \/ (t.pic = img /\ images[selected + 1].thumb # "own"))
        BY <1>16 DEF ThumbnailFails
      <4> QED BY <4>1, Zenon
    <3>2. [at |-> selected + 1, pic |-> img].pic = img
      OBVIOUS
    <3>3. [at |-> selected + 1, pic |-> img] # t
      BY <3>1, <3>2
    <3> QED BY <2>1, <3>1, <3>3 DEF Targets, Waiting
  <2> QED BY <1>3, <2>1, <2>2 DEF Targets
<1> QED
  BY <1>1, <1>6, <1>7, <1>9, <1>10, <1>11, <1>12, <1>13, <1>14, <1>15, <1>16, Reports
  DEF Next, Reported, vars, AddFile, AddKnown, UpdateNew, ClickTab, Close, Load, Report, UpdateFails

-----------------------------------------------------------------------------
(* The inductive invariant and what follows from it.                       *)

Inv ==
  /\ TypeOK
  /\ OneIsSelected /\ EditedIsSelected
  /\ TagsUnique
  /\ FlightSent /\ InOrder
  /\ Targets /\ PointersOwn /\ ThumbnailsAreOwn

LEMMA InvInit == Init => Inv
<1> SUFFICES ASSUME Init PROVE Inv
  OBVIOUS
<1>1. TypeOK
  BY TypeInit
<1>2. images = <<>> /\ Len(images) = 0 /\ DOMAIN images = {} /\ 1 .. Len(images) = {}
  BY EmptySeq DEF Init
<1>3. OneIsSelected /\ TagsUnique /\ InOrder /\ ThumbnailsAreOwn
  BY <1>2 DEF OneIsSelected, TagsUnique, InOrder, ThumbnailsAreOwn
<1>4. EditedIsSelected
  BY <1>2 DEF Init, EditedIsSelected, Selection
<1>5. FlightSent /\ Targets /\ PointersOwn
  BY DEF Init, FlightSent, Targets, TargetOwn, TargetIsSelected, Waiting, PointersOwn, Timers
<1> QED BY <1>1, <1>3, <1>4, <1>5 DEF Inv

LEMMA InvStep == Inv /\ [Next]_vars => Inv'
BY TypeStep, OneStep, EditedStep, TagsStep, FlightStep, OrderStep, PointersStep, ThumbnailsStep,
   TargetsStep DEF Inv, Targets

\* All of it together, in every state that the operations, reports, renders and
\* timers reach.
THEOREM Invariant == Spec => []Inv
BY InvInit, InvStep, PTL DEF Spec

\* The GUI edits the image that the list has selected, unless a report could
\* not set the state of a new image (gui.go: changeSelectedImage).
THEOREM EditsTheSelected == Spec => []EditedIsSelected
BY Invariant, PTL DEF Inv

\* A tag names one image of the list, through Add, Delete and Deserialize.
THEOREM TagsAreUnique == Spec => []TagsUnique
BY Invariant, PTL DEF Inv

\* A thumbnail is on the tab of its own image, unless items have moved under
\* the pointer of a timer or a render has ended for another image.
THEOREM ThumbnailsStayOwn == Spec => []ThumbnailsAreOwn
BY Invariant, PTL DEF Inv

\* The selected image gets its thumbnail: while it has none, a render or a
\* timer for it is under way.
THEOREM SelectedGetsThumbnail == Spec => []SelectedHasThumbnail
<1>1. Inv => SelectedHasThumbnail
  BY DEF Inv, Targets, Waiting, SelectedHasThumbnail, Quiet
<1> QED BY <1>1, Invariant, PTL

\* When no report is under way, an image has the last state that was reported
\* for its tag, unless a report has overtaken another.
THEOREM LastReportWins == Spec => []LatestIsLast
<1>1. Inv => LatestIsLast
  <2> SUFFICES ASSUME Inv, NEW i \in DOMAIN images, images[i].tag \in Tags \ overtaken,
                      \A n \in Sends : <<images[i].tag, n>> \notin flight, images[i].latest # 0
               PROVE  images[i].latest = sent[images[i].tag]
    BY DEF LatestIsLast
  <2>1. i \in 1 .. Len(images) /\ images[i].latest \in Sends /\ sent[images[i].tag] \in 0 .. MaxSends
    BY Items DEF Inv, TypeOK
  <2>2. /\ images[i].latest <= sent[images[i].tag]
        /\ \A m \in images[i].latest + 1 .. sent[images[i].tag] : <<images[i].tag, m>> \in flight
    BY <2>1 DEF Inv, InOrder, Ordered
  <2>3. ASSUME images[i].latest < sent[images[i].tag] PROVE FALSE
    <3>1. /\ sent[images[i].tag] \in images[i].latest + 1 .. sent[images[i].tag]
          /\ sent[images[i].tag] \in Sends
      BY <2>1, <2>3, EditingAssumption DEF Sends
    <3> QED BY <2>2, <3>1
  <2> QED BY <2>1, <2>2, <2>3, EditingAssumption DEF Sends
<1> QED BY <1>1, Invariant, PTL
=============================================================================
