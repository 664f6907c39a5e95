----------------------------- MODULE LayerManager ---------------------------
(***************************************************************************)
(* What NewLayerManager of img/layermgr.go derives from the names of the   *)
(* layers of a PSD file.  Names make three kinds of layers special: "*"    *)
(* makes radio buttons of siblings, "!" forces a layer to be visible, and  *)
(* ":flipx", ":flipy", ":flipxy" name the layer that replaces another one  *)
(* when the image is flipped.  A layer is its place in flat order, and a   *)
(* file has for each layer its path: the names of its folders and its own. *)
(***************************************************************************)
EXTENDS Integers, Sequences, FiniteSetsExt

CONSTANTS
  LayerNames, \* names: [kind, base, flips]; base is the rest and the number of a name in use
  Psds        \* files: sequences of paths

FlipNone == 0 \* FlipX, FlipY and FlipXY are 1, 2 and 3
Axes == 1 .. 3
Flips == {FlipNone} \cup Axes

ASSUME LayerNamesAssumption ==
  \A n \in LayerNames : n.kind \in {"plain", "radio", "forced"} /\ n.flips \subseteq Axes

\* Every layer has a path of its own, and its folder comes before it.
IsTree(p) ==
  /\ \A l \in DOMAIN p : p[l] # <<>>
  /\ \A k, l \in DOMAIN p : p[k] = p[l] => k = l
  /\ \A l \in DOMAIN p : Len(p[l]) > 1 => \E f \in 1 .. l - 1 : p[f] = SubSeq(p[l], 1, Len(p[l]) - 1)

ASSUME PsdsAssumption == \A p \in Psds : p \in Seq(Seq(LayerNames)) /\ IsTree(p)

Name(p, l) == p[l][Len(p[l])]
Plain(n) == [kind |-> n.kind, base |-> n.base, flips |-> {}]

\* The paths of k and l are equal from the first name to the last.
Same(p, k, l, first, last) == \A i \in first .. last : p[k][i] = p[l][i]

Siblings(p, l) == {s \in DOMAIN p : Len(p[s]) = Len(p[l]) /\ Same(p, s, l, 1, Len(p[l]) - 1)}
Below(p, f) == {l \in DOMAIN p : Len(p[f]) < Len(p[l]) /\ Same(p, f, l, 1, Len(p[f]))}

\* enumChildren, isGroup
Radio(p) == {l \in DOMAIN p : Name(p, l).kind = "radio"}
Groups(p) == {Siblings(p, l) \cap Radio(p) : l \in Radio(p)}

\* registerFlips: the sibling whose name is that of the mirror without the flips.
Originals(p, m) == {o \in Siblings(p, m) : Name(p, m).flips # {} /\ Name(p, o) = Plain(Name(p, m))}

\* The layer at the same place below the other of two folders.
Twins(p, o, m, l) ==
  {k \in DOMAIN p : /\ <<k, l>> \in (Below(p, o) \X Below(p, m)) \cup (Below(p, m) \X Below(p, o))
                    /\ Len(p[k]) = Len(p[l]) /\ Same(p, k, l, Len(p[o]) + 1, Len(p[l]))}

Pair(p, o, m) ==
  [original |-> o, mirror |-> m, axes |-> Name(p, m).flips,
   twin |-> [l \in {l \in DOMAIN p : Twins(p, o, m, l) # {}} |-> CHOOSE k \in Twins(p, o, m, l) : TRUE]]

Pairs(p) == UNION {{Pair(p, o, m) : o \in Originals(p, m)} : m \in DOMAIN p}

\* The orders in which the maps of pairs are ranged over: within a map any order may come.
\* mapOf tells which counts of the maps that a pair is in.
FirstMap == [axes \in SUBSET Axes \ {{}} |-> Min(axes)]
LastMap == [axes \in SUBSET Axes \ {{}} |-> Max(axes)]
Visits(pairs, mapOf) ==
  {s \in [1 .. Cardinality(pairs) -> pairs] :
     /\ \A pair \in pairs : \E i \in DOMAIN s : s[i] = pair
     /\ \A i, j \in DOMAIN s : i < j => mapOf[s[i].axes] <= mapOf[s[j].axes]}

\* registerSyncs: a layer below several pairs has the twin registered last.
Synced(visit, l) ==
  LET has == {i \in DOMAIN visit : l \in DOMAIN visit[i].twin}
  IN IF has = {} THEN {l} ELSE {l, visit[Max(has)].twin[l]}

\* Layers that differ in flips only: in a flipped image the one replaces the other.
Aliases(p, l) == {k \in DOMAIN p : /\ Len(p[k]) = Len(p[l])
                                   /\ \A i \in DOMAIN p[k] : Plain(p[k][i]) = Plain(p[l][i])}

NewLayerManager(p) ==
  [layers |-> DOMAIN p,
   radio |-> Radio(p),
   forced |-> {l \in DOMAIN p : Name(p, l).kind = "forced"},
   groups |-> Groups(p),
   siblings |-> [l \in DOMAIN p |-> Siblings(p, l)],
   above |-> [l \in DOMAIN p |-> {f \in DOMAIN p : l \in Below(p, f)}],
   aliases |-> [l \in DOMAIN p |-> Aliases(p, l)],
   pairs |-> Pairs(p),
   visits |-> Visits(Pairs(p), FirstMap),
   synced |-> {[l \in DOMAIN p |-> Synced(v, l)] : v \in Visits(Pairs(p), LastMap)}]

Managers == {NewLayerManager(p) : p \in Psds}
=============================================================================
