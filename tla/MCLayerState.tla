---------------------------- MODULE MCLayerState ----------------------------
(* Nine small files, one for each way in which the names of layers interact. *)
EXTENDS LayerState

Layer(kind, base) == [kind |-> kind, base |-> base, flips |-> {}]
Flipping(name, axes) == [name EXCEPT !.flips = axes]
a == Layer("radio", "a")
b == Layer("radio", "b")
c == Layer("plain", "c")
f == Layer("plain", "f")
g == Layer("forced", "g")

\* As in the file of the tests: a forced folder of radio buttons and its mirror.
Test == <<<<g>>, <<g, a>>, <<g, b>>,
          <<Flipping(g, {1})>>, <<Flipping(g, {1}), a>>, <<Flipping(g, {1}), b>>>>

\* A radio button with a mirror for every flip, another one, and a layer.
Sides == <<<<a>>, <<Flipping(a, {1})>>, <<Flipping(a, {2})>>, <<Flipping(a, {3})>>, <<b>>, <<c>>>>

\* One mirror for two flips.
Double == <<<<c>>, <<Flipping(c, {1, 2})>>, <<f>>>>

\* A folder and a mirror that hold different radio buttons.
Uneven == <<<<f>>, <<f, a>>, <<f, b>>,
            <<Flipping(f, {1})>>, <<Flipping(f, {1}), a>>, <<Flipping(f, {1}), Layer("radio", "d")>>>>

\* A pair in a folder and in its mirror.
Inner == <<<<f>>, <<f, c>>, <<f, Flipping(c, {1})>>,
           <<Flipping(f, {1})>>, <<Flipping(f, {1}), c>>, <<Flipping(f, {1}), Flipping(c, {1})>>>>

\* A folder with two mirrors.
TwoMirrors == <<<<f>>, <<f, c>>, <<Flipping(f, {1})>>, <<Flipping(f, {1}), c>>,
                <<Flipping(f, {2})>>, <<Flipping(f, {2}), c>>>>

\* A forced layer with two mirrors.
Forced == <<<<g>>, <<Flipping(g, {1})>>, <<Flipping(g, {2})>>>>

\* A folder and its mirror, and radio buttons of which the last is a mirror: one map has both
\* pairs, in any order.
Beside == <<<<f>>, <<f, a>>, <<Flipping(f, {1})>>, <<Flipping(f, {1}), a>>, <<b>>, <<Flipping(b, {1})>>>>

\* A folder and a mirror that has a radio button less.
Lacking == <<<<f>>, <<f, a>>, <<f, b>>, <<Flipping(f, {1})>>, <<Flipping(f, {1}), a>>>>

Files == {Test, Sides, Double, Uneven, Inner, TwoMirrors, Forced, Beside, Lacking}

Used == UNION {UNION {{p[l][i] : i \in DOMAIN p[l]} : l \in DOMAIN p} : p \in Files}
=============================================================================
