-------------------------------- MODULE MCBlur --------------------------------
(* Small instances of Blur. *)
EXTENDS Blur

\* Every line of up to five pixels in two shades; and, for each radius there is a
\* table entry for and some beyond, two pixels of one shade.
Edges == UNION {[1..w -> {0, 255}] : w \in 1..5}
Flats == {<<c, c>> : c \in {1, 100, 255}}

SmallRadii == {-1, 0, 1, 2, 3, 7}
EveryRadius == -1..260

\* No line is both long and of many radii.
Instances == radius \in SmallRadii \/ source \in Flats
MCInit == Init /\ Instances
MCSpec == MCInit /\ [][Next]_vars

EdgesAndFlats == Edges \cup Flats
=============================================================================
