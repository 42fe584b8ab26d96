------------------------------ MODULE MCPipeline ------------------------------
(* Pipeline with three groups of three objects and one provider, for TLC. *)
EXTENDS Pipeline

CONSTANTS g1, g2, g3, a, b, c, none, p, real, sim, leolabs

Rec(source, epoch, value, created) ==
    [source |-> source, epoch |-> epoch, value |-> value, created |-> created]

A == Rec(p, 1, "A", 1)
B == Rec(p, 1, "B", 2)
C == Rec(p, 1, "C", 1)

Good  == Rec(leolabs, 1, "good", 0)
Weak  == Rec(none, 1, Short, 0)
Wrong == Rec(leolabs, 1, Bad, 0)

MCRecord == {A, B, C, Good, Weak, Wrong}

MCContents == [g \in {g1, g2, g3} |->
    CASE g = g1 -> {[sats |-> <<a, b>>, reference |-> a], [sats |-> <<b, c>>, reference |-> none]}
      [] g = g2 -> {[sats |-> <<b, c>>, reference |-> c]}
      [] g = g3 -> {[sats |-> <<a, c>>, reference |-> c]}]

MCActive == [live \in SUBSET {g1, g2, g3} |-> SelectSeq(<<g1, g2, g3>>, LAMBDA g : g \in live)]

\* The answers of the provider and the element sets, by object
MCFeed == [s \in {a, b, c} |-> [q \in {p, Elsets} |->
    CASE s = a /\ q = p -> {<<>>, <<A, B, A>>, <<A, C>>}
      [] s = a /\ q = Elsets -> {<<Good, Good>>, <<Good, Weak>>}
      [] s = b /\ q = Elsets -> {<<>>, <<Wrong>>}
      [] OTHER -> {<<>>}]]

\* A reissue: the first record comes again, with a later stamp, before another one.
AgainA == Rec(p, 1, "A", 3)
Reissues == [MCFeed EXCEPT ![a][p] = {<<A, AgainA, B>>}]
ReissueRecord == MCRecord \cup {AgainA}

OneMode   == {<<real>>}
MCModes   == {<<real>>, <<sim, real>>}
MCSources == {<<p>>}
MCIds     == {<<>>, <<g2, g1>>}
OneId     == {<<g1>>}
=============================================================================
