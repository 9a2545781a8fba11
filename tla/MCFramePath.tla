---------------------------- MODULE MCFramePath ----------------------------
(* FramePath for TLC.                                                       *)
EXTENDS FramePath

Part(lo, hi) == [lo |-> lo, hi |-> hi]

\* "0-2", "1,1,3" and a list in which nothing parses.
SomeCpuLists == {<<Part(0, 2)>>, <<Part(1, 1), Part(1, 1), Part(3, 3)>>, <<Part(3, 1)>>}

SomeOnlines == {<< >>, <<0, 1, 2, 3>>}
=============================================================================
