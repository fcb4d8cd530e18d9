------------------------ MODULE MCSkeletonRoundTrip ------------------------
(* Every parent relation on the nodes, cycles included; the skin lists any *)
(* number of them. That it lists them by number loses nothing: the nodes   *)
(* are alike.                                                              *)
EXTENDS SkeletonRoundTrip
CONSTANTS n1, n2, n3, n4
MCNodes == {n1, n2, n3, n4}
MCSkins == {SubSeq(<<n1, n2, n3, n4>>, 1, k) : k \in 1 .. 4}
MCFiles == [above : [MCNodes -> MCNodes \cup {None}], skin : MCSkins]

(* Two places in one cell, ends of the range, and bounds between an even   *)
(* cell and an odd one, both ways.                                         *)
MCPlaces == {<<0, 0, 0>>, <<2, 1, 0>>, <<1024, 0, 506>>, <<0, 1021, 510>>, <<1024, 1021, 0>>}
=============================================================================
