------------------------------ MODULE MCFat16 ------------------------------
(***************************************************************************)
(* Sectors of four items of two bytes, clusters of two sectors, a root     *)
(* directory of two sectors, a file whose three clusters are out of order  *)
(* on the disk, a directory "d" with a file in it, and deleted entries at  *)
(* every place.  No directory fills a sector.                              *)
(***************************************************************************)
EXTENDS Fat16, TLC

MCFat == (2 :> 5) @@ (5 :> 3) @@ (3 :> 65535) @@ (4 :> 65535) @@ (6 :> 65535)

ab == [kind |-> "file", base |-> <<"A", " ">>, ext |-> <<"B">>, called |-> <<"a", ".", "b">>,
       chain |-> <<2, 5, 3>>, cluster |-> 2, size |-> 45]
b == [kind |-> "file", base |-> <<"B", "B">>, ext |-> <<" ">>, called |-> <<"b", "b">>,
      chain |-> <<6>>, cluster |-> 6, size |-> 9]
d == [kind |-> "directory", base |-> <<"D", " ">>, ext |-> <<" ">>, called |-> <<"d">>,
      cluster |-> 4]
ba == [b EXCEPT !.base = <<"B", "A">>, !.called = <<"b", "a">>]
dot == [d EXCEPT !.base = <<".", " ">>, !.called = <<".">>]
deleted == [kind |-> "deleted", base |-> <<"E5", "B">>, ext |-> <<" ">>, cluster |-> 6]

Volume(root, sub) == (ROOT :> root) @@ (4 :> sub)
Subs == {<<dot>>, <<dot, b>>, <<dot, deleted, b>>, <<dot, b, deleted>>}

MCVolumes ==
  {Volume(root, sub) : root \in {<<d, ab>>, <<ab, d>>, <<deleted, d, ab>>, <<d, deleted>>}, sub \in Subs}
    \cup {Volume(root, <<dot>>) : root \in {<<>>, <<deleted>>, <<ab>>, <<ab, deleted>>, <<b, ab, deleted>>}}

MCPaths == {<<<<"A", ".", "B">>>>, <<<<"a", "b">>>>, <<<<"d">>>>, <<<<"a", ".", "b">>, <<"d">>>>,
            <<<<"d">>, <<"b", "B">>>>, <<<<"d">>, <<".">>, <<"b", "b">>>>,
            <<<<"x">>, <<"b", "b">>>>, <<<<"d">>, <<"x">>, <<"b", "b">>>>}

\* As many items as a sector holds: the count of them does not end.
MCFullSector == {Volume(root, <<dot>>) : root \in {<<ab, b, d, deleted>>, <<ab, b, d, ba>>}}

MCSizes == {1, 7, 8, 9, 15, 16, 17, 31, 32, 33, 47, 48, 49}
MCSeekOffsets == {0, 16, 20, 32}

==============================================================================
