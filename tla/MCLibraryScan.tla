--------------------------- MODULE MCLibraryScan ---------------------------
(* LibraryScan on a library with a link to a drive outside of it. *)
EXTENDS LibraryScan

Library     == <<"Library">>
Fav         == <<"Library", "Fav">>
Drive       == <<"Drive">>
LinkedDrive == {Library, Fav, Drive}
OnlyFav     == {Fav}
FavIsDrive  == [d \in LinkedDrive |-> IF d = Fav THEN Drive ELSE d]
OnDrive     == {<<Fav, "x">>}
OneRoot     == <<Library>>
=============================================================================
