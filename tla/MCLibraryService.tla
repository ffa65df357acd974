-------------------------- MODULE MCLibraryService --------------------------
(* The two products on one index: the application opens it with the roots   *)
(* of its settings, a second one among them, the plug-in with the default.  *)
EXTENDS LibraryService
CONSTANTS app, plugin, default, extra

Products   == {app, plugin}
OwnProcess == [s \in Products |-> s]
OwnRoots   == [s \in Products |-> IF s = app THEN {default, extra} ELSE {default}]
=============================================================================
