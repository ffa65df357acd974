----------------------------- MODULE MCHandover -----------------------------
(* Small instances of Handover for TLC.                                    *)
EXTENDS Handover, TLC

NoParams == {}
Switches == [op : {"enable"}, kind : {"nam"}, on : BOOLEAN]
Bypasses == [op : {"bypass"}, on : BOOLEAN]
Controls == Switches \cup Bypasses

Symmetry == Permutations(Res)
=============================================================================
