------------------------------- MODULE Absence -------------------------------
(* The value that stands for nothing (Rust's Option::None), for the          *)
(* components that share it.                                                 *)
CONSTANT None
=============================================================================
