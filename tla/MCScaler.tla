------------------------------ MODULE MCScaler -------------------------------
(* Scaler on small ranges of every parameter and reading. *)
EXTENDS Scaler
=============================================================================
