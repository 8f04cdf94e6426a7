--------------------------- MODULE MCRabbitSource ----------------------------
(* RabbitSource with the constants of the code. *)
EXTENDS RabbitSource
=============================================================================
