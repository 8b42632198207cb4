--------------------------- MODULE MCOrderService ---------------------------
(* Three connections that share two addresses, one after another or at once. *)
EXTENDS OrderService

MCConnections == 1..3
=============================================================================
