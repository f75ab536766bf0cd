------------------------- MODULE MCEndpointExchange -------------------------
(* TLC instances of EndpointExchange. *)
EXTENDS EndpointExchange
=============================================================================
