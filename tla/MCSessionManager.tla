------------------------- MODULE MCSessionManager -------------------------
(* Two models, a background session and another run. *)
EXTENDS SessionManager

MCRanked == <<"large", "small">>
=============================================================================
