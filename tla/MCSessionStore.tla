--------------------------- MODULE MCSessionStore ---------------------------
(* Instance of SessionStore: one miner and the UX row, three fd numbers.   *)
EXTENDS SessionStore

MCMacs == {"m1", UX_SESSION}
MCFds  == 5..7
=============================================================================
