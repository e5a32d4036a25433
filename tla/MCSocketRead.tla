---------------------------- MODULE MCSocketRead ----------------------------
(***************************************************************************)
(* The instance of SocketRead: streams of up to seven bytes and recv calls *)
(* of three, so that packets are shorter than, as long as and longer than  *)
(* the buffer, and a terminator may be alone in its recv.                  *)
(***************************************************************************)
EXTENDS SocketRead
=============================================================================
