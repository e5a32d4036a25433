---------------------------- MODULE WellBehaved -----------------------------
(***************************************************************************)
(* The peers and the descriptors with which the server stays alive.  Each  *)
(* condition stands for a way in which main.c, parse.c or session.c ends   *)
(* the process when it does not hold.                                      *)
(***************************************************************************)
EXTENDS CmdAgent, FiniteSets

\* A field is there and holds one of the given strings.
States(json, k, S) == HasStr(json, k) /\ Str(json, k) \in S

\* A packet whose fields are all there, and name a file that can be sent.
Proper(json) ==
    /\ json # NULL
    /\ get_agent_type(json) = REQ_LINUX_CLAYMORE => HasStr(json, "miner_mac")
    /\ get_agent_type(json) = REQ_UX =>
          /\ States(json, "miner_mac", Macs \ {UX_SESSION})
          /\ States(json, "commend_type", {"file-download"} \ {Wild})
          /\ States(json, "path", Files \ (ClobberFiles \cup {Wild}))
          /\ HasStr(json, "path_install")
          /\ Str(json, "path_install") \notin {"", NULL, Wild}

(* Peers send proper packets, in one piece each, and no connection is reset*)
(* - not even by the kernel of a peer that closed it in good order, as it  *)
(* does with a command that comes before its end of file was served: what  *)
(* is sent to such a peer is taken to vanish.                              *)
(* A command opens a file twice and closes it once, so it takes one number *)
(* away for good and needs a second one for a moment.  With a number for   *)
(* each connection and each packet they suffice: a command finds a row only*)
(* after an announcement, which is a packet that opens no file.            *)
ASSUME WellBehavedAssumption ==
    /\ PeerFaults \subseteq {"abort"}
    /\ \A c \in Cells : c.part = "whole" /\ Proper(c.json)
    /\ IsFiniteSet(Fds)
    /\ MaxConns + MaxCells <= Cardinality(Fds)
    /\ \A f \in Fds : f < MAXFDS

=============================================================================
