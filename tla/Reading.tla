------------------------------ MODULE Reading -------------------------------
(***************************************************************************)
(* What a call of socket_read does, as one step: the view of it that       *)
(* CmdAgent takes, whose cells are runs of these bytes.  A call takes some *)
(* first part of the bytes that the peer sent and nobody read, or, when the*)
(* last of them is no NUL, takes them all and returns none of them.        *)
(***************************************************************************)
EXTENDS Integers, Sequences

VARIABLES unread,   \* bytes sent by the peer, read by no finished call
          conn,     \* what the peer did to the connection
          result    \* the value of *ret and the bytes of the last call

Bytes == {"start", "more", "nul"}

\* *ret when recv has no byte to give.
Outcome(c) == CASE c = "closed" -> -1 [] c = "open" -> -2 [] c = "reset" -> -3

Arrive(b) ==
    /\ conn = "open"
    /\ unread' = Append(unread, b)
    /\ UNCHANGED <<conn, result>>

End(how) ==
    /\ conn = "open"
    /\ conn' = how
    /\ UNCHANGED <<unread, result>>

ReadSome(n) ==
    /\ result' = [ret |-> 0, data |-> SubSeq(unread, 1, n)]
    /\ unread' = SubSeq(unread, n + 1, Len(unread))
    /\ UNCHANGED conn

ReadDry ==
    /\ unread # <<>> => unread[Len(unread)] # "nul"
    /\ result' = [ret |-> Outcome(conn), data |-> <<>>]
    /\ unread' = <<>>
    /\ UNCHANGED conn

ReadingInit == unread = <<>> /\ conn = "open" /\ result = [ret |-> -2, data |-> <<>>]

ReadingNext ==
    \/ \E b \in Bytes : Arrive(b)
    \/ \E how \in {"closed", "reset"} : End(how)
    \/ \E n \in 1..Len(unread) : ReadSome(n)
    \/ ReadDry

ReadingSpec == ReadingInit /\ [][ReadingNext]_<<unread, conn, result>>

=============================================================================
