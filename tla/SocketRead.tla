----------------------------- MODULE SocketRead -----------------------------
(***************************************************************************)
(* socket_read of session.c byte by byte: the recv calls of one call, and  *)
(* the bytes that reach the kernel between two of them.  main.c calls it   *)
(* for a socket that epoll reported, and parses what it returns as packet. *)
(***************************************************************************)
EXTENDS Integers, Sequences

CONSTANTS MAX_RECV_BUFF_SIZE,   \* how many bytes one recv takes at most
          MaxBytes              \* bound: bytes the peer sends

ASSUME ReadAssumption == MAX_RECV_BUFF_SIZE \in Nat \ {0} /\ MaxBytes \in Nat

VARIABLES
    kernel,      \* bytes that arrived and no recv has taken
    conn,        \* "open", "closed" or "reset" by the peer
    reading,     \* a call is under way
    recv_data,   \* the bytes it has copied so far
    result,      \* of the last call: *ret, and the bytes main.c will parse
    last,        \* the byte the peer sent last
    written,     \* how many it has sent
    gap          \* history: a call dropped bytes, or ended within a packet

vars == <<kernel, conn, reading, recv_data, result, last, written, gap>>

\* A packet is its first byte, more of them, and as a rule a closing NUL.
Bytes == {"start", "more", "nul"}
Follows(b) == IF b = "nul" THEN {"start"} ELSE Bytes

-----------------------------------------------------------------------------

PeerWrite(b) ==
    /\ conn = "open"
    /\ written < MaxBytes
    /\ b \in Follows(last)
    /\ kernel' = Append(kernel, b)
    /\ last' = b
    /\ written' = written + 1
    /\ UNCHANGED <<conn, reading, recv_data, result, gap>>

PeerEnd(how) ==
    /\ conn = "open"
    /\ conn' = how
    /\ UNCHANGED <<kernel, reading, recv_data, result, last, written, gap>>

\* epoll reports the socket.  main.c closes it after -1 and dies after -3.
Call ==
    /\ ~ reading
    /\ result.ret \in {0, -2}
    /\ kernel # <<>> \/ conn # "open"
    /\ reading' = TRUE
    /\ recv_data' = <<>>
    /\ UNCHANGED <<kernel, conn, result, last, written, gap>>

Taken == IF Len(kernel) < MAX_RECV_BUFF_SIZE THEN Len(kernel) ELSE MAX_RECV_BUFF_SIZE

\* Mutant: offset is not advanced, every recv is copied to the start.
CopiedToStart ==
    [i \in 1..(Len(recv_data) + Taken) |->
        IF i <= Taken THEN kernel[i] ELSE IF i <= Len(recv_data) THEN recv_data[i] ELSE "more"]

\* recv_data once it has grown by what recv gave.
Copied == recv_data \o SubSeq(kernel, 1, Taken)

\* Mutant: MSG_PEEK, the kernel keeps what it gave.
Peeked == kernel

Left == SubSeq(kernel, Taken + 1, Len(kernel))

\* Mutant: the first bytes that come are taken for a packet.
AnyData(end, behind) == TRUE

\* The test for the end of a packet.  behind is recv_data[recv_len], a byte
\* outside the buffer, which may hold anything.
AtEnd(end, behind) == end = "nul" \/ behind = "nul"

Return(ret, data, cut) ==
    /\ reading' = FALSE
    /\ recv_data' = <<>>
    /\ result' = [ret |-> ret, data |-> data]
    /\ gap' = (gap \/ cut)

\* recv gives some bytes.
Recv ==
    LET end == Copied[Len(Copied)] IN
    /\ reading
    /\ kernel # <<>>
    /\ kernel' = Left
    /\ \E behind \in {"nul", "more"} :
          \/ /\ AtEnd(end, behind)
             /\ Return(0, Copied, end # "nul" /\ behind = "nul")
          \/ /\ ~ AtEnd(end, behind)
             /\ recv_data' = Copied
             /\ UNCHANGED <<reading, result, gap>>
    /\ UNCHANGED <<conn, last, written>>

\* Mutant: after EAGAIN the loop calls recv again.
RecvRetries ==
    /\ reading
    /\ kernel = <<>>
    /\ conn # "open"
    /\ Return(IF conn = "closed" THEN -1 ELSE -3, <<>>, recv_data # <<>>)
    /\ UNCHANGED <<kernel, conn, last, written>>

\* recv gives 0, EAGAIN or another error: what was copied is given up.
RecvNothing ==
    /\ reading
    /\ kernel = <<>>
    /\ Return(CASE conn = "closed" -> -1 [] conn = "open" -> -2 [] conn = "reset" -> -3,
              <<>>, recv_data # <<>>)
    /\ UNCHANGED <<kernel, conn, last, written>>

Init ==
    /\ kernel = <<>> /\ conn = "open"
    /\ reading = FALSE /\ recv_data = <<>>
    /\ result = [ret |-> -2, data |-> <<>>]
    /\ last = "nul" /\ written = 0
    /\ gap = FALSE

Next ==
    \/ \E b \in Bytes : PeerWrite(b)
    \/ \E how \in {"closed", "reset"} : PeerEnd(how)
    \/ Call
    \/ Recv \/ RecvNothing

Spec == Init /\ [][Next]_vars

\* The thread that is in socket_read is never suspended for good.
FairSpec == Spec /\ WF_vars(Recv \/ RecvNothing)

-----------------------------------------------------------------------------
(* Properties.                                                             *)

ReadTypeOK ==
    /\ kernel \in Seq(Bytes) /\ recv_data \in Seq(Bytes)
    /\ conn \in {"open", "closed", "reset"}
    /\ reading \in BOOLEAN /\ gap \in BOOLEAN
    /\ result \in [ret : -3..0, data : Seq(Bytes)]
    /\ last \in Bytes
    /\ written \in 0..MaxBytes
    /\ Len(recv_data) + Len(kernel) <= written

(* However a packet is cut into segments, and whatever arrives between two *)
(* calls of recv, a buffer returned as a packet begins where a packet      *)
(* begins and ends with a terminator, until a call first gives up bytes it *)
(* had copied or is ended by the byte behind its buffer.                   *)
Aligned ==
    result.ret = 0 /\ ~ gap =>
        result.data[1] = "start" /\ result.data[Len(result.data)] = "nul"

\* What the peer sent and no call has returned or dropped.
Stream == recv_data \o kernel

Whole == INSTANCE Reading WITH unread <- Stream

(* No byte is lost, doubled or out of order on its way through the growing *)
(* buffer: a call returns a first part of what the peer sent, or drops it  *)
(* all, which it does only when the last byte it has is no terminator.     *)
ImplementsReading == Whole!ReadingSpec

(* A call returns.  The peer sends finitely many bytes here: one that never*)
(* pauses, and never has a NUL at the end of a recv, is never done with.   *)
CallReturns == reading ~> ~ reading

=============================================================================
