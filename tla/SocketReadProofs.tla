-------------------------- MODULE SocketReadProofs --------------------------
(***************************************************************************)
(* Proofs about SocketRead, for every buffer size and number of bytes.     *)
(***************************************************************************)
EXTENDS SocketRead, SequenceTheorems, TLAPS

(* What Aligned rests on: the stream keeps the order in which peers send   *)
(* bytes, and as long as there was no gap it begins where a packet does.   *)
StreamOK ==
    /\ \A i \in 1..(Len(Stream) - 1) : Stream[i + 1] \in Follows(Stream[i])
    /\ Stream # <<>> => Stream[Len(Stream)] = last
    /\ ~ gap => IF Stream = <<>> THEN last = "nul" ELSE Stream[1] = "start"

(* What the refinement rests on: between calls nothing is copied, and a    *)
(* call that goes on has not read a terminator last.                       *)
CallOK ==
    /\ ~ reading => recv_data = <<>>
    /\ recv_data # <<>> => recv_data[Len(recv_data)] # "nul"

(* A recv cuts the stream in two.                                          *)
LEMMA RecvSplits ==
    ASSUME ReadTypeOK, kernel # <<>>
    PROVE  /\ Stream \in Seq(Bytes) /\ Copied \in Seq(Bytes) /\ Left \in Seq(Bytes)
           /\ Len(Copied) \in 1..Len(Stream)
           /\ Len(Left) = Len(Stream) - Len(Copied)
           /\ \A i \in 1..Len(Copied) : Copied[i] = Stream[i]
           /\ \A i \in 1..Len(Left) : Left[i] = Stream[Len(Copied) + i]
           /\ Copied \o Left = Stream
<1>1. kernel \in Seq(Bytes) /\ recv_data \in Seq(Bytes) /\ Len(kernel) \in Nat \ {0}
  BY EmptySeq DEF ReadTypeOK
<1>2. Taken \in 1..Len(kernel)
  BY <1>1, ReadAssumption DEF Taken
<1> DEFINE head == SubSeq(kernel, 1, Taken)
<1>3. /\ head \in Seq(Bytes) /\ Len(head) = Taken
      /\ \A i \in 1..Taken : head[i] = kernel[i]
  <2>1. \A i \in 1..Taken : kernel[i] \in Bytes
    BY <1>1, <1>2
  <2>2. Taken \in Int /\ 1 \in Int
    BY <1>2
  <2>3. QED
    BY <1>2, <2>1, <2>2, SubSeqProperties
<1>4. /\ Left \in Seq(Bytes) /\ Len(Left) = Len(kernel) - Taken
      /\ \A i \in 1..Len(Left) : Left[i] = kernel[Taken + i]
  <2>1. \A i \in (Taken + 1)..Len(kernel) : kernel[i] \in Bytes
    BY <1>1, <1>2
  <2>2. Taken + 1 \in Int /\ Len(kernel) \in Int
    BY <1>1, <1>2
  <2>3. QED
    BY <1>1, <1>2, <2>1, <2>2, SubSeqProperties DEF Left
<1>5. head \o Left = kernel
  <2>1. SubSeq(kernel, 1, Len(kernel)) = kernel
    BY <1>1, SubSeqFull
  <2>2. 1 \in 1..(Len(kernel) + 1) /\ Taken \in (1 - 1)..Len(kernel)
        /\ Len(kernel) \in Taken..Len(kernel)
    BY <1>1, <1>2
  <2>3. QED
    BY <1>1, <2>1, <2>2, ConcatAdjacentSubSeq DEF Left
<1> HIDE DEF head
<1>6. Copied = recv_data \o head
  BY DEF Copied, head
<1>7. Copied \o Left = Stream
  <2>1. recv_data \in Seq(Bytes) /\ head \in Seq(Bytes) /\ Left \in Seq(Bytes)
    BY <1>1, <1>3, <1>4
  <2>2. (recv_data \o head) \o Left = recv_data \o (head \o Left)
    BY <2>1, ConcatAssociative
  <2>3. QED
    BY <1>5, <1>6, <2>2 DEF Stream
<1>8. Copied \in Seq(Bytes) /\ Len(Copied) = Len(recv_data) + Taken
  BY <1>1, <1>3, <1>6, ConcatProperties
<1>9. /\ Stream \in Seq(Bytes) /\ Len(Stream) = Len(Copied) + Len(Left)
      /\ \A i \in 1..(Len(Copied) + Len(Left)) :
            Stream[i] = IF i <= Len(Copied) THEN Copied[i] ELSE Left[i - Len(Copied)]
  BY <1>4, <1>7, <1>8, ConcatProperties
<1>10. Len(recv_data) \in Nat /\ Len(Copied) \in Nat /\ Len(Left) \in Nat
  BY <1>1, <1>4, <1>8
<1>11. Len(Copied) \in 1..Len(Stream) /\ Len(Left) = Len(Stream) - Len(Copied)
  BY <1>2, <1>8, <1>9, <1>10
<1>12. \A i \in 1..Len(Copied) : Copied[i] = Stream[i]
  BY <1>9, <1>10
<1>13. ASSUME NEW i \in 1..Len(Left) PROVE Left[i] = Stream[Len(Copied) + i]
  <2>1. /\ Len(Copied) + i \in 1..(Len(Copied) + Len(Left))
        /\ ~ (Len(Copied) + i <= Len(Copied))
        /\ (Len(Copied) + i) - Len(Copied) = i
    BY <1>10
  <2>2. QED
    BY <1>9, <2>1
<1>14. QED
  BY <1>4, <1>7, <1>8, <1>9, <1>11, <1>12, <1>13

(* A byte that arrives ends the stream.                                    *)
LEMMA WriteExtends ==
    ASSUME ReadTypeOK, NEW b \in Bytes
    PROVE  recv_data \o Append(kernel, b) = Append(Stream, b)
<1>1. kernel \in Seq(Bytes) /\ recv_data \in Seq(Bytes)
  BY DEF ReadTypeOK
<1>2. Append(kernel, b) = kernel \o <<b>> /\ <<b>> \in Seq(Bytes)
  BY <1>1
<1>3. recv_data \o (kernel \o <<b>>) = (recv_data \o kernel) \o <<b>>
  BY <1>1, <1>2, ConcatAssociative
<1>4. recv_data \o kernel \in Seq(Bytes)
  BY <1>1, ConcatProperties
<1>5. QED
  BY <1>2, <1>3, <1>4 DEF Stream

-----------------------------------------------------------------------------

LEMMA ReadTypeStep ==
    ASSUME ReadTypeOK, [Next]_vars
    PROVE  ReadTypeOK'
<1>1. CASE UNCHANGED vars
  BY <1>1 DEF vars, ReadTypeOK
<1>2. ASSUME NEW b \in Bytes, PeerWrite(b) PROVE ReadTypeOK'
  <2>1. kernel' \in Seq(Bytes) /\ Len(kernel') = Len(kernel) + 1 /\ Len(kernel) \in Nat
    BY <1>2 DEF PeerWrite, ReadTypeOK
  <2>2. written' \in 0..MaxBytes /\ written' = written + 1
    BY <1>2, ReadAssumption DEF PeerWrite, ReadTypeOK
  <2>3. Len(recv_data') + Len(kernel') <= written'
    <3>1. Len(recv_data') = Len(recv_data) /\ Len(recv_data) \in Nat
      BY <1>2 DEF PeerWrite, ReadTypeOK
    <3>2. Len(recv_data) + Len(kernel) <= written /\ written \in Nat
      BY ReadAssumption DEF ReadTypeOK
    <3>3. QED
      BY <2>1, <2>2, <3>1, <3>2
  <2>4. QED
    BY <1>2, <2>1, <2>2, <2>3 DEF PeerWrite, ReadTypeOK
<1>3. ASSUME NEW how \in {"closed", "reset"}, PeerEnd(how) PROVE ReadTypeOK'
  BY <1>3 DEF PeerEnd, ReadTypeOK
<1>4. CASE Call
  <2>1. recv_data' = <<>> /\ kernel' = kernel /\ written' = written
    BY <1>4 DEF Call
  <2>2. Len(recv_data') + Len(kernel') <= written'
    BY <2>1, ReadAssumption DEF ReadTypeOK
  <2>3. reading' \in BOOLEAN
    BY <1>4 DEF Call
  <2>4. QED
    BY <1>4, <2>1, <2>2, <2>3 DEF Call, ReadTypeOK
<1>5. CASE Recv
  <2>1. kernel # <<>> /\ kernel' = Left
    BY <1>5 DEF Recv
  <2>2. /\ Copied \in Seq(Bytes) /\ Left \in Seq(Bytes)
        /\ Len(Copied) \in 1..Len(Stream)
        /\ Len(Left) = Len(Stream) - Len(Copied)
    BY <2>1, RecvSplits
  <2>3. Len(Stream) = Len(recv_data) + Len(kernel)
    BY ConcatProperties DEF Stream, ReadTypeOK
  <2>4. /\ \/ reading' = FALSE /\ recv_data' = <<>> /\ result' = [ret |-> 0, data |-> Copied]
           \/ reading' = reading /\ recv_data' = Copied /\ result' = result
        /\ conn' = conn /\ last' = last /\ written' = written
    BY <1>5 DEF Recv, Return
  <2>5. gap' \in BOOLEAN /\ reading' \in BOOLEAN
    BY <1>5, Zenon DEF Recv, Return, ReadTypeOK
  <2>6. Len(recv_data') + Len(kernel') <= written'
    <3>1. Len(recv_data') \in 0..Len(Copied)
      BY <2>2, <2>4
    <3>2. Len(recv_data) + Len(kernel) <= written /\ written \in Nat
      BY ReadAssumption DEF ReadTypeOK
    <3>3. Len(kernel') = Len(Stream) - Len(Copied) /\ Len(Stream) \in Nat /\ Len(Copied) \in Nat
      BY <2>1, <2>2, <2>3 DEF ReadTypeOK
    <3>4. QED
      BY <2>3, <2>4, <3>1, <3>2, <3>3
  <2>7. recv_data' \in Seq(Bytes) /\ result' \in [ret : -3..0, data : Seq(Bytes)]
    <3>1. [ret |-> 0, data |-> Copied] \in [ret : -3..0, data : Seq(Bytes)]
      BY <2>2
    <3>2. <<>> \in Seq(Bytes) /\ result \in [ret : -3..0, data : Seq(Bytes)]
      BY DEF ReadTypeOK
    <3>3. QED
      BY <2>2, <2>4, <3>1, <3>2, Zenon
  <2>8. QED
    BY <2>1, <2>2, <2>4, <2>5, <2>6, <2>7 DEF ReadTypeOK
<1>6. CASE RecvNothing
  <2>1. /\ recv_data' = <<>> /\ kernel' = kernel /\ written' = written
        /\ conn' = conn /\ last' = last
    BY <1>6 DEF RecvNothing, Return
  <2>2. Len(recv_data') + Len(kernel') <= written'
    BY <2>1, ReadAssumption DEF ReadTypeOK
  <2>3. reading' \in BOOLEAN /\ gap' \in BOOLEAN
    BY <1>6, Zenon DEF RecvNothing, Return, ReadTypeOK
  <2>4. result' \in [ret : -3..0, data : Seq(Bytes)]
    BY <1>6 DEF RecvNothing, Return, ReadTypeOK
  <2>5. QED
    BY <2>1, <2>2, <2>3, <2>4 DEF ReadTypeOK
<1>7. QED
  BY <1>1, <1>2, <1>3, <1>4, <1>5, <1>6 DEF Next

(* The variables of socket_read keep their types, and the bytes it holds   *)
(* are never more than were sent.                                          *)
THEOREM ReadTypeCorrect == Spec => []ReadTypeOK
<1>1. Init => ReadTypeOK
  <2>1. Init => Len(recv_data) + Len(kernel) <= written
    BY DEF Init
  <2>2. Init => written \in 0..MaxBytes
    BY ReadAssumption DEF Init
  <2>3. Init => reading \in BOOLEAN /\ gap \in BOOLEAN
    BY DEF Init
  <2>4. QED
    BY <2>1, <2>2, <2>3 DEF Init, ReadTypeOK, Bytes
<1>2. QED
  BY <1>1, ReadTypeStep, PTL DEF Spec

-----------------------------------------------------------------------------
(* How the stream moves.                                                   *)

LEMMA CallStep ==
    ASSUME ReadTypeOK, CallOK, [Next]_vars
    PROVE  CallOK'
<1>1. CASE UNCHANGED vars \/ Call \/ RecvNothing
  BY <1>1 DEF vars, Call, RecvNothing, Return, CallOK
<1>2. ASSUME NEW b \in Bytes, PeerWrite(b) PROVE CallOK'
  BY <1>2 DEF PeerWrite, CallOK
<1>3. ASSUME NEW how, PeerEnd(how) PROVE CallOK'
  BY <1>3 DEF PeerEnd, CallOK
<1>4. CASE Recv
  BY <1>4 DEF Recv, Return, AtEnd, CallOK
<1>5. QED
  BY <1>1, <1>2, <1>3, <1>4 DEF Next

(* Between calls, and when recv has nothing to give, what is not in the    *)
(* kernel is in the buffer.                                                *)
LEMMA StreamEnds ==
    ASSUME ReadTypeOK
    PROVE  /\ recv_data = <<>> => Stream = kernel
           /\ kernel = <<>> => Stream = recv_data
           /\ Stream \in Seq(Bytes)
  BY ConcatEmptySeq, ConcatProperties DEF Stream, ReadTypeOK

(* The four ways in which a step moves the stream.                         *)
Kept ==
    /\ Stream' = Stream
    /\ UNCHANGED <<result, last, gap>>
    /\ conn' = conn \/ (conn = "open" /\ conn' \in {"closed", "reset"})

Arrived(b) ==
    /\ b \in Follows(last)
    /\ Stream' = Append(Stream, b)
    /\ last' = b
    /\ conn = "open"
    /\ UNCHANGED <<conn, result, gap>>

Taking ==
    /\ kernel # <<>>
    /\ Stream' = Left
    /\ result' = [ret |-> 0, data |-> Copied]
    /\ \E behind \in {"nul", "more"} :
          /\ AtEnd(Copied[Len(Copied)], behind)
          /\ gap' = (gap \/ (Copied[Len(Copied)] # "nul" /\ behind = "nul"))
    /\ UNCHANGED <<conn, last>>

Dropping ==
    /\ kernel = <<>>
    /\ Stream' = <<>>
    /\ result' = [ret |-> Whole!Outcome(conn), data |-> <<>>]
    /\ Whole!Outcome(conn) # 0
    /\ gap' = (gap \/ recv_data # <<>>)
    /\ UNCHANGED <<conn, last>>

LEMMA StreamMoves ==
    ASSUME ReadTypeOK, CallOK, [Next]_vars
    PROVE  Kept \/ (\E b \in Bytes : Arrived(b)) \/ Taking \/ Dropping
<1>1. CASE UNCHANGED vars
  BY <1>1 DEF vars, Kept, Stream
<1>2. ASSUME NEW b \in Bytes, PeerWrite(b)
      PROVE  Arrived(b)
  BY <1>2, WriteExtends DEF PeerWrite, Arrived, Stream
<1>3. ASSUME NEW how \in {"closed", "reset"}, PeerEnd(how)
      PROVE  Kept
  BY <1>3 DEF PeerEnd, Kept, Stream
<1>4. CASE Call
  <2>1. recv_data = <<>> /\ recv_data' = <<>> /\ kernel' = kernel
        /\ UNCHANGED <<conn, result, last, gap>>
    BY <1>4 DEF Call, CallOK
  <2>2. QED
    BY <2>1 DEF Kept, Stream
<1>5. CASE Recv
  <2>1. kernel # <<>> /\ kernel' = Left /\ UNCHANGED <<conn, last>>
    BY <1>5 DEF Recv
  <2>2. CASE recv_data' = Copied /\ UNCHANGED <<result, gap>>
    BY <2>1, <2>2, RecvSplits DEF Kept, Stream
  <2>3. CASE /\ recv_data' = <<>>
             /\ result' = [ret |-> 0, data |-> Copied]
             /\ \E behind \in {"nul", "more"} :
                   /\ AtEnd(Copied[Len(Copied)], behind)
                   /\ gap' = (gap \/ (Copied[Len(Copied)] # "nul" /\ behind = "nul"))
    <3>1. Stream' = Left
      BY <2>1, <2>3, RecvSplits, ConcatEmptySeq DEF Stream
    <3>2. QED
      BY <2>1, <2>3, <3>1 DEF Taking
  <2>4. QED
    BY <1>5, <2>2, <2>3 DEF Recv, Return
<1>6. CASE RecvNothing
  <2>1. /\ kernel = <<>> /\ kernel' = <<>> /\ recv_data' = <<>>
        /\ UNCHANGED <<conn, last>>
        /\ gap' = (gap \/ recv_data # <<>>)
    BY <1>6 DEF RecvNothing, Return
  <2>2. Stream' = <<>>
    BY <2>1 DEF Stream
  <2>3. result' = [ret |-> Whole!Outcome(conn), data |-> <<>>]
    BY <1>6 DEF RecvNothing, Return, Whole!Outcome
  <2>4. Whole!Outcome(conn) # 0
    BY DEF Whole!Outcome, ReadTypeOK
  <2>5. QED
    BY <2>1, <2>2, <2>3, <2>4 DEF Dropping
<1>7. QED
  BY <1>1, <1>2, <1>3, <1>4, <1>5, <1>6 DEF Next

LEMMA StreamStep ==
    ASSUME ReadTypeOK, CallOK, StreamOK, [Next]_vars
    PROVE  StreamOK'
<1>0. Stream \in Seq(Bytes)
  BY StreamEnds
<1>1. CASE Kept
  BY <1>1 DEF Kept, StreamOK
<1>2. ASSUME NEW b \in Bytes, Arrived(b) PROVE StreamOK'
  <2>1. /\ Stream' = Append(Stream, b) /\ Len(Stream') = Len(Stream) + 1
        /\ Len(Stream) \in Nat
        /\ Stream'[Len(Stream')] = b /\ Stream' # <<>>
        /\ \A i \in 1..Len(Stream) : Stream'[i] = Stream[i]
    BY <1>0, <1>2 DEF Arrived
  <2>2. ASSUME NEW i \in 1..(Len(Stream') - 1)
        PROVE  Stream'[i + 1] \in Follows(Stream'[i])
    <3>1. CASE i < Len(Stream)
      <4>1. i \in 1..(Len(Stream) - 1) /\ i \in 1..Len(Stream) /\ i + 1 \in 1..Len(Stream)
        BY <2>1, <3>1
      <4>2. Stream[i + 1] \in Follows(Stream[i])
        BY <4>1 DEF StreamOK
      <4>3. Stream'[i] = Stream[i] /\ Stream'[i + 1] = Stream[i + 1]
        BY <2>1, <4>1
      <4>4. QED
        BY <4>2, <4>3
    <3>2. CASE ~ (i < Len(Stream))
      <4>1. i = Len(Stream) /\ i \in 1..Len(Stream) /\ i + 1 = Len(Stream')
        BY <2>1, <3>2
      <4>2. Stream # <<>>
        BY <2>1, <4>1
      <4>3. Stream'[i] = last
        BY <2>1, <4>1, <4>2 DEF StreamOK
      <4>4. Stream'[i + 1] = b /\ b \in Follows(last)
        BY <1>2, <2>1, <4>1 DEF Arrived
      <4>5. QED
        BY <4>3, <4>4
    <3>3. QED
      BY <3>1, <3>2
  <2>3. ASSUME ~ gap' PROVE Stream'[1] = "start"
    <3>1. ~ gap
      BY <1>2, <2>3 DEF Arrived
    <3>2. CASE Stream = <<>>
      BY <1>2, <2>1, <3>1, <3>2 DEF Arrived, StreamOK, Follows
    <3>3. CASE Stream # <<>>
      <4>1. 1 \in 1..Len(Stream)
        BY <1>0, <3>3, EmptySeq
      <4>2. QED
        BY <2>1, <3>1, <3>3, <4>1 DEF StreamOK
    <3>4. QED
      BY <3>2, <3>3
  <2>4. last' = b
    BY <1>2 DEF Arrived
  <2>5. QED
    BY <2>1, <2>2, <2>3, <2>4 DEF StreamOK
<1>3. CASE Taking
  <2>1. /\ Copied \in Seq(Bytes) /\ Left \in Seq(Bytes)
        /\ Len(Copied) \in 1..Len(Stream)
        /\ Len(Left) = Len(Stream) - Len(Copied)
        /\ \A i \in 1..Len(Copied) : Copied[i] = Stream[i]
        /\ \A i \in 1..Len(Left) : Left[i] = Stream[Len(Copied) + i]
    BY <1>3, RecvSplits DEF Taking
  <2>2. Stream' = Left /\ last' = last
    BY <1>3 DEF Taking
  <2>3. Len(Copied) \in Nat /\ Len(Left) \in Nat /\ Len(Stream) \in Nat
    BY <1>0, <2>1
  <2>4. ASSUME NEW i \in 1..(Len(Left) - 1)
        PROVE  Left[i + 1] \in Follows(Left[i])
    <3>1. i \in 1..Len(Left) /\ i + 1 \in 1..Len(Left)
          /\ Len(Copied) + i \in 1..(Len(Stream) - 1)
          /\ Len(Copied) + (i + 1) = (Len(Copied) + i) + 1
      BY <2>1, <2>3
    <3>2. Stream[(Len(Copied) + i) + 1] \in Follows(Stream[Len(Copied) + i])
      BY <3>1 DEF StreamOK
    <3>3. Left[i] = Stream[Len(Copied) + i] /\ Left[i + 1] = Stream[Len(Copied) + (i + 1)]
      BY <2>1, <3>1
    <3>4. QED
      BY <3>1, <3>2, <3>3
  <2>5. ASSUME Left # <<>> PROVE Left[Len(Left)] = last
    <3>1. Len(Left) \in 1..Len(Left) /\ Len(Copied) + Len(Left) = Len(Stream)
      BY <2>1, <2>3, <2>5, EmptySeq
    <3>2. Left[Len(Left)] = Stream[Len(Stream)]
      BY <2>1, <3>1
    <3>3. Stream # <<>>
      BY <2>1, <2>3
    <3>4. QED
      BY <3>2, <3>3 DEF StreamOK
  <2>6. ASSUME ~ gap'
        PROVE  IF Left = <<>> THEN last = "nul" ELSE Left[1] = "start"
    <3>1. Copied[Len(Copied)] = "nul"
      BY <1>3, <2>6 DEF Taking, AtEnd
    <3>2. Stream[Len(Copied)] = "nul"
      BY <2>1, <2>3, <3>1
    <3>3. CASE Left = <<>>
      <4>1. Len(Copied) = Len(Stream) /\ Stream # <<>>
        BY <2>1, <2>3, <3>3
      <4>2. QED
        BY <3>2, <3>3, <4>1 DEF StreamOK
    <3>4. CASE Left # <<>>
      <4>1. 1 \in 1..Len(Left) /\ Len(Copied) \in 1..(Len(Stream) - 1)
        BY <2>1, <2>3, <3>4, EmptySeq
      <4>2. Stream[Len(Copied) + 1] \in Follows("nul")
        BY <3>2, <4>1 DEF StreamOK
      <4>3. Left[1] = Stream[Len(Copied) + 1]
        BY <2>1, <4>1
      <4>4. QED
        BY <3>4, <4>2, <4>3 DEF Follows
    <3>5. QED
      BY <3>3, <3>4
  <2>7. QED
    BY <2>2, <2>4, <2>5, <2>6 DEF StreamOK
<1>4. CASE Dropping
  <2>1. Stream' = <<>> /\ last' = last /\ Len(Stream') = 0
    BY <1>4 DEF Dropping
  <2>2. ASSUME ~ gap' PROVE last = "nul"
    <3>1. ~ gap /\ recv_data = <<>>
      BY <1>4, <2>2 DEF Dropping
    <3>2. Stream = <<>>
      BY <1>4, <3>1, StreamEnds DEF Dropping
    <3>3. QED
      BY <3>1, <3>2 DEF StreamOK
  <2>3. QED
    BY <2>1, <2>2 DEF StreamOK
<1>5. QED
  BY <1>1, <1>2, <1>3, <1>4, StreamMoves

LEMMA AlignedStep ==
    ASSUME ReadTypeOK, CallOK, StreamOK, Aligned, [Next]_vars
    PROVE  Aligned'
<1>1. CASE Kept \/ \E b \in Bytes : Arrived(b)
  BY <1>1 DEF Kept, Arrived, Aligned
<1>2. CASE Dropping
  BY <1>2 DEF Dropping, Aligned
<1>3. CASE Taking
  <2> SUFFICES ASSUME ~ gap'
               PROVE  Copied[1] = "start" /\ Copied[Len(Copied)] = "nul"
    BY <1>3 DEF Taking, Aligned
  <2>1. Copied[Len(Copied)] = "nul" /\ ~ gap
    BY <1>3 DEF Taking, AtEnd
  <2>2. /\ Stream \in Seq(Bytes) /\ Len(Copied) \in 1..Len(Stream)
        /\ \A i \in 1..Len(Copied) : Copied[i] = Stream[i]
    BY <1>3, RecvSplits DEF Taking
  <2>3. 1 \in 1..Len(Copied) /\ Stream # <<>>
    BY <2>2
  <2>4. Copied[1] = "start"
    BY <2>1, <2>2, <2>3 DEF StreamOK
  <2>5. QED
    BY <2>1, <2>4
<1>4. QED
  BY <1>1, <1>2, <1>3, StreamMoves

(* socket_read returns packets: for any buffer size, packet lengths and    *)
(* segmentation, until a call first gives up bytes it copied or is ended by*)
(* the byte behind its buffer.                                             *)
THEOREM PacketsAligned == Spec => []Aligned
<1>1. Init => CallOK /\ StreamOK /\ Aligned
  <2>1. Init => Stream = <<>> /\ Len(Stream) = 0
    BY DEF Init, Stream
  <2>2. QED
    BY <2>1 DEF Init, CallOK, StreamOK, Aligned
<1>2. ReadTypeOK /\ CallOK /\ [Next]_vars => CallOK'
  BY CallStep
<1>3. ReadTypeOK /\ CallOK /\ StreamOK /\ [Next]_vars => StreamOK'
  BY StreamStep
<1>4. ReadTypeOK /\ CallOK /\ StreamOK /\ Aligned /\ [Next]_vars => Aligned'
  BY AlignedStep
<1>5. QED
  BY <1>1, <1>2, <1>3, <1>4, ReadTypeCorrect, PTL DEF Spec

-----------------------------------------------------------------------------
(* The refinement.                                                         *)

LEMMA ReadingStep ==
    ASSUME ReadTypeOK, CallOK, [Next]_vars
    PROVE  [Whole!ReadingNext]_<<Stream, conn, result>>
<1>1. CASE Kept
  <2>1. CASE conn' = conn
    BY <1>1, <2>1 DEF Kept
  <2>2. CASE conn = "open" /\ conn' \in {"closed", "reset"}
    BY <1>1, <2>2 DEF Kept, Whole!ReadingNext, Whole!End
  <2>3. QED
    BY <1>1, <2>1, <2>2 DEF Kept
<1>2. ASSUME NEW b \in Bytes, Arrived(b)
      PROVE  Whole!ReadingNext
  BY <1>2 DEF Arrived, Whole!ReadingNext, Whole!Arrive, Whole!Bytes, Bytes
<1>3. CASE Taking
  <2> DEFINE n == Len(Copied)
  <2>1. /\ Stream \in Seq(Bytes) /\ Copied \in Seq(Bytes) /\ Left \in Seq(Bytes)
        /\ n \in 1..Len(Stream) /\ Len(Left) = Len(Stream) - n
        /\ \A i \in 1..Len(Copied) : Copied[i] = Stream[i]
        /\ \A i \in 1..Len(Left) : Left[i] = Stream[n + i]
    BY <1>3, RecvSplits DEF Taking
  <2> HIDE DEF n
  <2>2. Copied = SubSeq(Stream, 1, n)
    BY <2>1 DEF n
  <2>3. Left = SubSeq(Stream, n + 1, Len(Stream))
    BY <2>1
  <2>4. Whole!ReadSome(n)
    BY <1>3, <2>2, <2>3 DEF Taking, Whole!ReadSome
  <2>5. QED
    BY <2>1, <2>4 DEF Whole!ReadingNext
<1>4. CASE Dropping
  <2>1. Stream = recv_data
    BY <1>4, StreamEnds DEF Dropping
  <2>2. Whole!ReadDry
    BY <1>4, <2>1 DEF Dropping, CallOK, Whole!ReadDry
  <2>3. QED
    BY <2>2 DEF Whole!ReadingNext
<1>5. QED
  BY <1>1, <1>2, <1>3, <1>4, StreamMoves

(* A call of socket_read is what CmdAgent takes it for, one step that takes*)
(* a first part of the unread bytes or drops all of them, whatever arrives *)
(* between its recv calls.                                                 *)
THEOREM ReadingRefined == Spec => ImplementsReading
<1>1. Init => Whole!ReadingInit
  <2>1. Init => Stream = <<>>
    BY DEF Init, Stream
  <2>2. QED
    BY <2>1 DEF Init, Whole!ReadingInit
<1>2. Init => CallOK
  BY DEF Init, CallOK
<1>3. ReadTypeOK /\ CallOK /\ [Next]_vars => CallOK'
  BY CallStep
<1>4. ReadTypeOK /\ CallOK /\ [Next]_vars => [Whole!ReadingNext]_<<Stream, conn, result>>
  BY ReadingStep
<1>5. QED
  BY <1>1, <1>2, <1>3, <1>4, ReadTypeCorrect, PTL
     DEF Spec, ImplementsReading, Whole!ReadingSpec

=============================================================================
