---------------------------- MODULE CommentProofs ----------------------------
(***************************************************************************)
(* Comments in main.c and parse.c that the code does not always bear out,  *)
(* proved under the conditions on which it does.  TLC refutes each of them *)
(* on an instance that breaks its condition.                               *)
(***************************************************************************)
EXTENDS CmdAgentProofs

(* Every packet of a known kind of agent states its mac.                   *)
MacsStated ==
    \A p \in Packets \ {NULL} :
        get_agent_type(p) \in {REQ_UX, REQ_LINUX_CLAYMORE} => HasStr(p, "miner_mac")

(* Every packet has entries, and the value of the first one is a string.   *)
StringsFirst ==
    \A p \in Packets \ {NULL} :
        DOMAIN p = 1..Len(p) /\ Len(p) \in Nat \ {0} /\ p[1].type = "string"

-----------------------------------------------------------------------------
(* What the last command handled was.                                      *)

(* The packet that fwd describes was a command.                            *)
FromUx == fwd # NoFwd => /\ fwd.json \in Packets \ {NULL}
                         /\ get_agent_type(fwd.json) = REQ_UX

LEMMA UxPacket ==
    ASSUME NEW e, NEW n, NEW json \in Packets \ {NULL}, UxCommand(e, n, json)
    PROVE  FromUx'
<1>1. fwd' = NoFwd \/ fwd'.json = json
  BY DEF UxCommand, UxSend, UxDone, Die
<1>2. get_agent_type(json) = REQ_UX
  BY DEF UxCommand
<1>3. QED
  BY <1>1, <1>2 DEF FromUx

LEMMA FromUxStep ==
    ASSUME TypeOK, FromUx, [Next]_vars
    PROVE  FromUx'
<1>1. CASE fwd' = NoFwd \/ fwd' = fwd
  BY <1>1 DEF FromUx
<1>2. ASSUME NEW e \in batch, Serve(e)
      PROVE  FromUx'
  <2>1. ASSUME e.fd # Listener, NEW n \in 1..Len(inbox[e.fd]),
               CellJson(inbox[e.fd], n) # NULL,
               UxCommand(e, n, CellJson(inbox[e.fd], n))
        PROVE  FromUx'
    <3>1. e.fd \in Fds
      BY <2>1 DEF TypeOK
    <3>2. CellJson(inbox[e.fd], n) \in Packets \ {NULL}
      BY <2>1, <3>1, CellJsonPacket
    <3>3. QED
      BY <2>1, <3>2, UxPacket
  <2>2. CASE e.fd # Listener /\ RecvPacket(e)
    BY <1>1, <2>1, <2>2, Zenon DEF RecvPacket, RecvMalformed, RecvInvalid, AgentHello, Die
  <2>3. CASE ~ (e.fd # Listener /\ RecvPacket(e))
    BY <1>1, <1>2, <2>3, Zenon DEF Serve, PeerError, AcceptAgain, AcceptDies, Accept,
         RecvAgain, RecvError, RecvEof, Keep, Die
  <2>4. QED
    BY <2>2, <2>3
<1>3. CASE UNCHANGED vars
  BY <1>1, <1>3 DEF vars
<1>4. CASE Startup \/ Poll \/ Connect \/ AbortConnect
  BY <1>1, <1>4, Zenon DEF Startup, Poll, Connect, AbortConnect
<1>5. ASSUME NEW f \in Fds,
             (\E c \in Cells : PeerSend(f, c)) \/ PeerClose(f) \/ PeerReset(f)
      PROVE  FromUx'
  BY <1>1, <1>5, Zenon DEF PeerSend, PeerClose, PeerReset, PeerEnds
<1>6. QED
  BY <1>2, <1>3, <1>4, <1>5 DEF Next, ServeSome

LEMMA FwdFromUx == Spec => []FromUx
<1>1. Init => FromUx
  BY DEF Init, FromUx
<1>2. TypeOK /\ FromUx /\ [Next]_vars => FromUx'
  BY FromUxStep
<1>3. QED
  BY <1>1, <1>2, TypeCorrect, PTL DEF Spec

(* "UX 요청의 맥으로 세션테이블을 조회해 FD 를 얻음" (main.c:110) holds of peers *)
(* that state their macs: the fd of a command is looked up with the mac of *)
(* its own request, never with one that an earlier packet left behind.     *)
THEOREM LookedUpByRequestMac ==
    ASSUME MacsStated
    PROVE  Spec => []LookupByRequestMac
<1>1. FromUx /\ OwnFields => LookupByRequestMac
  BY DEF FromUx, OwnFields, LookupByRequestMac, MacsStated
<1>2. QED
  BY <1>1, FwdFromUx, CommandsOwnFields, PTL

(* "첫번째 key 만 검사하여 에이젼트 타입 체크" (parse.c:15) holds of packets that *)
(* begin with a string: then what is taken for a command says so there.    *)
THEOREM FirstKeyDecides ==
    ASSUME StringsFirst
    PROVE  Spec => []FirstKeyOnly
<1>1. ASSUME NEW p \in Packets \ {NULL}, get_agent_type(p) = REQ_UX
      PROVE  p[1].type = "string" /\ p[1].val = "ux"
  <2> DEFINE first == CHOOSE i \in Strings(p) : \A j \in Strings(p) : i <= j
  <2>1. 1 \in Strings(p) /\ \A j \in Strings(p) : j \in Nat \ {0}
    BY DEF StringsFirst, Strings
  <2>2. first \in Strings(p) /\ \A j \in Strings(p) : first <= j
    BY <2>1
  <2>3. first = 1
    BY <2>1, <2>2
  <2>4. p[first].val = "ux"
    BY <1>1 DEF get_agent_type, REQ_UX, REQ_INVALID, REQ_LINUX_CLAYMORE
  <2>5. QED
    BY <2>1, <2>3, <2>4 DEF Strings
<1>2. FromUx => FirstKeyOnly
  BY <1>1 DEF FromUx, FirstKeyOnly
<1>3. QED
  BY <1>2, FwdFromUx, PTL

-----------------------------------------------------------------------------
(* A table that nothing puts in doubt.                                     *)

(* No number is suspect as long as the database can be asked, nor was one  *)
(* when the last command left; before the first start there is nothing.    *)
Vouched ==
    /\ link = "up" => suspect = {}
    /\ fwd # NoFwd /\ fwd.ret > 0 => suspect = {}
    /\ runs = 0 => ~ up /\ batch = {} /\ suspect = {}

LEMMA NoneFails ==
    ASSUME "fail" \notin QueryFaults, NEW n \in Nat \ {0}, NEW q \in QueryRuns(n)
    PROVE  \A i \in 1..n : q[i] # "fail"
<1>1. \A i \in 1..n : q[i] \in {"ok"} \cup QueryFaults \cup {"lost"}
  BY DEF QueryRuns
<1>2. QED
  BY <1>1

(* A mac that is stated is no wild pointer.                                *)
LEMMA StatedMac ==
    ASSUME MacsStated, TypeOK, NEW json \in Packets \ {NULL},
           get_agent_type(json) \in {REQ_UX, REQ_LINUX_CLAYMORE}
    PROVE  /\ parse_json_agent(json, session).miner_mac # Wild
           /\ parse_json_cmd(json, session).miner_mac # Wild
<1>1. HasStr(json, "miner_mac")
  BY DEF MacsStated
<1>2. Str(json, "miner_mac") # Wild
  BY <1>1, CmdAssumption
<1>3. parse_json_agent(json, session).miner_mac = Str(json, "miner_mac")
  BY <1>1 DEF parse_json_agent, Assign, TypeOK, SessionType
<1>4. parse_json_cmd(json, session).miner_mac = Str(json, "miner_mac")
  BY <1>1 DEF parse_json_cmd, Assign
<1>5. QED
  BY <1>2, <1>3, <1>4

(* A command that left was looked up over a link that was up.              *)
LEMMA CommandVouched ==
    ASSUME TypeOK, Vouched, NEW e \in batch, e.fd \in Fds, NEW n,
           NEW json \in Packets \ {NULL}, UxCommand(e, n, json), ~ \E t : Die(t)
    PROVE  Vouched'
<1> DEFINE s == parse_json_cmd(json, session)
           tab(q) == mysql_insert_fd(table, UX_SESSION, e.fd, REQ_UX, q[1], q[2]).table
           to(q, mac) == mysql_select_fd(tab(q), mac, q[3])
<1>1. PICK q \in QueryRuns(3), mac \in Deref(s.miner_mac) :
        \/ UxDone(e, n, json, s, mac, q, "notfound", to(q, mac), 0)
        \/ to(q, mac) >= 0 /\ UxSend(e, n, json, s, mac, q, to(q, mac))
  BY DEF UxCommand
<1>2. /\ suspect' = suspect /\ runs' = runs /\ link' = LinkAfter(q, 3)
      /\ fwd'.ret > 0 => to(q, mac) >= 0
  BY <1>1 DEF UxDone, UxSend, Keep, countVars
<1>3. link' = "up" => link = "up"
  BY <1>2 DEF LinkAfter
<1>4. ASSUME to(q, mac) >= 0
      PROVE  link = "up"
  <2>1. q[3] = "ok"
    BY <1>4 DEF mysql_select_fd
  <2>2. link # "lost"
    BY <2>1 DEF QueryRuns
  <2>3. QED
    BY <2>2 DEF TypeOK
<1> HIDE DEF to
<1>5. runs # 0
  BY DEF Vouched
<1>6. QED
  BY <1>2, <1>3, <1>4, <1>5 DEF Vouched

LEMMA ServeVouched ==
    ASSUME "fail" \notin QueryFaults, MacsStated, TypeOK, Vouched,
           NEW e \in batch, Serve(e)
    PROVE  Vouched'
<1>1. runs # 0
  BY DEF Vouched
<1>2. ASSUME NEW t, Die(t)
      PROVE  Vouched'
  BY <1>1, <1>2 DEF Die, countVars, Vouched
<1>3. CASE AcceptAgain(e) \/ Accept(e) \/ RecvAgain(e)
  BY <1>1, <1>3 DEF AcceptAgain, Accept, RecvAgain, Keep, countVars, Vouched
<1>4. CASE RecvEof(e)
  <2>1. PICK q \in QueryRuns(1) :
          /\ link' = LinkAfter(q, 1)
          /\ suspect' = IF Executes(q[1]) THEN suspect \ {e.fd} ELSE suspect \cup {e.fd}
    BY <1>4 DEF RecvEof
  <2>2. \A i \in 1..1 : q[i] # "fail"
    BY NoneFails
  <2>3. ASSUME link' = "up"
        PROVE  suspect' = {}
    <3>1. link = "up" /\ q[1] = "ok"
      BY <2>1, <2>2, <2>3, CleanQueries
    <3>2. QED
      BY <2>1, <3>1 DEF Executes, Vouched
  <2>4. fwd' = NoFwd /\ runs' = runs
    BY <1>4 DEF RecvEof, countVars
  <2>5. QED
    BY <1>1, <2>3, <2>4 DEF Vouched
<1>5. ASSUME e.fd \in Fds, NEW n \in 1..Len(inbox[e.fd]),
             NEW json \in Packets \ {NULL},
             \/ RecvInvalid(e, n, json)
             \/ AgentHello(e, n, json)
             \/ UxCommand(e, n, json)
      PROVE  Vouched'
  <2>1. CASE \E t : Die(t)
    BY <1>2, <2>1
  <2>2. CASE RecvInvalid(e, n, json)
    BY <1>1, <2>2 DEF RecvInvalid, Keep, countVars, Vouched
  <2>3. CASE AgentHello(e, n, json) /\ ~ \E t : Die(t)
    <3>1. parse_json_agent(json, session).miner_mac # Wild
      BY <1>5, <2>3, StatedMac DEF AgentHello
    <3>2. suspect' = suspect /\ fwd' = NoFwd /\ runs' = runs
      BY <2>3, <3>1 DEF AgentHello, Keep, countVars
    <3>3. link' = "up" => link = "up"
      BY <2>3 DEF AgentHello, LinkAfter
    <3>4. QED
      BY <1>1, <3>2, <3>3 DEF Vouched
  <2>4. CASE UxCommand(e, n, json) /\ ~ \E t : Die(t)
    BY <1>5, <2>4, CommandVouched
  <2>5. QED
    BY <1>5, <2>1, <2>2, <2>3, <2>4
<1>6. ASSUME e.fd # Listener, NEW n \in 1..Len(inbox[e.fd]), CellJson(inbox[e.fd], n) # NULL
      PROVE  CellJson(inbox[e.fd], n) \in Packets \ {NULL}
  BY <1>6, CellJsonPacket DEF TypeOK
<1>7. e.fd # Listener => e.fd \in Fds
  BY DEF TypeOK
<1>8. QED
  BY <1>2, <1>3, <1>4, <1>5, <1>6, <1>7
     DEF Serve, PeerError, AcceptDies, RecvError, RecvPacket, RecvMalformed

LEMMA VouchedStep ==
    ASSUME "fail" \notin QueryFaults, MaxRuns <= 1, MacsStated,
           TypeOK, Vouched, [Next]_vars
    PROVE  Vouched'
<1>1. CASE Startup
  <2>1. runs = 0
    BY <1>1, Bounds DEF Startup, TypeOK
  <2>2. suspect' = {} /\ runs' = 1
    BY <1>1, <2>1 DEF Startup, Vouched
  <2>3. QED
    BY <2>2 DEF Vouched
<1>2. CASE Poll \/ Connect \/ AbortConnect \/ UNCHANGED vars
  BY <1>2 DEF Poll, Connect, AbortConnect, vars, countVars, Vouched
<1>3. ASSUME NEW f \in Fds, (\E c \in Cells : PeerSend(f, c)) \/ PeerClose(f) \/ PeerReset(f)
      PROVE  Vouched'
  BY <1>3 DEF PeerSend, PeerClose, PeerReset, PeerEnds, countVars, Vouched
<1>4. QED
  BY <1>1, <1>2, <1>3, ServeVouched DEF Next, ServeSome

(* "클라이언트 접속정보 쿼리 성공 - 클라이언트 세션과 연결" (main.c:117) holds of a   *)
(* server that was not restarted, whose database rejects nothing and whose *)
(* peers state their macs, with the link cut at any query: a command that  *)
(* left went to a connection whose present peer announced the mac.         *)
THEOREM ClientFound ==
    ASSUME "fail" \notin QueryFaults, MaxRuns <= 1, MacsStated
    PROVE  Spec => []LookupFindsClient
<1>1. Init => Vouched
  BY DEF Init, Vouched
<1>2. TypeOK /\ Vouched /\ [Next]_vars => Vouched'
  BY VouchedStep
<1>3. Vouched /\ Delivery => LookupFindsClient
  BY DEF Vouched, Delivery, LookupFindsClient
<1>4. QED
  BY <1>1, <1>2, <1>3, TypeCorrect, CommandsDelivered, PTL DEF Spec

=============================================================================
