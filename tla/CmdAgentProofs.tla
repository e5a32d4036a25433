--------------------------- MODULE CmdAgentProofs ---------------------------
(***************************************************************************)
(* Proofs about CmdAgent, for every set of fd numbers, macs and packets    *)
(* and whatever faults the environment is allowed.                         *)
(***************************************************************************)
EXTENDS CmdAgent, SequenceTheorems, WellFoundedInduction, TLAPS

Tables == [Macs -> Row \cup {NoRow}]

(* mysql_insert_fd writes one row at most, that of the mac it is given, and*)
(* with queries that are executed and answered it does write it.           *)
LEMMA InsertFdTable ==
    ASSUME NEW t \in Tables, NEW mac \in Macs, NEW fd \in Fds,
           NEW a \in AgentTypes, NEW ins, NEW upd
    PROVE  LET r == mysql_insert_fd(t, mac, fd, a, ins, upd).table IN
           /\ r \in Tables
           /\ \A m \in Macs : m # mac => r[m] = t[m]
           /\ r[mac] \in {t[mac], [fd |-> fd, agent_type |-> a]}
           /\ ins = "ok" /\ upd = "ok" => r[mac] = [fd |-> fd, agent_type |-> a]
<1> DEFINE row == [fd |-> fd, agent_type |-> a]
<1>1. row \in Row
  BY DEF Row
<1>2. row # NoRow
  BY <1>1, TableAssumption
<1>3. QED
  BY <1>1, <1>2 DEF mysql_insert_fd, Insert, Update, Executes, Tables

(* mysql_delete_fd removes rows of the given fd only, and all of them when *)
(* its query is executed, answered or not.                                 *)
LEMMA DeleteFdTable ==
    ASSUME NEW t \in Tables, NEW fd \in Fds, NEW o
    PROVE  LET r == mysql_delete_fd(t, fd, o).table IN
           /\ r \in Tables
           /\ \A m \in Macs : r[m] = t[m] \/ (r[m] = NoRow /\ t[m] # NoRow /\ t[m].fd = fd)
           /\ Executes(o) => \A m \in Macs : r[m] # NoRow => r[m].fd # fd
           /\ ~ Executes(o) => r = t
  BY DEF mysql_delete_fd, DeleteWhere, RowsOf, Executes, Tables

(* A handler after which the link is up, and none of whose queries was     *)
(* rejected, issued all of them with success over a link that was up.      *)
LEMMA CleanQueries ==
    ASSUME NEW n \in Nat \ {0}, NEW q \in QueryRuns(n),
           LinkAfter(q, n) = "up", \A i \in 1..n : q[i] # "fail"
    PROVE  /\ link = "up"
           /\ \A i \in 1..n : q[i] = "ok"
<1>1. \A i \in 1..n : ~ Cuts(q[i])
  BY DEF LinkAfter
<1>2. QED
  BY <1>1, TableAssumption DEF LinkAfter, QueryRuns, QueryFault, Cuts

-----------------------------------------------------------------------------
(* Type correctness.                                                       *)

(* What the parsers make of a packet fits the session, and a mac they found*)
(* in it is a mac.                                                         *)
LEMMA ParsedSession ==
    ASSUME TypeOK, NEW json \in Packets, json # NULL
    PROVE  /\ parse_json_agent(json, session).miner_mac \in Macs \cup {Wild}
           /\ parse_json_cmd(json, session).miner_mac \in Macs \cup {Wild}
           /\ json_object_put(parse_json_agent(json, session)) \in SessionType
           /\ json_object_put(parse_json_cmd(json, session)) \in SessionType
<1>1. HasStr(json, "miner_mac") => Str(json, "miner_mac") \in Macs
  BY CmdAssumption
<1>2. session \in SessionType
  BY DEF TypeOK
<1>3. \A x : atoi(x) \in Int
  BY DEF atoi
<1>4. parse_json_agent(json, session).miner_mac \in Macs \cup {Wild}
  BY <1>1, <1>2 DEF parse_json_agent, Assign, SessionType
<1>5. parse_json_cmd(json, session).miner_mac \in Macs \cup {Wild}
  BY <1>1, <1>2 DEF parse_json_cmd, Assign, SessionType
<1>6. json_object_put(parse_json_agent(json, session)) \in SessionType
  BY <1>2 DEF parse_json_agent, json_object_put, SessionType
<1>7. json_object_put(parse_json_cmd(json, session)) \in SessionType
  BY <1>2, <1>3 DEF parse_json_cmd, json_object_put, SessionType
<1>8. QED
  BY <1>4, <1>5, <1>6, <1>7

(* The kernel hands out a number that is free.                             *)
LEMMA LowestFreeIsFree ==
    ASSUME Free # {}
    PROVE  LowestFree \in Free /\ LowestFree \in Fds /\ fdtab[LowestFree] = "free"
<1> DEFINE R == OpToRel(<, Nat)
<1>1. Free \subseteq Nat
  BY TableAssumption DEF Free
<1>2. PICK f \in Free : \A g \in Free : <<g, f>> \notin R
  <2>1. IsWellFoundedOn(R, Nat)
    BY NatLessThanWellFounded
  <2>2. QED
    BY <1>1, <2>1, WFMin, Zenon
<1>3. ASSUME NEW g \in Free
      PROVE  f <= g
  <2>1. f \in Nat /\ g \in Nat
    BY <1>1
  <2>2. <<g, f>> \notin R
    BY <1>2
  <2>3. ASSUME g < f PROVE <<g, f>> \in R
    BY <2>1, <2>3 DEF OpToRel
  <2>4. ~ (g < f)
    BY <2>2, <2>3, Zenon
  <2>5. QED
    BY <2>1, <2>4
<1>4. LowestFree \in Free
  BY <1>3, Zenon DEF LowestFree
<1>5. QED
  BY <1>4 DEF Free

(* What a callback takes off the front of an inbox leaves an inbox.        *)
LEMMA KeepTypes ==
    ASSUME TypeOK, NEW e \in batch, e.fd \in Fds, NEW n \in Nat,
           Keep(e, n, fd_status_R)
    PROVE  /\ inbox' \in [Fds -> Seq(Cells)]
           /\ interest' \in [Fds -> SUBSET {"IN", "OUT"}]
           /\ batch' \subseteq [fd : Fds \cup {Listener},
                                events : SUBSET {"IN", "OUT", "ERR"}]
           /\ up' \in BOOLEAN
           /\ backlog' \in 0..conns'
           /\ conns' \in 0..MaxConns /\ cells' \in 0..MaxCells /\ runs' \in 0..MaxRuns
<1> DEFINE s == inbox[e.fd]
<1>1. s \in Seq(Cells)
  BY DEF TypeOK
<1>2. SubSeq(s, n + 1, Len(s)) \in Seq(Cells)
  <2>1. \A i \in (n + 1)..Len(s) : s[i] \in Cells
    BY <1>1
  <2>2. n + 1 \in Int /\ Len(s) \in Int
    BY <1>1
  <2>3. QED
    BY <2>1, <2>2, SubSeqProperties
<1>3. EventMask(fd_status_R) \in SUBSET {"IN", "OUT"}
  BY DEF EventMask, fd_status_R
<1>4. QED
  BY <1>2, <1>3 DEF Keep, TypeOK, countVars

(* The end of the process leaves a state of the right type.                *)
LEMMA DieTypes ==
    ASSUME TypeOK, NEW t \in Tables, Die(t)
    PROVE  TypeOK'
<1>1. inbox' \in [Fds -> Seq(Cells)]
  BY DEF Die
<1>2. session' \in SessionType
  BY DEF Die, FreshSession, SessionType
<1>3. up' \in BOOLEAN
  BY DEF Die
<1>4. conns' = conns /\ cells' = cells /\ runs' = runs
  BY DEF Die, countVars
<1>5. backlog' \in 0..conns'
  BY <1>4 DEF Die, TypeOK
<1>6. table' \in [Macs -> Row \cup {NoRow}] /\ taint' \subseteq Taints /\ suspect' \subseteq Fds
  BY DEF Die, NumbersIn, TypeOK, Tables, Row
<1>7. /\ fdtab' \in [Fds -> {"free", "sock", "file"}]
      /\ interest' \in [Fds -> SUBSET {"IN", "OUT"}]
      /\ remote' \in [Fds -> {"open", "closed", "reset", "broken"}]
      /\ announced' \in [Fds -> SUBSET Macs]
  BY DEF Die
<1>8. link' \in {"up", "lost"} /\ batch' = {}
  BY DEF Die
<1>9. QED
  BY <1>1, <1>2, <1>3, <1>4, <1>5, <1>6, <1>7, <1>8 DEF TypeOK

(* The parser is given cells that peers sent.                              *)
LEMMA CellJsonPacket ==
    ASSUME TypeOK, NEW f \in Fds, NEW n \in 1..Len(inbox[f]),
           CellJson(inbox[f], n) # NULL
    PROVE  CellJson(inbox[f], n) \in Packets
<1>1. inbox[f] \in Seq(Cells)
  BY DEF TypeOK
<1>2. inbox[f][1] \in Cells
  BY <1>1
<1>3. QED
  BY <1>2 DEF CellJson, Packets

LEMMA TaintTypes ==
    ASSUME NEW q, NEW n, NEW wild
    PROVE  TaintOf(q, n, wild) \subseteq Taints
  BY DEF TaintOf, Taints

LEMMA LinkTypes ==
    ASSUME TypeOK, NEW q, NEW n
    PROVE  LinkAfter(q, n) \in {"up", "lost"}
  BY DEF LinkAfter, TypeOK

LEMMA Bounds == MaxConns \in Nat /\ MaxCells \in Nat /\ MaxRuns \in Nat
  BY CmdAssumption

(* The environment's steps and the start of the process keep the types.    *)
LEMMA EnvironmentTypes ==
    ASSUME TypeOK,
           \/ Startup \/ Poll \/ Connect \/ AbortConnect
           \/ \E f \in Fds : \/ \E c \in Cells : PeerSend(f, c)
                             \/ PeerClose(f) \/ PeerReset(f)
    PROVE  TypeOK'
<1>1. CASE Startup
  <2>1. runs' \in 0..MaxRuns
    BY <1>1, Bounds DEF Startup, TypeOK
  <2>2. up' \in BOOLEAN /\ taint' \subseteq Taints
    BY <1>1 DEF Startup, TypeOK, Taints
  <2>3. link' \in {"up", "lost"} /\ backlog' \in 0..conns'
    BY <1>1 DEF Startup, TypeOK, mysql_conn, listen_inet_socket
  <2>4. QED
    BY <1>1, <2>1, <2>2, <2>3 DEF Startup, TypeOK, sockVars
<1>2. CASE Poll
  <2>1. \A f \in Fds : Events(f) \subseteq {"IN", "OUT", "ERR"}
    BY DEF Events, TypeOK
  <2>2. batch' \subseteq [fd : Fds \cup {Listener}, events : SUBSET {"IN", "OUT", "ERR"}]
    BY <1>2, <2>1 DEF Poll, ReadyEvents
  <2>3. session' \in SessionType
    BY <1>2 DEF Poll, FreshSession, SessionType
  <2>4. QED
    BY <1>2, <2>2, <2>3 DEF Poll, TypeOK, sockVars, countVars
<1>3. CASE Connect
  <2>1. conns' \in 0..MaxConns /\ backlog' \in 0..conns'
    BY <1>3, Bounds DEF Connect, TypeOK
  <2>2. QED
    BY <1>3, <2>1 DEF Connect, TypeOK, sockVars
<1>4. CASE AbortConnect
  BY <1>4 DEF AbortConnect, TypeOK, sockVars, countVars
<1>5. ASSUME NEW f \in Fds, NEW c \in Cells, PeerSend(f, c)
      PROVE  TypeOK'
  <2>1. Append(inbox[f], c) \in Seq(Cells)
    BY AppendProperties DEF TypeOK
  <2>2. inbox' \in [Fds -> Seq(Cells)]
    BY <1>5, <2>1 DEF PeerSend, TypeOK
  <2>3. cells' \in 0..MaxCells
    BY <1>5, Bounds DEF PeerSend, TypeOK
  <2>4. QED
    BY <1>5, <2>2, <2>3 DEF PeerSend, TypeOK
<1>6. ASSUME NEW f \in Fds, PeerClose(f) \/ PeerReset(f)
      PROVE  TypeOK'
  BY <1>6 DEF PeerClose, PeerReset, PeerEnds, TypeOK, countVars
<1>7. QED
  BY <1>1, <1>2, <1>3, <1>4, <1>5, <1>6

(* Accepting, and reading nothing or the end of the stream.                *)
LEMMA SocketTypes ==
    ASSUME TypeOK, NEW e \in batch,
           \/ AcceptAgain(e) \/ Accept(e)
           \/ e.fd # Listener /\ (RecvAgain(e) \/ RecvEof(e))
    PROVE  TypeOK'
<1>1. e.fd # Listener => e.fd \in Fds
  BY DEF TypeOK
<1>2. CASE AcceptAgain(e)
  BY <1>2 DEF AcceptAgain, TypeOK, sockVars, countVars
<1>3. CASE Accept(e)
  <2>1. LowestFree \in Fds
    BY <1>3, LowestFreeIsFree DEF Accept
  <2>2. EventMask(on_peer_connected(LowestFree)) \in SUBSET {"IN", "OUT"}
    BY DEF EventMask, on_peer_connected, fd_status_R
  <2>3. <<>> \in Seq(Cells)
    OBVIOUS
  <2>4. inbox' \in [Fds -> Seq(Cells)] /\ interest' \in [Fds -> SUBSET {"IN", "OUT"}]
    BY <1>3, <2>1, <2>2, <2>3 DEF Accept, TypeOK
  <2>5. QED
    BY <1>3, <2>1, <2>4 DEF Accept, TypeOK, countVars
<1>4. CASE e.fd # Listener /\ RecvAgain(e)
  <2>1. Len(inbox[e.fd]) \in Nat
    BY <1>1, <1>4 DEF TypeOK
  <2>2. Keep(e, Len(inbox[e.fd]), fd_status_R)
    BY <1>4 DEF RecvAgain
  <2>3. QED
    BY <1>1, <1>4, <2>1, <2>2, KeepTypes DEF RecvAgain, TypeOK
<1>5. CASE e.fd # Listener /\ RecvEof(e)
  <2>1. PICK q \in QueryRuns(1) :
          /\ table' = mysql_delete_fd(table, e.fd, q[1]).table
          /\ link' = LinkAfter(q, 1)
          /\ taint' = taint \cup TaintOf(q, 1, FALSE)
    BY <1>5 DEF RecvEof
  <2>2. table' \in [Macs -> Row \cup {NoRow}]
    BY <1>1, <1>5, <2>1, DeleteFdTable DEF TypeOK, Tables
  <2>3. link' \in {"up", "lost"} /\ taint' \subseteq Taints
    BY <2>1, TaintTypes, LinkTypes DEF TypeOK
  <2>4. EventMask(fd_status_NORW) \in SUBSET {"IN", "OUT"}
    BY DEF EventMask, fd_status_NORW
  <2>5. inbox' \in [Fds -> Seq(Cells)] /\ interest' \in [Fds -> SUBSET {"IN", "OUT"}]
    BY <1>5, <2>4 DEF RecvEof, TypeOK
  <2>6. QED
    BY <1>5, <2>2, <2>3, <2>5 DEF RecvEof, TypeOK, countVars
<1>6. QED
  BY <1>2, <1>3, <1>4, <1>5

(* The announcement of a miner.                                            *)
LEMMA AgentHelloTypes ==
    ASSUME TypeOK, NEW e \in batch, e.fd \in Fds, NEW n \in Nat,
           NEW json \in Packets, json # NULL, AgentHello(e, n, json)
    PROVE  TypeOK'
<1> DEFINE s == parse_json_agent(json, session)
           wild == s.miner_mac = Wild
<1>1. CASE Die(table)
  BY <1>1, DieTypes DEF TypeOK, Tables
<1>2. ASSUME ~ Die(table)
      PROVE  TypeOK'
  <2>1. PICK q \in QueryRuns(2), mac \in Deref(s.miner_mac) :
          /\ table' = mysql_insert_fd(table, mac, e.fd,
                          REQ_LINUX_CLAYMORE, q[1], q[2]).table
          /\ link' = LinkAfter(q, 2)
          /\ taint' = taint \cup TaintOf(q, 2, wild)
          /\ announced' = IF wild THEN announced
                          ELSE [announced EXCEPT ![e.fd] = @ \cup {mac}]
    BY <1>2 DEF AgentHello
  <2>2. /\ session' = json_object_put(s)
        /\ Keep(e, n, fd_status_R)
        /\ UNCHANGED <<fdtab, remote>>
    BY <1>2 DEF AgentHello
  <2>3. mac \in Macs
    BY ParsedSession DEF Deref
  <2>4. table' \in [Macs -> Row \cup {NoRow}]
    <3>1. REQ_LINUX_CLAYMORE \in AgentTypes
      BY DEF REQ_LINUX_CLAYMORE, AgentTypes, REQ_INVALID, REQ_WINDOW_CLAYMORE
    <3>2. QED
      BY <2>1, <2>3, <3>1, InsertFdTable DEF TypeOK, Tables
  <2>5. link' \in {"up", "lost"} /\ taint' \subseteq Taints
    BY <2>1, TaintTypes, LinkTypes DEF TypeOK
  <2>6. announced' \in [Fds -> SUBSET Macs]
    BY <2>1, <2>3 DEF TypeOK
  <2>7. session' \in SessionType
    BY <2>2, ParsedSession
  <2>8. suspect' \subseteq Fds
    BY <1>2 DEF AgentHello, TypeOK
  <2>9. QED
    BY <2>2, <2>4, <2>5, <2>6, <2>7, <2>8, KeepTypes DEF TypeOK
<1>3. QED
  BY <1>1, <1>2

(* A command of a UX client, on each of the ways through its handler.      *)
LEMMA UxCommandTypes ==
    ASSUME TypeOK, NEW e \in batch, e.fd \in Fds, NEW n \in Nat,
           NEW json \in Packets, json # NULL, UxCommand(e, n, json)
    PROVE  TypeOK'
<1> DEFINE s == parse_json_cmd(json, session)
           tab(q) == mysql_insert_fd(table, UX_SESSION, e.fd, REQ_UX, q[1], q[2]).table
<1>1. \A q : tab(q) \in Tables
  <2>1. REQ_UX \in AgentTypes /\ UX_SESSION \in Macs
    BY TableAssumption DEF REQ_UX, AgentTypes, REQ_INVALID, REQ_WINDOW_CLAYMORE
  <2>2. QED
    BY <2>1, InsertFdTable DEF TypeOK, Tables
<1>2. ASSUME NEW q \in QueryRuns(3), NEW mac, NEW branch, NEW to, NEW ret,
             UxDone(e, n, json, s, mac, q, branch, to, ret),
             table' \in Tables,
             fdtab' \in [Fds -> {"free", "sock", "file"}],
             remote' \in [Fds -> {"open", "closed", "reset", "broken"}]
      PROVE  TypeOK'
  <2>1. link' \in {"up", "lost"} /\ taint' \subseteq Taints
    BY <1>2, TaintTypes, LinkTypes DEF TypeOK, UxDone
  <2>2. announced' \in [Fds -> SUBSET Macs]
    BY <1>2, TableAssumption DEF TypeOK, UxDone
  <2>3. session' \in SessionType
    BY <1>2, ParsedSession DEF UxDone
  <2>4. Keep(e, n, fd_status_R) /\ suspect' = suspect
    BY <1>2 DEF UxDone
  <2>5. QED
    BY <1>2, <2>1, <2>2, <2>3, <2>4, KeepTypes DEF TypeOK, Tables
<1>3. PICK q \in QueryRuns(3), mac \in Deref(s.miner_mac) :
        LET t  == tab(q)
            to == mysql_select_fd(t, mac, q[3])
        IN  \/ /\ table' = t
               /\ UxDone(e, n, json, s, mac, q, "notfound", to, 0)
               /\ UNCHANGED <<fdtab, remote>>
            \/ /\ to >= 0
               /\ table' = t
               /\ UxSend(e, n, json, s, mac, q, to)
            \/ Die(t)
  BY DEF UxCommand
<1> DEFINE to == mysql_select_fd(tab(q), mac, q[3])
<1>4. CASE /\ table' = tab(q)
           /\ UxDone(e, n, json, s, mac, q, "notfound", to, 0)
           /\ UNCHANGED <<fdtab, remote>>
  BY <1>1, <1>2, <1>4 DEF TypeOK
<1>5. CASE table' = tab(q) /\ UxSend(e, n, json, s, mac, q, to)
  <2>1. PICK ret \in {-1, PARTIAL, FULL} :
          /\ remote' = IF fdtab[to] = "sock" /\ remote[to] = "reset"
                       THEN [remote EXCEPT ![to] = "broken"] ELSE remote
          /\ UxDone(e, n, json, s, mac, q, SendBranch(ret), to, ret)
    BY <1>5 DEF UxSend
  <2>2. LowestFree \in Fds
    BY <1>5, LowestFreeIsFree DEF UxSend, MayBuild
  <2>3. fdtab' \in [Fds -> {"free", "sock", "file"}]
    BY <1>5, <2>2 DEF UxSend, TypeOK
  <2>4. remote' \in [Fds -> {"open", "closed", "reset", "broken"}]
    BY <2>1 DEF TypeOK
  <2>5. QED
    BY <1>1, <1>2, <1>5, <2>1, <2>3, <2>4
<1>6. CASE Die(tab(q))
  BY <1>1, <1>6, DieTypes
<1>7. QED
  BY <1>3, <1>4, <1>5, <1>6

(* Every step keeps the types.                                             *)
LEMMA TypeStep ==
    ASSUME TypeOK, [Next]_vars
    PROVE  TypeOK'
<1>1. CASE UNCHANGED vars
  BY <1>1 DEF vars, sockVars, countVars, TypeOK
<1>2. ASSUME NEW e \in batch, Serve(e)
      PROVE  TypeOK'
  <2>1. CASE Die(table)
    BY <2>1, DieTypes DEF TypeOK, Tables
  <2>2. CASE AcceptAgain(e) \/ Accept(e)
    BY <2>2, SocketTypes
  <2>3. CASE e.fd # Listener /\ (RecvAgain(e) \/ RecvEof(e))
    BY <2>3, SocketTypes
  <2>4. ASSUME e.fd # Listener, NEW n \in 1..Len(inbox[e.fd]),
               CellJson(inbox[e.fd], n) # NULL,
               \/ RecvInvalid(e, n, CellJson(inbox[e.fd], n))
               \/ AgentHello(e, n, CellJson(inbox[e.fd], n))
               \/ UxCommand(e, n, CellJson(inbox[e.fd], n))
        PROVE  TypeOK'
    <3> DEFINE json == CellJson(inbox[e.fd], n)
    <3>1. e.fd \in Fds /\ n \in Nat
      BY <2>4 DEF TypeOK
    <3>2. json \in Packets
      BY <2>4, <3>1, CellJsonPacket
    <3>3. CASE RecvInvalid(e, n, json)
      BY <3>1, <3>3, KeepTypes DEF RecvInvalid, TypeOK
    <3>4. QED
      BY <2>4, <3>1, <3>2, <3>3, AgentHelloTypes, UxCommandTypes
  <2>5. QED
    BY <1>2, <2>1, <2>2, <2>3, <2>4
       DEF Serve, PeerError, AcceptDies, RecvError, RecvPacket, RecvMalformed
<1>3. QED
  BY <1>1, <1>2, EnvironmentTypes DEF Next, ServeSome

(* Type correctness of the server: whatever peers send, and whatever fails,*)
(* every variable stays in its type; in particular no pointer into a       *)
(* released packet other than a known dangling one survives a callback.    *)
THEOREM TypeCorrect == Spec => []TypeOK
<1>1. Init => TypeOK
  <2> SUFFICES ASSUME Init PROVE TypeOK
    OBVIOUS
  <2>1. session \in SessionType /\ inbox \in [Fds -> Seq(Cells)]
    BY DEF Init, FreshSession, SessionType
  <2>2. backlog \in 0..conns /\ conns \in 0..MaxConns /\ cells \in 0..MaxCells
        /\ runs \in 0..MaxRuns
    BY Bounds DEF Init
  <2>3. up \in BOOLEAN
    BY DEF Init
  <2>4. QED
    BY <2>1, <2>2, <2>3 DEF Init, TypeOK
<1>2. TypeOK /\ [Next]_vars => TypeOK'
  BY TypeStep
<1>3. QED
  BY <1>1, <1>2, PTL DEF Spec

-----------------------------------------------------------------------------
(* No stale event is served.                                               *)

(* Handling one event leaves the others alone, if their sockets stay.      *)
LEMMA BatchKept ==
    ASSUME BatchLive, batch' \subseteq batch,
           \A d \in batch' : d.fd # Listener => fdtab'[d.fd] = fdtab[d.fd]
    PROVE  BatchLive'
  BY DEF BatchLive

(* The fd that a command uses up, or a new peer gets, has no event pending.*)
LEMMA FreeHasNoEvent ==
    ASSUME BatchLive, Free # {}
    PROVE  \A d \in batch : d.fd # Listener => d.fd # LowestFree
  BY LowestFreeIsFree DEF BatchLive

LEMMA BatchStep ==
    ASSUME TypeOK, BatchLive, [Next]_vars
    PROVE  BatchLive'
<1>1. CASE UNCHANGED vars
  BY <1>1 DEF vars, sockVars, BatchLive
<1>2. ASSUME NEW t, Die(t)
      PROVE  BatchLive'
  BY <1>2 DEF Die, BatchLive
<1>3. CASE Poll
  <2>1. batch' = ReadyEvents /\ fdtab' = fdtab
    BY <1>3 DEF Poll, sockVars
  <2>2. Listener \notin Fds
    BY TableAssumption DEF Listener
  <2>3. QED
    BY <2>1, <2>2 DEF ReadyEvents, BatchLive
<1>4. CASE Startup \/ Connect \/ AbortConnect
  BY <1>4 DEF Startup, Connect, AbortConnect, sockVars, BatchLive
<1>5. ASSUME NEW f \in Fds, NEW c \in Cells, PeerSend(f, c)
      PROVE  BatchLive'
  BY <1>5 DEF PeerSend, BatchLive
<1>6. ASSUME NEW f \in Fds, PeerClose(f) \/ PeerReset(f)
      PROVE  BatchLive'
  BY <1>6 DEF PeerClose, PeerReset, PeerEnds, BatchLive
<1>7. ASSUME NEW e \in batch, Serve(e)
      PROVE  BatchLive'
  <2>1. CASE AcceptAgain(e)
    BY <2>1, BatchKept DEF AcceptAgain, sockVars
  <2>2. CASE Accept(e)
    <3>1. batch' \subseteq batch /\ Free # {} /\ fdtab' = [fdtab EXCEPT ![LowestFree] = "sock"]
      BY <2>2 DEF Accept
    <3>2. QED
      BY <3>1, FreeHasNoEvent, BatchKept DEF TypeOK
  <2>3. CASE RecvAgain(e)
    BY <2>3, BatchKept DEF RecvAgain, Keep
  <2>4. CASE RecvEof(e)
    <3>1. batch' = batch \ {e} /\ fdtab' = [fdtab EXCEPT ![e.fd] = "free"]
      BY <2>4 DEF RecvEof
    <3>2. \A d \in batch' : d.fd # e.fd
      BY <3>1 DEF BatchLive
    <3>3. QED
      BY <3>1, <3>2, BatchKept DEF TypeOK
  <2>5. ASSUME NEW n, NEW json, RecvInvalid(e, n, json)
        PROVE  BatchLive'
    BY <2>5, BatchKept DEF RecvInvalid, Keep
  <2>6. ASSUME NEW n, NEW json, AgentHello(e, n, json)
        PROVE  BatchLive'
    BY <1>2, <2>6, BatchKept DEF AgentHello, Keep
  <2>7. ASSUME NEW n, NEW json, UxCommand(e, n, json)
        PROVE  BatchLive'
    <3>1. CASE \E t : Die(t)
      BY <1>2, <3>1
    <3>2. CASE ~ \E t : Die(t)
      <4>1. batch' \subseteq batch
        BY <2>7, <3>2 DEF UxCommand, UxSend, UxDone, Keep
      <4>2. CASE fdtab' = fdtab
        BY <4>1, <4>2, BatchKept
      <4>3. CASE Free # {} /\ fdtab' = [fdtab EXCEPT ![LowestFree] = "file"]
        BY <4>1, <4>3, FreeHasNoEvent, BatchKept DEF TypeOK
      <4>4. QED
        BY <2>7, <3>2, <4>2, <4>3 DEF UxCommand, UxSend, MayBuild
    <3>3. QED
      BY <3>1, <3>2
  <2>8. QED
    BY <1>2, <1>7, <2>1, <2>2, <2>3, <2>4, <2>5, <2>6, <2>7
       DEF Serve, PeerError, AcceptDies, RecvError, RecvPacket, RecvMalformed
<1>8. QED
  BY <1>1, <1>3, <1>4, <1>5, <1>6, <1>7 DEF Next, ServeSome

(* Every event the loop still has to serve is about a socket that is open, *)
(* for any number of peers and whatever they do between two steps.         *)
THEOREM EventsStayLive == Spec => []BatchLive
<1>1. Init => BatchLive
  BY DEF Init, BatchLive
<1>2. TypeOK /\ BatchLive /\ [Next]_vars => BatchLive'
  BY BatchStep
<1>3. QED
  BY <1>1, <1>2, TypeCorrect, PTL DEF Spec

-----------------------------------------------------------------------------
(* No stale row: the session table and the sockets agree.                  *)

(* After an insertion for the peer of a live event, whatever became of its *)
(* queries, every row names a live peer that announced it, or a suspect.   *)
LEMMA InsertKeepsRows ==
    ASSUME TypeOK, BatchLive, RowsLive, NEW e \in batch, e.fd \in Fds, e.fd # Listener,
           NEW mac \in Macs, NEW a \in AgentTypes, NEW ins, NEW upd,
           table' = mysql_insert_fd(table, mac, e.fd, a, ins, upd).table,
           suspect \subseteq suspect',
           \/ announced' = [announced EXCEPT ![e.fd] = @ \cup {mac}]
           \/ announced' = announced /\ e.fd \in suspect',
           \A f \in Fds : fdtab[f] = "sock" => fdtab'[f] = "sock"
    PROVE  RowsLive'
<1>1. /\ \A m \in Macs : m # mac => table'[m] = table[m]
      /\ table'[mac] \in {table[mac], [fd |-> e.fd, agent_type |-> a]}
  BY InsertFdTable DEF TypeOK, Tables
<1>2. ASSUME NEW m \in Macs, table'[m] # NoRow, table'[m].fd \notin suspect'
      PROVE  /\ fdtab'[table'[m].fd] = "sock"
             /\ m \in announced'[table'[m].fd]
  <2>1. CASE m = mac /\ table'[m] = [fd |-> e.fd, agent_type |-> a]
    <3>1. table'[m].fd = e.fd
      BY <2>1
    <3>2. fdtab'[e.fd] = "sock"
      BY DEF BatchLive
    <3>3. QED
      BY <1>2, <2>1, <3>1, <3>2 DEF TypeOK
  <2>2. CASE table'[m] = table[m]
    <3>1. fdtab[table[m].fd] = "sock" /\ m \in announced[table[m].fd]
      BY <1>2, <2>2 DEF RowsLive
    <3>2. table[m].fd \in Fds
      BY <1>2, <2>2 DEF TypeOK, Row
    <3>3. announced[table[m].fd] \subseteq announced'[table[m].fd]
      <4>1. announced \in [Fds -> SUBSET Macs]
        BY DEF TypeOK
      <4>2. CASE announced' = announced
        BY <4>2
      <4>3. CASE announced' = [announced EXCEPT ![e.fd] = @ \cup {mac}]
        BY <3>2, <4>1, <4>3
      <4>4. QED
        BY <4>2, <4>3
    <3>4. QED
      BY <2>2, <3>1, <3>2, <3>3
  <2>3. QED
    BY <1>1, <2>1, <2>2
<1>3. QED
  BY <1>2 DEF RowsLive

(* A command, on the ways that the process survives.                       *)
LEMMA UxDoneKeepsRows ==
    ASSUME TypeOK, BatchLive, RowsLive, NEW e \in batch, e.fd \in Fds, e.fd # Listener,
           NEW n, NEW json, NEW s, NEW mac, NEW q \in QueryRuns(3),
           NEW branch, NEW to, NEW ret,
           table' = mysql_insert_fd(table, UX_SESSION, e.fd, REQ_UX, q[1], q[2]).table,
           UxDone(e, n, json, s, mac, q, branch, to, ret),
           \A f \in Fds : fdtab[f] = "sock" => fdtab'[f] = "sock"
    PROVE  RowsLive'
<1>1. announced' = [announced EXCEPT ![e.fd] = @ \cup {UX_SESSION}] /\ suspect' = suspect
  BY DEF UxDone
<1>2. REQ_UX \in AgentTypes /\ UX_SESSION \in Macs
  BY TableAssumption DEF REQ_UX, AgentTypes, REQ_INVALID, REQ_WINDOW_CLAYMORE
<1>3. QED
  BY <1>1, <1>2, InsertKeepsRows

LEMMA RowsStep ==
    ASSUME TypeOK, BatchLive, RowsLive, [Next]_vars
    PROVE  RowsLive'
<1>1. CASE UNCHANGED vars
  BY <1>1 DEF vars, sockVars, RowsLive
<1>2. ASSUME NEW t, Die(t)
      PROVE  RowsLive'
  BY <1>2 DEF Die, NumbersIn, RowsLive
<1>3. CASE Startup
  BY <1>3 DEF Startup, sockVars, RowsLive
<1>4. CASE Poll \/ Connect \/ AbortConnect
  BY <1>4 DEF Poll, Connect, AbortConnect, sockVars, RowsLive
<1>5. ASSUME NEW f \in Fds, NEW c \in Cells, PeerSend(f, c)
      PROVE  RowsLive'
  BY <1>5 DEF PeerSend, RowsLive
<1>6. ASSUME NEW f \in Fds, PeerClose(f) \/ PeerReset(f)
      PROVE  RowsLive'
  BY <1>6 DEF PeerClose, PeerReset, PeerEnds, RowsLive
<1>7. ASSUME NEW e \in batch, Serve(e)
      PROVE  RowsLive'
  <2>1. e.fd # Listener => e.fd \in Fds
    BY DEF TypeOK
  <2>2. CASE AcceptAgain(e)
    BY <2>2 DEF AcceptAgain, sockVars, RowsLive
  <2>3. CASE Accept(e)
    \* The number handed out was free, so only a suspect row named it.
    <3>1. LowestFree \in Fds /\ fdtab[LowestFree] = "free"
      BY <2>3, LowestFreeIsFree DEF Accept
    <3>2. /\ table' = table /\ suspect' = suspect
          /\ fdtab' = [fdtab EXCEPT ![LowestFree] = "sock"]
          /\ announced' = [announced EXCEPT ![LowestFree] = {}]
      BY <2>3 DEF Accept
    <3>3. ASSUME NEW m \in Macs, table[m] # NoRow,
                 fdtab[table[m].fd] = "sock", m \in announced[table[m].fd]
          PROVE  fdtab'[table[m].fd] = "sock" /\ m \in announced'[table[m].fd]
      <4>1. table[m].fd \in Fds /\ table[m].fd # LowestFree
        BY <3>1, <3>3 DEF TypeOK, Row
      <4>2. QED
        BY <3>2, <3>3, <4>1 DEF TypeOK
    <3>4. QED
      BY <3>2, <3>3 DEF RowsLive
  <2>4. CASE RecvAgain(e)
    BY <2>4 DEF RecvAgain, RowsLive
  <2>5. CASE e.fd # Listener /\ RecvEof(e)
    \* The rows of the closed number are gone, or it becomes a suspect.
    <3>1. PICK q \in QueryRuns(1) :
            /\ table' = mysql_delete_fd(table, e.fd, q[1]).table
            /\ suspect' = IF Executes(q[1]) THEN suspect \ {e.fd} ELSE suspect \cup {e.fd}
      BY <2>5 DEF RecvEof
    <3>2. /\ fdtab' = [fdtab EXCEPT ![e.fd] = "free"]
          /\ announced' = [announced EXCEPT ![e.fd] = {}]
      BY <2>5 DEF RecvEof
    <3>3. ASSUME NEW m \in Macs, table'[m] # NoRow, table'[m].fd \notin suspect'
          PROVE  /\ fdtab'[table'[m].fd] = "sock"
                 /\ m \in announced'[table'[m].fd]
      <4>1. table'[m] = table[m] /\ table'[m].fd # e.fd /\ table[m].fd \notin suspect
        BY <2>1, <2>5, <3>1, <3>3, DeleteFdTable DEF TypeOK, Tables
      <4>2. fdtab[table[m].fd] = "sock" /\ m \in announced[table[m].fd]
        BY <3>3, <4>1 DEF RowsLive
      <4>3. table[m].fd \in Fds
        BY <3>3, <4>1 DEF TypeOK, Row
      <4>4. QED
        BY <3>2, <4>1, <4>2, <4>3 DEF TypeOK
    <3>4. QED
      BY <3>3 DEF RowsLive
  <2>6. ASSUME NEW n, NEW json, RecvInvalid(e, n, json)
        PROVE  RowsLive'
    BY <2>6 DEF RecvInvalid, RowsLive
  <2>7. ASSUME e.fd # Listener, NEW n, NEW json \in Packets, json # NULL,
               AgentHello(e, n, json)
        PROVE  RowsLive'
    <3> DEFINE s == parse_json_agent(json, session)
               wild == s.miner_mac = Wild
    <3> SUFFICES ASSUME ~ Die(table)
                 PROVE  RowsLive'
      BY <1>2
    <3>1. PICK q \in QueryRuns(2), mac \in Deref(s.miner_mac) :
            /\ table' = mysql_insert_fd(table, mac, e.fd,
                            REQ_LINUX_CLAYMORE, q[1], q[2]).table
            /\ announced' = IF wild THEN announced
                            ELSE [announced EXCEPT ![e.fd] = @ \cup {mac}]
      BY <2>7 DEF AgentHello
    <3>2. fdtab' = fdtab /\ suspect' = IF wild THEN suspect \cup {e.fd} ELSE suspect
      BY <2>7 DEF AgentHello
    <3>3. mac \in Macs
      BY <2>7, ParsedSession DEF Deref
    <3>4. REQ_LINUX_CLAYMORE \in AgentTypes
      BY DEF REQ_LINUX_CLAYMORE, AgentTypes, REQ_INVALID, REQ_WINDOW_CLAYMORE
    <3>5. /\ suspect \subseteq suspect'
          /\ \/ announced' = [announced EXCEPT ![e.fd] = @ \cup {mac}]
             \/ announced' = announced /\ e.fd \in suspect'
      BY <3>1, <3>2
    <3>6. QED
      BY <2>1, <2>7, <3>1, <3>2, <3>3, <3>4, <3>5, InsertKeepsRows
  <2>8. ASSUME e.fd # Listener, NEW n, NEW json, UxCommand(e, n, json)
        PROVE  RowsLive'
    <3> DEFINE s == parse_json_cmd(json, session)
    <3>1. CASE \E t : Die(t)
      BY <1>2, <3>1
    <3>2. CASE ~ \E t : Die(t)
      <4>1. PICK q \in QueryRuns(3), mac \in Deref(s.miner_mac) : \E branch, to, ret :
              /\ table' = mysql_insert_fd(table, UX_SESSION, e.fd, REQ_UX, q[1], q[2]).table
              /\ UxDone(e, n, json, s, mac, q, branch, to, ret)
        BY <2>8, <3>2 DEF UxCommand, UxSend
      <4>2. PICK branch, to, ret :
              /\ table' = mysql_insert_fd(table, UX_SESSION, e.fd, REQ_UX, q[1], q[2]).table
              /\ UxDone(e, n, json, s, mac, q, branch, to, ret)
        BY <4>1
      <4>3. \/ fdtab' = fdtab
            \/ Free # {} /\ fdtab' = [fdtab EXCEPT ![LowestFree] = "file"]
        BY <2>8, <3>2 DEF UxCommand, UxSend, MayBuild
      <4>4. \A f \in Fds : fdtab[f] = "sock" => fdtab'[f] = "sock"
        BY <4>3, LowestFreeIsFree DEF TypeOK
      <4>5. QED
        BY <2>1, <2>8, <4>2, <4>4, UxDoneKeepsRows
    <3>3. QED
      BY <3>1, <3>2
  <2>9. QED
    <3>1. \A n \in 1..Len(inbox[e.fd]) :
             e.fd # Listener /\ CellJson(inbox[e.fd], n) # NULL =>
                CellJson(inbox[e.fd], n) \in Packets
      BY <2>1, CellJsonPacket
    <3>2. QED
      BY <1>2, <1>7, <2>2, <2>3, <2>4, <2>5, <2>6, <2>7, <2>8, <3>1
         DEF Serve, PeerError, AcceptDies, RecvError, RecvPacket, RecvMalformed
<1>8. QED
  BY <1>1, <1>3, <1>4, <1>5, <1>6, <1>7 DEF Next, ServeSome

(* Whatever peers do, whichever queries are rejected or lost, and however  *)
(* often the process ends and is started again, a row outlives the peer it *)
(* names only on a number whose delete was not executed, that an ended     *)
(* process left behind, or whose peer announced no mac.  Neither the reuse *)
(* of numbers nor the order in which events are served adds to these.      *)
THEOREM RowsStayLive == Spec => []RowsLive
<1>1. Init => RowsLive
  BY DEF Init, RowsLive
<1>2. TypeOK /\ BatchLive /\ RowsLive /\ [Next]_vars => RowsLive'
  BY RowsStep
<1>3. QED
  BY <1>1, <1>2, TypeCorrect, EventsStayLive, PTL DEF Spec

-----------------------------------------------------------------------------
(* Commands reach the peer they are meant for.                             *)

(* A select that answers a number found the row of its mac.                *)
LEMMA SelectFdRow ==
    ASSUME NEW t \in Tables, NEW mac \in Macs, NEW o,
           mysql_select_fd(t, mac, o) >= 0
    PROVE  o = "ok" /\ t[mac] # NoRow /\ mysql_select_fd(t, mac, o) = t[mac].fd
  BY DEF mysql_select_fd

LEMMA DeliveryStep ==
    ASSUME TypeOK, TypeOK', RowsLive', Delivery, [Next]_vars
    PROVE  Delivery'
<1>1. CASE UNCHANGED vars
  BY <1>1 DEF vars, sockVars, Delivery
<1>2. CASE fwd' = NoFwd
  BY <1>2 DEF Delivery
<1>3. CASE Startup \/ Connect \/ AbortConnect
  BY <1>3 DEF Startup, Connect, AbortConnect, sockVars, Delivery
<1>4. ASSUME NEW f \in Fds, NEW c \in Cells, PeerSend(f, c)
      PROVE  Delivery'
  BY <1>4 DEF PeerSend, Delivery
<1>5. ASSUME NEW f \in Fds, PeerClose(f) \/ PeerReset(f)
      PROVE  Delivery'
  BY <1>5 DEF PeerClose, PeerReset, PeerEnds, Delivery
<1>6. ASSUME NEW e \in batch, e.fd # Listener, NEW n, NEW json \in Packets,
             json # NULL, UxCommand(e, n, json), fwd' # NoFwd
      PROVE  Delivery'
  <2> DEFINE s == parse_json_cmd(json, session)
             tab(q) == mysql_insert_fd(table, UX_SESSION, e.fd, REQ_UX, q[1], q[2]).table
  <2> SUFFICES ASSUME fwd'.ret > 0, fwd'.fd \notin suspect'
               PROVE  fdtab'[fwd'.fd] = "sock" /\ fwd'.mac \in announced'[fwd'.fd]
    BY DEF Delivery
  <2>1. PICK q \in QueryRuns(3), mac \in Deref(s.miner_mac) :
          LET to == mysql_select_fd(tab(q), mac, q[3]) IN
          /\ table' = tab(q)
          /\ \/ UxDone(e, n, json, s, mac, q, "notfound", to, 0)
             \/ to >= 0 /\ UxSend(e, n, json, s, mac, q, to)
    BY <1>6 DEF UxCommand, Die
  <2> DEFINE to == mysql_select_fd(tab(q), mac, q[3])
  <2>2. to >= 0 /\ UxSend(e, n, json, s, mac, q, to)
    BY <2>1 DEF UxDone
  <2>3. PICK ret \in {-1, PARTIAL, FULL} :
          /\ ret > 0 => fdtab[to] = "sock"
          /\ UxDone(e, n, json, s, mac, q, SendBranch(ret), to, ret)
    BY <2>2 DEF UxSend
  <2>4. fwd'.fd = to /\ fwd'.mac = mac /\ fwd'.ret = ret
    BY <2>3 DEF UxDone
  <2>5. mac \in Macs
    BY <1>6, ParsedSession DEF Deref
  <2>6. q[3] = "ok" /\ table'[mac] # NoRow /\ to = table'[mac].fd
    <3>1. table' \in Tables
      BY DEF TypeOK, Tables
    <3>2. to = mysql_select_fd(table', mac, q[3])
      BY <2>1
    <3> HIDE DEF to
    <3>3. QED
      BY <2>2, <2>5, <3>1, <3>2, SelectFdRow
  <2>7. QED
    BY <2>4, <2>5, <2>6 DEF RowsLive
<1>7. ASSUME NEW e \in batch, Serve(e), fwd' # NoFwd
      PROVE  Delivery'
  <2>1. PICK n \in 1..Len(inbox[e.fd]) :
          /\ e.fd # Listener
          /\ CellJson(inbox[e.fd], n) # NULL
          /\ UxCommand(e, n, CellJson(inbox[e.fd], n))
    BY <1>7 DEF Serve, PeerError, AcceptAgain, AcceptDies, Accept, RecvAgain, RecvError,
                RecvEof, RecvPacket, RecvMalformed, RecvInvalid, AgentHello, Die
  <2>2. e.fd \in Fds
    BY <2>1 DEF TypeOK
  <2>3. CellJson(inbox[e.fd], n) \in Packets
    BY <2>1, <2>2, CellJsonPacket
  <2>4. QED
    BY <1>6, <1>7, <2>1, <2>3
<1>8. CASE Poll
  BY <1>2, <1>8 DEF Poll
<1>9. QED
  BY <1>1, <1>2, <1>3, <1>4, <1>5, <1>7, <1>8 DEF Next, ServeSome

(* A command whose bytes left the server went to a connection whose peer   *)
(* announced the mac that was looked up, unless the number found was one   *)
(* whose rows RowsLive calls suspect.                                      *)
THEOREM CommandsDelivered == Spec => []Delivery
<1>1. Init => Delivery
  BY DEF Init, Delivery
<1>2. TypeOK /\ TypeOK' /\ RowsLive' /\ Delivery /\ [Next]_vars => Delivery'
  BY DeliveryStep
<1>3. QED
  BY <1>1, <1>2, TypeCorrect, RowsStayLive, PTL DEF Spec

-----------------------------------------------------------------------------
(* epoll and the descriptor table agree.                                   *)

LEMMA EventMasks == EventMask(fd_status_R) = {"IN"} /\ EventMask(fd_status_NORW) = {}
  BY DEF EventMask, fd_status_R, fd_status_NORW

(* A callback that keeps its socket registers it for reading again.        *)
LEMMA KeepWatches ==
    ASSUME TypeOK, BatchLive, WatchedForReading, NEW e \in batch, e.fd # Listener,
           NEW n, Keep(e, n, fd_status_R),
           \/ fdtab' = fdtab
           \/ Free # {} /\ fdtab' = [fdtab EXCEPT ![LowestFree] = "file"]
    PROVE  WatchedForReading'
<1>1. e.fd \in Fds /\ fdtab[e.fd] = "sock"
  BY DEF TypeOK, BatchLive
<1>2. interest' = [interest EXCEPT ![e.fd] = {"IN"}]
  BY EventMasks DEF Keep
<1>3. CASE fdtab' = fdtab
  BY <1>1, <1>2, <1>3 DEF WatchedForReading, TypeOK
<1>4. CASE Free # {} /\ fdtab' = [fdtab EXCEPT ![LowestFree] = "file"]
  BY <1>1, <1>2, <1>4, LowestFreeIsFree DEF WatchedForReading, TypeOK
<1>5. QED
  BY <1>3, <1>4

LEMMA WatchedStep ==
    ASSUME TypeOK, BatchLive, WatchedForReading, [Next]_vars
    PROVE  WatchedForReading'
<1>1. CASE UNCHANGED vars
  BY <1>1 DEF vars, sockVars, WatchedForReading
<1>2. ASSUME NEW t, Die(t)
      PROVE  WatchedForReading'
  BY <1>2 DEF Die, WatchedForReading
<1>3. CASE Startup \/ Poll \/ Connect \/ AbortConnect
  BY <1>3 DEF Startup, Poll, Connect, AbortConnect, sockVars, WatchedForReading
<1>4. ASSUME NEW f \in Fds, NEW c \in Cells, PeerSend(f, c)
      PROVE  WatchedForReading'
  BY <1>4 DEF PeerSend, WatchedForReading
<1>5. ASSUME NEW f \in Fds, PeerClose(f) \/ PeerReset(f)
      PROVE  WatchedForReading'
  BY <1>5 DEF PeerClose, PeerReset, PeerEnds, WatchedForReading
<1>6. ASSUME NEW e \in batch, Serve(e)
      PROVE  WatchedForReading'
  <2>1. CASE AcceptAgain(e)
    BY <2>1 DEF AcceptAgain, sockVars, WatchedForReading
  <2>2. CASE Accept(e)
    <3>1. /\ fdtab' = [fdtab EXCEPT ![LowestFree] = "sock"]
          /\ interest' = [interest EXCEPT ![LowestFree] = {"IN"}]
      BY <2>2, EventMasks DEF Accept, on_peer_connected
    <3>2. QED
      BY <3>1 DEF WatchedForReading, TypeOK
  <2>3. CASE e.fd # Listener /\ RecvAgain(e)
    BY <2>3, KeepWatches DEF RecvAgain
  <2>4. CASE RecvEof(e)
    <3>1. /\ fdtab' = [fdtab EXCEPT ![e.fd] = "free"]
          /\ interest' = [interest EXCEPT ![e.fd] = {}]
      BY <2>4, EventMasks DEF RecvEof
    <3>2. QED
      BY <3>1 DEF WatchedForReading, TypeOK
  <2>5. ASSUME e.fd # Listener, NEW n, NEW json,
               RecvInvalid(e, n, json) \/ AgentHello(e, n, json)
        PROVE  WatchedForReading'
    BY <1>2, <2>5, KeepWatches DEF RecvInvalid, AgentHello
  <2>6. ASSUME e.fd # Listener, NEW n, NEW json, UxCommand(e, n, json)
        PROVE  WatchedForReading'
    <3>1. CASE \E t : Die(t)
      BY <1>2, <3>1
    <3>2. CASE ~ \E t : Die(t)
      <4>1. Keep(e, n, fd_status_R)
        BY <2>6, <3>2 DEF UxCommand, UxSend, UxDone
      <4>2. \/ fdtab' = fdtab
            \/ Free # {} /\ fdtab' = [fdtab EXCEPT ![LowestFree] = "file"]
        BY <2>6, <3>2 DEF UxCommand, UxSend, MayBuild
      <4>3. QED
        BY <2>6, <4>1, <4>2, KeepWatches
    <3>3. QED
      BY <3>1, <3>2
  <2>7. QED
    BY <1>2, <1>6, <2>1, <2>2, <2>3, <2>4, <2>5, <2>6
       DEF Serve, PeerError, AcceptDies, RecvError, RecvPacket, RecvMalformed
<1>7. QED
  BY <1>1, <1>3, <1>4, <1>5, <1>6 DEF Next, ServeSome

(* epoll watches the connected sockets, all of them and for reading only:  *)
(* the EPOLLOUT half of the loop and on_peer_ready_send are dead code.     *)
THEOREM OnlyReads == Spec => []WatchedForReading
<1>1. Init => WatchedForReading
  BY DEF Init, WatchedForReading
<1>2. TypeOK /\ BatchLive /\ WatchedForReading /\ [Next]_vars => WatchedForReading'
  BY WatchedStep
<1>3. QED
  BY <1>1, <1>2, TypeCorrect, EventsStayLive, PTL DEF Spec

(* Each event that epoll reports is one that the loop has a branch for     *)
(* here: there is something to read, or an error.                          *)
ReadsOrErrors == \A e \in batch : e.events # {} /\ e.events \subseteq {"IN", "ERR"}

LEMMA EventsStep ==
    ASSUME TypeOK, WatchedForReading, ReadsOrErrors, [Next]_vars
    PROVE  ReadsOrErrors'
<1>1. ASSUME batch' \subseteq batch
      PROVE  ReadsOrErrors'
  BY <1>1 DEF ReadsOrErrors
<1>2. CASE Poll
  <2>1. \A f \in Fds : Events(f) \subseteq {"IN", "ERR"}
    BY DEF Events, WatchedForReading
  <2>2. QED
    BY <1>2, <2>1 DEF Poll, ReadyEvents, ReadsOrErrors
<1>3. ASSUME NEW e \in batch, Serve(e)
      PROVE  batch' \subseteq batch
  <2>1. ASSUME NEW n, NEW json, UxCommand(e, n, json)
        PROVE  batch' \subseteq batch
    BY <2>1 DEF UxCommand, UxSend, UxDone, Keep, Die
  <2>2. ASSUME NEW n, NEW json, AgentHello(e, n, json) \/ RecvInvalid(e, n, json)
        PROVE  batch' \subseteq batch
    BY <2>2 DEF AgentHello, RecvInvalid, Keep, Die
  <2>3. QED
    BY <1>3, <2>1, <2>2 DEF Serve, PeerError, AcceptAgain, AcceptDies, Accept, RecvAgain,
                            RecvError, RecvEof, RecvPacket, RecvMalformed, Keep, Die
<1>4. CASE ~ Poll /\ ~ ServeSome
  BY <1>1, <1>4 DEF Next, vars, Startup, Connect, AbortConnect, PeerSend, PeerClose,
                    PeerReset, PeerEnds
<1>5. QED
  BY <1>1, <1>2, <1>3, <1>4 DEF Next, ServeSome

(* No event ever asks for writing, so the EPOLLOUT branch of the loop and  *)
(* on_peer_ready_send (main.c:329) do not run, and every event is handled. *)
THEOREM NothingToWrite == Spec => []ReadsOrErrors
<1>1. Init => ReadsOrErrors
  BY DEF Init, ReadsOrErrors
<1>2. TypeOK /\ WatchedForReading /\ ReadsOrErrors /\ [Next]_vars => ReadsOrErrors'
  BY EventsStep
<1>3. QED
  BY <1>1, <1>2, TypeCorrect, OnlyReads, PTL DEF Spec

-----------------------------------------------------------------------------
(* Rows come and go with their own peer.                                   *)

(* An insertion on behalf of the peer of a live event.                     *)
LEMMA InsertMoves ==
    ASSUME TypeOK, BatchLive, NEW e \in batch, e.fd \in Fds, e.fd # Listener,
           NEW mac \in Macs, NEW a \in AgentTypes, NEW ins, NEW upd,
           table' = mysql_insert_fd(table, mac, e.fd, a, ins, upd).table
    PROVE  RowMoves
<1> DEFINE row == [fd |-> e.fd, agent_type |-> a]
<1>1. \A m \in Macs : table'[m] # table[m] => table'[m] = row
  <2>1. table \in Tables
    BY DEF TypeOK, Tables
  <2>2. /\ \A m \in Macs : m # mac => table'[m] = table[m]
        /\ table'[mac] \in {table[mac], row}
    BY <2>1, InsertFdTable
  <2>3. QED
    BY <2>2
<1>2. row # NoRow
  BY TableAssumption DEF Row
<1>3. fdtab[row.fd] = "sock"
  BY DEF BatchLive
<1>4. QED
  BY <1>1, <1>2, <1>3 DEF RowMoves

LEMMA RowMovesStep ==
    ASSUME TypeOK, BatchLive, [Next]_vars
    PROVE  RowMoves \/ UNCHANGED vars
<1>1. ASSUME table' = table
      PROVE  RowMoves
  BY <1>1 DEF RowMoves
<1>2. ASSUME NEW e \in batch, Serve(e)
      PROVE  RowMoves
  <2>1. e.fd # Listener => e.fd \in Fds
    BY DEF TypeOK
  <2>2. CASE e.fd # Listener /\ RecvEof(e)
    <3>1. PICK o : table' = mysql_delete_fd(table, e.fd, o).table
      BY <2>2 DEF RecvEof
    <3>2. \A m \in Macs : table'[m] # table[m] =>
             table'[m] = NoRow /\ table[m].fd = e.fd
      BY <2>1, <2>2, <3>1, DeleteFdTable DEF TypeOK, Tables
    <3>3. fdtab[e.fd] = "sock" /\ remote[e.fd] # "open"
      BY <2>2 DEF RecvEof, BatchLive
    <3>4. QED
      BY <3>2, <3>3 DEF RowMoves
  <2>3. ASSUME e.fd # Listener, NEW n, NEW json \in Packets, json # NULL,
               AgentHello(e, n, json)
        PROVE  RowMoves
    <3> DEFINE s == parse_json_agent(json, session)
    <3>1. CASE Die(table)
      BY <1>1, <3>1 DEF Die
    <3>2. CASE ~ Die(table)
      <4>1. PICK q \in QueryRuns(2), mac \in Deref(s.miner_mac) :
              table' = mysql_insert_fd(table, mac, e.fd,
                           REQ_LINUX_CLAYMORE, q[1], q[2]).table
        BY <2>3, <3>2 DEF AgentHello
      <4>2. mac \in Macs
        BY <2>3, ParsedSession DEF Deref
      <4>3. REQ_LINUX_CLAYMORE \in AgentTypes
        BY DEF REQ_LINUX_CLAYMORE, AgentTypes, REQ_INVALID, REQ_WINDOW_CLAYMORE
      <4>4. QED
        BY <2>1, <2>3, <4>1, <4>2, <4>3, InsertMoves
    <3>3. QED
      BY <3>1, <3>2
  <2>4. ASSUME e.fd # Listener, NEW n, NEW json, UxCommand(e, n, json)
        PROVE  RowMoves
    <3>1. PICK q \in QueryRuns(3) :
            table' = mysql_insert_fd(table, UX_SESSION, e.fd, REQ_UX, q[1], q[2]).table
      BY <2>4 DEF UxCommand, Die
    <3>2. REQ_UX \in AgentTypes /\ UX_SESSION \in Macs
      BY TableAssumption DEF REQ_UX, AgentTypes, REQ_INVALID, REQ_WINDOW_CLAYMORE
    <3>3. QED
      BY <2>1, <2>4, <3>1, <3>2, InsertMoves
  <2>5. \A n \in 1..Len(inbox[e.fd]) :
           e.fd # Listener /\ CellJson(inbox[e.fd], n) # NULL =>
              CellJson(inbox[e.fd], n) \in Packets
    BY <2>1, CellJsonPacket
  <2>6. \/ table' = table
        \/ e.fd # Listener /\ RecvEof(e)
        \/ e.fd # Listener /\ \E n \in 1..Len(inbox[e.fd]) :
              LET json == CellJson(inbox[e.fd], n) IN
              json # NULL /\ (AgentHello(e, n, json) \/ UxCommand(e, n, json))
    BY <1>2 DEF Serve, PeerError, AcceptAgain, AcceptDies, Accept, RecvAgain, RecvError,
                RecvPacket, RecvMalformed, RecvInvalid, Die
  <2>7. QED
    BY <1>1, <2>2, <2>3, <2>4, <2>5, <2>6
<1>3. QED
  BY <1>1, <1>2 DEF Next, ServeSome, Startup, Poll, Connect, AbortConnect, PeerSend,
                    PeerClose, PeerReset, PeerEnds, vars

(* Whatever fails, no peer that leaves takes another peer's row with it,   *)
(* and no row is ever written for a number that is not connected.          *)
THEOREM RowsMoveWithPeers == Spec => RowsLeaveWithPeer
<1>1. TypeOK /\ BatchLive /\ [Next]_vars => [RowMoves]_vars
  BY RowMovesStep
<1>2. QED
  BY <1>1, TypeCorrect, EventsStayLive, PTL DEF Spec, RowsLeaveWithPeer

-----------------------------------------------------------------------------
(* A command is handled with its own fields.                               *)

(* What parse_json_cmd assigns last is what the packet says, whatever the  *)
(* shared session_t held; a mac that a packet states is no wild pointer.   *)
LEMMA CommandOwn ==
    ASSUME NEW e, NEW n, NEW json \in Packets, json # NULL, UxCommand(e, n, json)
    PROVE  OwnFields'
<1> DEFINE s == parse_json_cmd(json, session)
<1>1. CASE fwd' = NoFwd
  BY <1>1 DEF OwnFields
<1>2. CASE fwd' # NoFwd
  <2>1. PICK mac \in Deref(s.miner_mac) :
           fwd'.json = json /\ fwd'.mac = mac /\ fwd'.sequence = s.sequence
    BY <1>2 DEF UxCommand, UxSend, UxDone, Die
  <2>2. HasStr(json, "miner_mac") => mac = Str(json, "miner_mac")
    <3>1. HasStr(json, "miner_mac") => s.miner_mac = Str(json, "miner_mac")
      BY DEF parse_json_cmd, Assign
    <3>2. HasStr(json, "miner_mac") => Str(json, "miner_mac") # Wild
      BY CmdAssumption
    <3>3. QED
      BY <2>1, <3>1, <3>2 DEF Deref
  <2>3. HasStr(json, "sequence") => s.sequence = atoi(Str(json, "sequence"))
    BY DEF parse_json_cmd
  <2>4. QED
    BY <2>1, <2>2, <2>3 DEF OwnFields
<1>3. QED
  BY <1>1, <1>2

LEMMA OwnStep ==
    ASSUME TypeOK, OwnFields, [Next]_vars
    PROVE  OwnFields'
<1>1. CASE fwd' = NoFwd \/ fwd' = fwd
  BY <1>1 DEF OwnFields
<1>2. ASSUME NEW e \in batch, Serve(e)
      PROVE  OwnFields'
  <2>1. ASSUME e.fd # Listener, NEW n \in 1..Len(inbox[e.fd]),
               CellJson(inbox[e.fd], n) # NULL,
               UxCommand(e, n, CellJson(inbox[e.fd], n))
        PROVE  OwnFields'
    <3>1. e.fd \in Fds
      BY <2>1 DEF TypeOK
    <3>2. CellJson(inbox[e.fd], n) \in Packets
      BY <2>1, <3>1, CellJsonPacket
    <3>3. QED
      BY <2>1, <3>2, CommandOwn
  <2>2. CASE e.fd # Listener /\ RecvPacket(e)
    BY <1>1, <2>1, <2>2, Zenon DEF RecvPacket, RecvMalformed, RecvInvalid, AgentHello, Die
  <2>3. CASE ~ (e.fd # Listener /\ RecvPacket(e))
    BY <1>1, <1>2, <2>3, Zenon DEF Serve, PeerError, AcceptAgain, AcceptDies, Accept,
         RecvAgain, RecvError, RecvEof, Keep, Die
  <2>4. QED
    BY <2>2, <2>3
<1>3. CASE UNCHANGED vars
  BY <1>1, <1>3 DEF vars
<1>4. CASE Startup \/ Poll \/ Connect \/ AbortConnect
  BY <1>1, <1>4, Zenon DEF Startup, Poll, Connect, AbortConnect
<1>5. ASSUME NEW f \in Fds,
             (\E c \in Cells : PeerSend(f, c)) \/ PeerClose(f) \/ PeerReset(f)
      PROVE  OwnFields'
  BY <1>1, <1>5, Zenon DEF PeerSend, PeerClose, PeerReset, PeerEnds
<1>6. QED
  BY <1>2, <1>3, <1>4, <1>5 DEF Next, ServeSome

(* However the events of a batch follow each other, a command is looked up *)
(* and numbered by the mac and sequence it states itself.                  *)
THEOREM CommandsOwnFields == Spec => []OwnFields
<1>1. Init => OwnFields
  BY DEF Init, OwnFields
<1>2. TypeOK /\ OwnFields /\ [Next]_vars => OwnFields'
  BY OwnStep
<1>3. QED
  BY <1>1, <1>2, TypeCorrect, PTL DEF Spec

=============================================================================
