---------------------------- MODULE RoutingProofs ----------------------------
(***************************************************************************)
(* The proof that CmdAgent implements CmdRouting.                          *)
(***************************************************************************)
EXTENDS CmdAgentProofs

(* While no process runs there is no link, event, socket, claim or command:*)
(* what Startup leaves alone is what CmdRouting begins with.               *)
DownIsEmpty ==
    ~ up => /\ link = "lost"
            /\ batch = {}
            /\ fwd = NoFwd
            /\ \A f \in Fds : fdtab[f] = "free" /\ announced[f] = {}

(* A command opens a file on a free number and no more.                    *)
LEMMA UxKeepsSockets ==
    ASSUME TypeOK, NEW e, NEW n, NEW json, UxCommand(e, n, json), ~ \E t : Die(t)
    PROVE  \A f \in Fds : fdtab'[f] = "sock" <=> fdtab[f] = "sock"
<1>1. \/ fdtab' = fdtab
      \/ Free # {} /\ fdtab' = [fdtab EXCEPT ![LowestFree] = "file"]
  BY DEF UxCommand, UxSend, MayBuild
<1>2. QED
  BY <1>1, LowestFreeIsFree DEF TypeOK

(* Serving an event either leaves the process running or ends it.          *)
LEMMA ServeEnds ==
    ASSUME NEW e, Serve(e)
    PROVE  up' = up \/ \E t : Die(t)
<1>1. ASSUME NEW n, NEW json, UxCommand(e, n, json)
      PROVE  up' = up \/ \E t : Die(t)
  BY <1>1 DEF UxCommand, UxSend, UxDone, Keep
<1>2. ASSUME NEW n, NEW json, AgentHello(e, n, json) \/ RecvInvalid(e, n, json)
      PROVE  up' = up \/ \E t : Die(t)
  BY <1>2 DEF AgentHello, RecvInvalid, Keep
<1>3. QED
  BY <1>1, <1>2 DEF Serve, PeerError, AcceptAgain, AcceptDies, Accept, RecvAgain, RecvError,
                    RecvEof, RecvPacket, RecvMalformed, Keep

LEMMA DownStep ==
    ASSUME TypeOK, DownIsEmpty, [Next]_vars
    PROVE  DownIsEmpty'
<1>1. CASE UNCHANGED vars
  BY <1>1 DEF vars, sockVars, DownIsEmpty
<1>2. ASSUME NEW t, Die(t)
      PROVE  DownIsEmpty'
  BY <1>2 DEF Die, DownIsEmpty
<1>3. CASE Startup \/ Poll \/ Connect
  BY <1>3 DEF Startup, Poll, Connect, DownIsEmpty
<1>4. CASE AbortConnect
  BY <1>4 DEF AbortConnect, sockVars, DownIsEmpty
<1>5. ASSUME NEW f \in Fds, NEW c \in Cells, PeerSend(f, c)
      PROVE  DownIsEmpty'
  BY <1>5 DEF PeerSend, DownIsEmpty
<1>6. ASSUME NEW f \in Fds, PeerClose(f) \/ PeerReset(f)
      PROVE  DownIsEmpty'
  BY <1>6 DEF PeerClose, PeerReset, PeerEnds, DownIsEmpty
<1>7. ASSUME NEW e \in batch, Serve(e)
      PROVE  DownIsEmpty'
  <2>1. up
    BY <1>7 DEF DownIsEmpty
  <2>2. QED
    BY <1>2, <1>7, <2>1, ServeEnds DEF DownIsEmpty
<1>8. QED
  BY <1>1, <1>3, <1>4, <1>5, <1>6, <1>7 DEF Next, ServeSome

(* Only connected peers have claims, so a number handed out has none.      *)
NoStrayClaims == \A f \in Fds : fdtab[f] # "sock" => announced[f] = {}

LEMMA ClaimsKept ==
    ASSUME TypeOK, BatchLive, NoStrayClaims, NEW e \in batch, e.fd # Listener,
           \A f \in Fds \ {e.fd} : announced'[f] = announced[f],
           \A f \in Fds : fdtab[f] = "sock" => fdtab'[f] = "sock"
    PROVE  NoStrayClaims'
<1>1. fdtab[e.fd] = "sock"
  BY DEF BatchLive
<1>2. QED
  BY <1>1 DEF NoStrayClaims

LEMMA ClaimsStep ==
    ASSUME TypeOK, BatchLive, NoStrayClaims, [Next]_vars
    PROVE  NoStrayClaims'
<1>1. CASE UNCHANGED vars
  BY <1>1 DEF vars, sockVars, NoStrayClaims
<1>2. ASSUME NEW t, Die(t)
      PROVE  NoStrayClaims'
  BY <1>2 DEF Die, NoStrayClaims
<1>3. CASE Startup \/ Poll \/ Connect \/ AbortConnect
  BY <1>3 DEF Startup, Poll, Connect, AbortConnect, sockVars, NoStrayClaims
<1>4. ASSUME NEW f \in Fds, NEW c \in Cells, PeerSend(f, c)
      PROVE  NoStrayClaims'
  BY <1>4 DEF PeerSend, NoStrayClaims
<1>5. ASSUME NEW f \in Fds, PeerClose(f) \/ PeerReset(f)
      PROVE  NoStrayClaims'
  BY <1>5 DEF PeerClose, PeerReset, PeerEnds, NoStrayClaims
<1>6. ASSUME NEW e \in batch, Serve(e)
      PROVE  NoStrayClaims'
  <2>1. CASE AcceptAgain(e) \/ RecvAgain(e)
    BY <2>1 DEF AcceptAgain, RecvAgain, sockVars, NoStrayClaims
  <2>2. CASE Accept(e)
    BY <2>2 DEF Accept, NoStrayClaims, TypeOK
  <2>3. CASE RecvEof(e)
    BY <2>3 DEF RecvEof, NoStrayClaims, TypeOK
  <2>4. ASSUME NEW n, NEW json, RecvInvalid(e, n, json)
        PROVE  NoStrayClaims'
    BY <2>4 DEF RecvInvalid, NoStrayClaims
  <2>5. ASSUME e.fd # Listener, NEW n, NEW json, AgentHello(e, n, json)
        PROVE  NoStrayClaims'
    <3>1. CASE Die(table)
      BY <1>2, <3>1
    <3>2. CASE ~ Die(table)
      <4>1. fdtab' = fdtab /\ \A f \in Fds \ {e.fd} : announced'[f] = announced[f]
        BY <2>5, <3>2 DEF AgentHello, TypeOK
      <4>2. QED
        BY <2>5, <4>1, ClaimsKept
    <3>3. QED
      BY <3>1, <3>2
  <2>6. ASSUME e.fd # Listener, NEW n, NEW json, UxCommand(e, n, json)
        PROVE  NoStrayClaims'
    <3>1. CASE \E t : Die(t)
      BY <1>2, <3>1
    <3>2. CASE ~ \E t : Die(t)
      <4>1. announced' = [announced EXCEPT ![e.fd] = @ \cup {UX_SESSION}]
        BY <2>6, <3>2 DEF UxCommand, UxSend, UxDone
      <4>2. \A f \in Fds \ {e.fd} : announced'[f] = announced[f]
        BY <4>1 DEF TypeOK
      <4>3. \A f \in Fds : fdtab'[f] = "sock" <=> fdtab[f] = "sock"
        BY <2>6, <3>2, UxKeepsSockets
      <4>4. QED
        BY <2>6, <4>2, <4>3, ClaimsKept
    <3>3. QED
      BY <3>1, <3>2
  <2>7. QED
    BY <1>2, <1>6, <2>1, <2>2, <2>3, <2>4, <2>5, <2>6
       DEF Serve, PeerError, AcceptDies, RecvError, RecvPacket, RecvMalformed
<1>7. QED
  BY <1>1, <1>3, <1>4, <1>5, <1>6 DEF Next, ServeSome

-----------------------------------------------------------------------------
(* The steps while the promise holds.                                      *)

(* Steps that touch nothing CmdRouting sees, except to forget the command. *)
LEMMA QuietStep ==
    ASSUME Serving, Serving', table' = table, fdtab' = fdtab, announced' = announced,
           fwd' = fwd \/ fwd' = NoFwd
    PROVE  [Routing!RoutingNext]_(Routing!routingVars)
<1>1. Present' = Present /\ Claims' = Claims /\ Dir' = Dir
  BY DEF Present, Claims, Dir
<1>2. Serving' = Serving
  OBVIOUS
<1>3. CASE fwd' = fwd
  <2>1. Sent' = Sent
    BY <1>3 DEF Sent
  <2>2. QED
    BY <1>1, <1>2, <2>1 DEF Routing!routingVars
<1>4. CASE fwd' = NoFwd
  <2>1. Sent' = Routing!Nothing
    BY <1>4 DEF Sent, Routing!Nothing, Routing!None
  <2>2. Routing!Pass
    BY <1>1, <1>2, <2>1 DEF Routing!Pass
  <2>3. QED
    BY <2>2 DEF Routing!RoutingNext
<1>5. QED
  BY <1>3, <1>4

(* An accepted connection joins under a number that nobody has.            *)
LEMMA AcceptStep ==
    ASSUME TypeOK, Serving, Serving', NEW e, Accept(e),
           NoStrayClaims
    PROVE  Routing!Join(LowestFree) /\ LowestFree \in Fds
<1>1. LowestFree \in Fds /\ fdtab[LowestFree] = "free"
  BY LowestFreeIsFree DEF Accept
<1>2. LowestFree \notin Present
  BY <1>1 DEF Present
<1>3. fdtab' = [fdtab EXCEPT ![LowestFree] = "sock"]
  BY DEF Accept
<1>4. Present' = Present \cup {LowestFree}
  BY <1>1, <1>3 DEF Present, TypeOK
<1>5. Claims' = Claims
  <2>1. announced' = announced
    BY <1>1 DEF Accept, TypeOK, NoStrayClaims
  <2>2. QED
    BY <2>1 DEF Claims
<1>6. Dir' = Dir
  BY DEF Dir, Accept
<1>7. Sent' = Routing!Nothing
  BY DEF Sent, Accept, Routing!Nothing, Routing!None
<1>8. Serving' = Serving
  OBVIOUS
<1>9. QED
  BY <1>1, <1>2, <1>4, <1>5, <1>6, <1>7, <1>8 DEF Routing!Join

(* A peer that is reaped leaves, and its rows with it.                     *)
LEMMA EofStep ==
    ASSUME TypeOK, BatchLive, Serving, Serving', NEW e \in batch, e.fd # Listener, RecvEof(e)
    PROVE  Routing!Leave(e.fd)
<1>1. e.fd \in Fds /\ fdtab[e.fd] = "sock"
  BY DEF TypeOK, BatchLive
<1>2. PICK q \in QueryRuns(1) :
        /\ table' = mysql_delete_fd(table, e.fd, q[1]).table
        /\ link' = LinkAfter(q, 1)
        /\ taint' = taint \cup TaintOf(q, 1, FALSE)
  BY DEF RecvEof
<1>3. q[1] = "ok"
  <2>1. LinkAfter(q, 1) = "up" /\ \A i \in 1..1 : q[i] # "fail"
    BY <1>2 DEF Serving, TaintOf
  <2>2. \A i \in 1..1 : q[i] = "ok"
    BY <2>1, CleanQueries
  <2>3. QED
    BY <2>2
<1>4. table' = DeleteWhere(table, RowsOf(table, e.fd))
  BY <1>2, <1>3 DEF mysql_delete_fd, Executes
<1>5. Dir' = [m \in Macs |-> IF Dir[m] = e.fd THEN -1 ELSE Dir[m]]
  <2>1. e.fd # -1
    BY <1>1, TableAssumption
  <2>2. QED
    BY <1>4, <2>1 DEF Dir, DeleteWhere, RowsOf
<1>6. Present' = Present \ {e.fd} /\ e.fd \in Present
  BY <1>1 DEF Present, RecvEof, TypeOK
<1>7. Claims' = [Claims EXCEPT ![e.fd] = {}]
  BY <1>1 DEF Claims, RecvEof, TypeOK
<1>8. Sent' = Routing!Nothing
  BY DEF Sent, RecvEof, Routing!Nothing, Routing!None
<1>9. Serving' = Serving
  OBVIOUS
<1>10. QED
  BY <1>5, <1>6, <1>7, <1>8, <1>9 DEF Routing!Leave, Routing!None

(* Two executed queries of mysql_insert_fd give the name to the caller.    *)
LEMMA InsertClaims ==
    ASSUME TypeOK, BatchLive, Serving, Serving', NEW e \in batch, e.fd # Listener,
           NEW mac \in Macs, NEW a \in AgentTypes,
           table' = mysql_insert_fd(table, mac, e.fd, a, "ok", "ok").table,
           announced' = [announced EXCEPT ![e.fd] = @ \cup {mac}],
           \A f \in Fds : fdtab'[f] = "sock" <=> fdtab[f] = "sock"
    PROVE  Routing!Claim(e.fd, mac) /\ Dir' = [Dir EXCEPT ![mac] = e.fd]
<1>1. e.fd \in Fds /\ fdtab[e.fd] = "sock"
  BY DEF TypeOK, BatchLive
<1>2. /\ table' \in Tables
      /\ \A m \in Macs : m # mac => table'[m] = table[m]
      /\ table'[mac] = [fd |-> e.fd, agent_type |-> a]
  BY <1>1, InsertFdTable DEF TypeOK, Tables
<1>3. table'[mac] # NoRow /\ table'[mac].fd = e.fd
  <2>1. [fd |-> e.fd, agent_type |-> a] \in Row
    BY <1>1 DEF Row
  <2>2. QED
    BY <1>2, <2>1, TableAssumption
<1>4. Dir' = [Dir EXCEPT ![mac] = e.fd]
  BY <1>2, <1>3 DEF Dir
<1>5. Present' = Present /\ e.fd \in Present
  BY <1>1 DEF Present
<1>6. Claims' = [Claims EXCEPT ![e.fd] = @ \cup {mac}]
  BY <1>1 DEF Claims, TypeOK
<1>7. QED
  BY <1>4, <1>5, <1>6 DEF Routing!Claim

(* A miner's packet announces its mac.                                     *)
LEMMA HelloStep ==
    ASSUME TypeOK, BatchLive, Serving, Serving', NEW e \in batch, e.fd # Listener,
           NEW n, NEW json \in Packets, json # NULL, AgentHello(e, n, json)
    PROVE  \E m \in Macs : Routing!Announce(e.fd, m)
<1> DEFINE s == parse_json_agent(json, session)
           wild == s.miner_mac = Wild
<1>1. PICK q \in QueryRuns(2), mac \in Deref(s.miner_mac) :
        /\ table' = mysql_insert_fd(table, mac, e.fd,
                        REQ_LINUX_CLAYMORE, q[1], q[2]).table
        /\ link' = LinkAfter(q, 2)
        /\ taint' = taint \cup TaintOf(q, 2, wild)
        /\ announced' = IF wild THEN announced
                        ELSE [announced EXCEPT ![e.fd] = @ \cup {mac}]
  BY DEF AgentHello, Die, Serving
<1>2. fdtab' = fdtab /\ fwd' = NoFwd
  BY DEF AgentHello, Die, Serving
<1>3. ~ wild /\ LinkAfter(q, 2) = "up" /\ \A i \in 1..2 : q[i] # "fail"
  BY <1>1 DEF TaintOf, Serving
<1>4. \A i \in 1..2 : q[i] = "ok"
  BY <1>3, CleanQueries
<1>5. q[1] = "ok" /\ q[2] = "ok"
  BY <1>4
<1>6. mac \in Macs
  BY ParsedSession DEF Deref
<1>7. REQ_LINUX_CLAYMORE \in AgentTypes
  BY DEF REQ_LINUX_CLAYMORE, AgentTypes, REQ_INVALID, REQ_WINDOW_CLAYMORE
<1>8. /\ table' = mysql_insert_fd(table, mac, e.fd, REQ_LINUX_CLAYMORE, "ok", "ok").table
      /\ announced' = [announced EXCEPT ![e.fd] = @ \cup {mac}]
  BY <1>1, <1>3, <1>5
<1>9. Routing!Claim(e.fd, mac)
  BY <1>2, <1>6, <1>7, <1>8, InsertClaims
<1>10. Sent' = Routing!Nothing
  BY <1>2 DEF Sent, Routing!Nothing, Routing!None
<1>11. Serving' = Serving
  OBVIOUS
<1>12. QED
  BY <1>6, <1>9, <1>10, <1>11 DEF Routing!Announce

(* A user's packet is a command for the peer its mac leads to.             *)
LEMMA UxStep ==
    ASSUME TypeOK, TypeOK', BatchLive, Serving, Serving', NEW e \in batch, e.fd # Listener,
           NEW n, NEW json \in Packets, json # NULL, UxCommand(e, n, json)
    PROVE  \E m \in Macs : Routing!Command(e.fd, m)
<1> DEFINE s == parse_json_cmd(json, session)
           tab(q) == mysql_insert_fd(table, UX_SESSION, e.fd, REQ_UX, q[1], q[2]).table
<1>0. ~ \E t : Die(t)
  BY DEF Die, Serving
<1>1. PICK q \in QueryRuns(3), mac \in Deref(s.miner_mac) :
        LET to == mysql_select_fd(tab(q), mac, q[3]) IN
        /\ table' = tab(q)
        /\ \/ UxDone(e, n, json, s, mac, q, "notfound", to, 0)
           \/ to >= 0 /\ UxSend(e, n, json, s, mac, q, to)
  BY <1>0 DEF UxCommand
<1> DEFINE to == mysql_select_fd(tab(q), mac, q[3])
<1>2. PICK ret \in {-1, 0, PARTIAL, FULL} : \E branch :
        /\ UxDone(e, n, json, s, mac, q, branch, to, ret)
        /\ ret > 0 => to >= 0
  BY <1>1 DEF UxSend, PARTIAL, FULL
<1>3. /\ fwd' # NoFwd /\ fwd'.mac = mac /\ fwd'.fd = to /\ fwd'.ret = ret
      /\ link' = LinkAfter(q, 3)
      /\ taint' = taint \cup TaintOf(q, 3, s.miner_mac = Wild)
      /\ announced' = [announced EXCEPT ![e.fd] = @ \cup {UX_SESSION}]
  <2>1. PICK branch : UxDone(e, n, json, s, mac, q, branch, to, ret)
    BY <1>2
  <2>2. fwd' = [branch |-> branch, json |-> json, mac |-> mac, fd |-> to,
                ret |-> ret, sequence |-> s.sequence]
    BY <2>1 DEF UxDone
  <2> HIDE DEF to, s
  <2>3. fwd' # NoFwd
    BY <2>2 DEF NoFwd
  <2>4. QED
    BY <2>1, <2>2, <2>3 DEF UxDone
<1>4. s.miner_mac # Wild /\ LinkAfter(q, 3) = "up" /\ \A i \in 1..3 : q[i] # "fail"
  BY <1>3 DEF TaintOf, Serving
<1>5. \A i \in 1..3 : q[i] = "ok"
  BY <1>4, CleanQueries
<1>6. q[1] = "ok" /\ q[2] = "ok"
  BY <1>5
<1>7. mac \in Macs
  BY ParsedSession DEF Deref
<1>8. REQ_UX \in AgentTypes /\ UX_SESSION \in Macs
  BY TableAssumption DEF REQ_UX, AgentTypes, REQ_INVALID, REQ_WINDOW_CLAYMORE
<1>9. table' = mysql_insert_fd(table, UX_SESSION, e.fd, REQ_UX, "ok", "ok").table
  BY <1>1, <1>6
<1>10. \A f \in Fds : fdtab'[f] = "sock" <=> fdtab[f] = "sock"
  BY <1>0, UxKeepsSockets
<1>11. Routing!Claim(e.fd, UX_SESSION)
  BY <1>3, <1>8, <1>9, <1>10, InsertClaims
<1>12. \/ Sent' = Routing!Nothing
       \/ Dir'[mac] # -1 /\ Sent' = [name |-> mac, to |-> Dir'[mac]]
  <2>1. CASE ~ (ret > 0)
    BY <1>3, <2>1 DEF Sent, Routing!Nothing, Routing!None
  <2>2. CASE ret > 0
    <3>1. to >= 0 /\ to = mysql_select_fd(table', mac, q[3])
      BY <1>1, <1>2, <2>2
    <3> HIDE DEF to
    <3>2. table'[mac] # NoRow /\ to = table'[mac].fd
      BY <1>7, <3>1, SelectFdRow DEF TypeOK, Tables
    <3>3. Dir'[mac] = to
      BY <1>7, <3>2 DEF Dir
    <3>4. to # -1
      BY <1>7, <3>2, TableAssumption DEF TypeOK, Row
    <3>5. Sent' = [name |-> mac, to |-> to]
      BY <1>3, <2>2 DEF Sent
    <3>6. QED
      BY <3>3, <3>4, <3>5
  <2>3. QED
    BY <2>1, <2>2
<1>13. Serving' = Serving
  OBVIOUS
<1>14. QED
  BY <1>7, <1>11, <1>12, <1>13 DEF Routing!Command, Routing!None

-----------------------------------------------------------------------------

(* Trust is lost for good within a process: taints stay, and only a start  *)
(* brings the link up.                                                     *)
LEMMA TrustReturns ==
    ASSUME TypeOK, ~ Serving, Serving', [Next]_vars
    PROVE  Startup
<1>1. link # "up" \/ taint # {}
  BY DEF Serving
<1>2. link' = "up" /\ taint' = {}
  BY DEF Serving
<1>3. ~ UNCHANGED vars
  BY <1>1, <1>2 DEF vars
<1>4. ~ Poll /\ ~ Connect /\ ~ AbortConnect
  BY <1>1, <1>2 DEF Poll, Connect, AbortConnect
<1>5. ASSUME NEW f \in Fds, NEW c \in Cells, PeerSend(f, c) PROVE FALSE
  BY <1>1, <1>2, <1>5 DEF PeerSend
<1>6. ASSUME NEW f \in Fds, PeerClose(f) \/ PeerReset(f) PROVE FALSE
  BY <1>1, <1>2, <1>6 DEF PeerClose, PeerReset, PeerEnds
<1>7. ASSUME NEW e \in batch, Serve(e) PROVE FALSE
  <2>1. ~ \E t : Die(t)
    BY <1>2 DEF Die
  <2>2. ASSUME NEW n \in Nat, NEW q, link' = LinkAfter(q, n) PROVE link = "up"
    BY <1>2, <2>2 DEF LinkAfter
  <2>3. ASSUME NEW n, NEW json, UxCommand(e, n, json) PROVE FALSE
    <3>1. taint \subseteq taint' /\ \E q : link' = LinkAfter(q, 3)
      BY <2>1, <2>3 DEF UxCommand, UxSend, UxDone
    <3>2. QED
      BY <1>1, <1>2, <2>2, <3>1
  <2>4. ASSUME NEW n, NEW json, AgentHello(e, n, json) PROVE FALSE
    <3>1. taint \subseteq taint' /\ \E q : link' = LinkAfter(q, 2)
      BY <2>1, <2>4 DEF AgentHello
    <3>2. QED
      BY <1>1, <1>2, <2>2, <3>1
  <2>5. ASSUME RecvEof(e) PROVE FALSE
    <3>1. taint \subseteq taint' /\ \E q : link' = LinkAfter(q, 1)
      BY <2>5 DEF RecvEof
    <3>2. QED
      BY <1>1, <1>2, <2>2, <3>1
  <2>6. ASSUME link' = link, taint' = taint PROVE FALSE
    BY <1>1, <1>2, <2>6
  <2>7. QED
    BY <1>7, <2>1, <2>3, <2>4, <2>5, <2>6
       DEF Serve, PeerError, AcceptAgain, AcceptDies, Accept, RecvAgain, RecvError,
           RecvPacket, RecvMalformed, RecvInvalid
<1>8. QED
  BY <1>3, <1>4, <1>5, <1>6, <1>7 DEF Next, ServeSome

LEMMA RoutingStep ==
    ASSUME TypeOK, TypeOK', BatchLive, DownIsEmpty, NoStrayClaims, [Next]_vars
    PROVE  [Routing!RoutingNext]_(Routing!routingVars)
<1>1. CASE ~ Serving /\ ~ Serving'
  <2>1. Present' = Present /\ Claims' = Claims /\ Dir' = Dir /\ Sent' = Sent
    BY <1>1 DEF Present, Claims, Dir, Sent
  <2>2. Serving' = Serving
    BY <1>1, Zenon DEF Serving
  <2>3. QED
    BY <2>1, <2>2 DEF Routing!routingVars
<1>2. CASE Serving /\ ~ Serving'
  <2>1. /\ Present' = {} /\ Claims' = Routing!NoClaim
        /\ Dir' = Routing!Empty /\ Sent' = Routing!Nothing
    BY <1>2 DEF Present, Claims, Dir, Sent, Routing!NoClaim, Routing!Empty, Routing!Nothing,
                Routing!None
  <2>2. Serving' = FALSE
    BY <1>2 DEF Serving
  <2>3. Routing!GiveUp
    BY <1>2, <2>1, <2>2 DEF Routing!GiveUp
  <2>4. QED
    BY <2>3 DEF Routing!RoutingNext
<1>3. CASE ~ Serving /\ Serving'
  <2>1. Startup
    BY <1>3, TrustReturns
  <2>2. \A m \in Macs : table'[m] = NoRow
    BY <1>3, <2>1 DEF Startup, Serving
  <2>3. fwd' = NoFwd /\ \A f \in Fds : fdtab'[f] = "free" /\ announced'[f] = {}
    BY <2>1 DEF Startup, DownIsEmpty, sockVars
  <2>4. Present' = Present /\ Claims' = Claims /\ Dir' = Dir /\ Sent' = Sent
    <3>1. Present' = Present
      BY <1>3, <2>3 DEF Present
    <3>2. Claims' = Claims
      BY <1>3, <2>3 DEF Claims
    <3>3. Dir' = Dir
      BY <1>3, <2>2 DEF Dir
    <3>4. Sent' = Sent
      BY <1>3, <2>3 DEF Sent
    <3>5. QED
      BY <3>1, <3>2, <3>3, <3>4
  <2>5. Serving' = TRUE
    BY <1>3 DEF Serving
  <2>6. Routing!Begin
    BY <1>3, <2>4, <2>5 DEF Routing!Begin
  <2>7. QED
    BY <2>6 DEF Routing!RoutingNext
<1>4. CASE Serving /\ Serving'
  <2>1. CASE UNCHANGED vars
    BY <1>4, <2>1, QuietStep DEF vars, sockVars
  <2>2. CASE Startup
    BY <1>4, <2>2 DEF Startup, DownIsEmpty, Serving
  <2>3. CASE Poll \/ Connect \/ AbortConnect
    BY <1>4, <2>3, QuietStep DEF Poll, Connect, AbortConnect, sockVars
  <2>4. ASSUME NEW f \in Fds, NEW c \in Cells, PeerSend(f, c)
        PROVE  [Routing!RoutingNext]_(Routing!routingVars)
    BY <1>4, <2>4, QuietStep DEF PeerSend
  <2>5. ASSUME NEW f \in Fds, PeerClose(f) \/ PeerReset(f)
        PROVE  [Routing!RoutingNext]_(Routing!routingVars)
    BY <1>4, <2>5, QuietStep DEF PeerClose, PeerReset, PeerEnds
  <2>6. ASSUME NEW e \in batch, Serve(e)
        PROVE  [Routing!RoutingNext]_(Routing!routingVars)
    <3>1. ~ \E t : Die(t)
      BY <1>4 DEF Die, Serving
    <3>2. CASE AcceptAgain(e) \/ RecvAgain(e)
      BY <1>4, <3>2, QuietStep DEF AcceptAgain, RecvAgain, sockVars
    <3>3. CASE Accept(e)
      BY <1>4, <3>3, AcceptStep DEF Routing!RoutingNext
    <3>4. CASE e.fd # Listener /\ RecvEof(e)
      <4>1. e.fd \in Fds
        BY <3>4 DEF TypeOK
      <4>2. QED
        BY <1>4, <2>6, <3>4, <4>1, EofStep DEF Routing!RoutingNext
    <3>5. CASE e.fd # Listener /\ RecvPacket(e)
      <4>1. e.fd \in Fds
        BY <3>5 DEF TypeOK
      <4>2. PICK n \in 1..Len(inbox[e.fd]) :
              LET json == CellJson(inbox[e.fd], n) IN
              /\ json # NULL
              /\ RecvInvalid(e, n, json) \/ AgentHello(e, n, json) \/ UxCommand(e, n, json)
        BY <3>1, <3>5 DEF RecvPacket, RecvMalformed
      <4> DEFINE json == CellJson(inbox[e.fd], n)
      <4>3. json \in Packets /\ json # NULL
        BY <4>1, <4>2, CellJsonPacket
      <4> HIDE DEF json
      <4>4. CASE RecvInvalid(e, n, json)
        BY <1>4, <4>4, QuietStep DEF RecvInvalid
      <4>5. CASE AgentHello(e, n, json)
        <5>1. \E m \in Macs : Routing!Announce(e.fd, m)
          BY <1>4, <2>6, <3>5, <4>3, <4>5, HelloStep
        <5>2. QED
          BY <4>1, <5>1 DEF Routing!RoutingNext
      <4>6. CASE UxCommand(e, n, json)
        <5>1. \E m \in Macs : Routing!Command(e.fd, m)
          BY <1>4, <2>6, <3>5, <4>3, <4>6, UxStep
        <5>2. QED
          BY <4>1, <5>1 DEF Routing!RoutingNext
      <4>7. QED
        BY <4>2, <4>4, <4>5, <4>6 DEF json
    <3>6. QED
      BY <2>6, <3>1, <3>2, <3>3, <3>4, <3>5 DEF Serve, PeerError, AcceptDies, RecvError
  <2>7. QED
    BY <2>1, <2>2, <2>3, <2>4, <2>5, <2>6 DEF Next, ServeSome
<1>5. QED
  BY <1>1, <1>2, <1>3, <1>4

(* The server implements the directory: for any peers, packets and fd      *)
(* numbers, while its link is up and its table in no doubt, a mac leads to *)
(* the connected peer that announced it last and a command goes there.     *)
THEOREM RoutingRefined == Spec => ImplementsRouting
<1>1. Init => Routing!RoutingInit
  BY DEF Init, Routing!RoutingInit, Serving, Present, Claims, Dir, Sent, Routing!NoClaim,
         Routing!Empty, Routing!Nothing, Routing!None
<1>2. Init => DownIsEmpty /\ NoStrayClaims
  BY DEF Init, DownIsEmpty, NoStrayClaims
<1>3. TypeOK /\ DownIsEmpty /\ [Next]_vars => DownIsEmpty'
  BY DownStep
<1>4. TypeOK /\ BatchLive /\ NoStrayClaims /\ [Next]_vars => NoStrayClaims'
  BY ClaimsStep
<1>5. TypeOK /\ TypeOK' /\ BatchLive /\ DownIsEmpty /\ NoStrayClaims /\ [Next]_vars
        => [Routing!RoutingNext]_(Routing!routingVars)
  BY RoutingStep
<1>6. QED
  BY <1>1, <1>2, <1>3, <1>4, <1>5, TypeCorrect, EventsStayLive, PTL
     DEF Spec, ImplementsRouting, Routing!RoutingSpec

=============================================================================
