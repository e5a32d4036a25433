---------------------------- MODULE SurvivalProofs ---------------------------
(***************************************************************************)
(* The proof that the server survives well-behaved peers.                  *)
(***************************************************************************)
EXTENDS CmdAgentProofs, WellBehaved, FiniteSetTheorems

Sockets == {f \in Fds : fdtab[f] = "sock"}
OpenFiles == {f \in Fds : fdtab[f] = "file"}

(* The cells that peers sent and nobody read, by number and place.         *)
Unread == {p \in Fds \X Nat : p[2] \in 1..Len(inbox[p[1]])}

(* Some miner has a row.                                                   *)
Known == IF \E m \in Macs \ {UX_SESSION} : table[m] # NoRow THEN 1 ELSE 0

NoResets ==
    /\ \A f \in Fds : remote[f] \in {"open", "closed"}
    /\ \A e \in batch : "ERR" \notin e.events

(* A number is in use for a connection that was made,                      *)
SocketBudget == Cardinality(Sockets) + backlog <= conns

(* (accept takes a number before it looks whether anybody still waits, and *)
(* the connection that its event was reported for has none yet)            *)
AcceptBudget ==
    (\E e \in batch : e.fd = Listener) => Cardinality(Sockets) + 1 <= conns

(* or for a packet that was read, besides one that announced a miner.      *)
CellBudget ==
    /\ IsFiniteSet(Unread)
    /\ Cardinality(Unread) + Cardinality(OpenFiles) + Known <= cells

(* The inductive invariant that Survives rests on.                         *)
Budgets == NoResets /\ SocketBudget /\ AcceptBudget /\ CellBudget

-----------------------------------------------------------------------------
(* Counting.                                                               *)

LEMMA OneLess ==
    ASSUME NEW S, IsFiniteSet(S), NEW x \in S, NEW T, T \subseteq S \ {x}
    PROVE  /\ IsFiniteSet(T)
           /\ Cardinality(T) \in Nat /\ Cardinality(S) \in Nat
           /\ Cardinality(T) + 1 <= Cardinality(S)
<1>1. IsFiniteSet(S \ {x}) /\ Cardinality(S \ {x}) = Cardinality(S) - 1
  BY FS_RemoveElement
<1>2. IsFiniteSet(T) /\ Cardinality(T) <= Cardinality(S \ {x})
  BY <1>1, FS_Subset
<1>3. Cardinality(T) \in Nat /\ Cardinality(S) \in Nat
  BY <1>2, FS_CardinalityType
<1>4. QED
  BY <1>1, <1>2, <1>3

LEMMA NumbersFinite ==
    /\ IsFiniteSet(Sockets) /\ IsFiniteSet(OpenFiles) /\ IsFiniteSet(Free)
    /\ Cardinality(Sockets) \in Nat /\ Cardinality(OpenFiles) \in Nat
    /\ Cardinality(Free) \in Nat /\ Cardinality(Fds) \in Nat
<1>1. Sockets \subseteq Fds /\ OpenFiles \subseteq Fds /\ Free \subseteq Fds
  BY DEF Sockets, OpenFiles, Free
<1>2. IsFiniteSet(Fds)
  BY WellBehavedAssumption
<1>3. IsFiniteSet(Sockets) /\ IsFiniteSet(OpenFiles) /\ IsFiniteSet(Free)
  BY <1>1, <1>2, FS_Subset
<1>4. QED
  BY <1>2, <1>3, FS_CardinalityType

(* Every number is a socket, a file or free.                               *)
LEMMA NumbersAddUp ==
    ASSUME TypeOK
    PROVE  Cardinality(Fds) =
             Cardinality(Sockets) + Cardinality(OpenFiles) + Cardinality(Free)
<1> DEFINE Used == Sockets \cup OpenFiles
<1>1. Sockets \cap OpenFiles = {} /\ Used \cap Free = {} /\ Fds = Used \cup Free
  BY DEF Sockets, OpenFiles, Free, TypeOK
<1>2. /\ IsFiniteSet(Used)
      /\ Cardinality(Used) = Cardinality(Sockets) + Cardinality(OpenFiles)
                               - Cardinality(Sockets \cap OpenFiles)
  BY NumbersFinite, FS_Union
<1>3. Cardinality(Used \cup Free) = Cardinality(Used) + Cardinality(Free)
                                      - Cardinality(Used \cap Free)
  BY <1>2, NumbersFinite, FS_Union
<1>4. Cardinality(Sockets \cap OpenFiles) = 0 /\ Cardinality(Used \cap Free) = 0
  BY <1>1, FS_EmptySet, Zenon
<1>5. Cardinality(Fds) = Cardinality(Used \cup Free)
  BY <1>1, Zenon
<1> HIDE DEF Used
<1>6. QED
  BY <1>2, <1>3, <1>4, <1>5, NumbersFinite

(* An event of the listening socket finds a number that is free.           *)
LEMMA RoomToAccept ==
    ASSUME TypeOK, Budgets, NEW e \in batch, e.fd = Listener
    PROVE  Free # {}
<1>1. Cardinality(Unread) \in Nat /\ Known \in Nat
  BY FS_CardinalityType DEF Budgets, CellBudget, Known
<1>2. Cardinality(Sockets) < MaxConns /\ Cardinality(OpenFiles) <= MaxCells
  BY <1>1, NumbersFinite, Bounds DEF Budgets, AcceptBudget, CellBudget, TypeOK
<1>3. MaxConns + MaxCells <= Cardinality(Fds)
  BY WellBehavedAssumption
<1>4. Cardinality(Free) > 0
  BY <1>2, <1>3, NumbersAddUp, NumbersFinite, Bounds
<1>5. QED
  BY <1>4, FS_EmptySet

(* A command that finds its miner finds two.                               *)
LEMMA RoomToBuild ==
    ASSUME TypeOK, Budgets, Unread # {}, Known = 1
    PROVE  \E f, g \in Free : f # g
<1>1. Cardinality(Unread) \in Nat /\ Cardinality(Unread) # 0
  BY FS_CardinalityType, FS_EmptySet DEF Budgets, CellBudget
<1>2. Cardinality(OpenFiles) + 2 <= MaxCells /\ Cardinality(Sockets) <= MaxConns
  BY <1>1, NumbersFinite, Bounds DEF Budgets, SocketBudget, CellBudget, TypeOK
<1>3. MaxConns + MaxCells <= Cardinality(Fds)
  BY WellBehavedAssumption
<1>4. Cardinality(Free) >= 2
  BY <1>2, <1>3, NumbersAddUp, NumbersFinite, Bounds
<1>5. PICK f \in Free : TRUE
  BY <1>4, FS_EmptySet
<1>6. IsFiniteSet(Free \ {f}) /\ Cardinality(Free \ {f}) = Cardinality(Free) - 1
  BY <1>5, NumbersFinite, FS_RemoveElement
<1>7. Free \ {f} # {}
  BY <1>4, <1>6, NumbersFinite, FS_EmptySet
<1>8. QED
  BY <1>5, <1>7

-----------------------------------------------------------------------------
(* Nothing a well-behaved peer does ends the process.                      *)

(* The fields of session_t once a proper command is parsed.                *)
LEMMA ProperCommand ==
    ASSUME NEW json, Proper(json), get_agent_type(json) = REQ_UX
    PROVE  LET s == parse_json_cmd(json, session) IN
           /\ s.miner_mac \in Macs \ {UX_SESSION}
           /\ s.cmd_type = "file-download" /\ s.cmd_type # Wild
           /\ s.path \in Files \ (ClobberFiles \cup {Wild})
           /\ s.path_install \notin {NULL, Wild}
  BY DEF Proper, States, parse_json_cmd, Assign

LEMMA UxRowOnly ==
    ASSUME NEW tab \in Tables, NEW f \in Fds, NEW ins, NEW upd
    PROVE  LET t == mysql_insert_fd(tab, UX_SESSION, f, REQ_UX, ins, upd).table IN
           t \in Tables /\ \A m \in Macs : m # UX_SESSION => t[m] = tab[m]
<1> DEFINE row == [fd |-> f, agent_type |-> REQ_UX]
<1>1. row \in Row /\ UX_SESSION \in Macs
  BY TableAssumption DEF Row, REQ_UX, AgentTypes, REQ_INVALID, REQ_WINDOW_CLAYMORE
<1>2. QED
  BY <1>1 DEF mysql_insert_fd, Insert, Update, Tables

(* A lookup that succeeds in the table a command leaves behind, of a mac   *)
(* that is a miner's, found a row that was there before.                   *)
LEMMA MinerWasKnown ==
    ASSUME TypeOK, NEW f \in Fds, NEW ins, NEW upd, NEW o, NEW mac \in Macs \ {UX_SESSION},
           NEW t, t = mysql_insert_fd(table, UX_SESSION, f, REQ_UX, ins, upd).table,
           mysql_select_fd(t, mac, o) >= 0
    PROVE  Known = 1 /\ mysql_select_fd(t, mac, o) \in Fds
<1>1. UX_SESSION \in Macs /\ REQ_UX \in AgentTypes /\ table \in Tables
  BY TableAssumption DEF REQ_UX, AgentTypes, REQ_INVALID, REQ_WINDOW_CLAYMORE, TypeOK, Tables
<1>2. /\ t \in Tables
      /\ \A m \in Macs : m # UX_SESSION => t[m] = table[m]
  BY <1>1, UxRowOnly
<1>3. t[mac] # NoRow /\ mysql_select_fd(t, mac, o) = t[mac].fd
  BY DEF mysql_select_fd
<1>4. t[mac].fd \in Fds /\ table[mac] # NoRow
  BY <1>2, <1>3 DEF Tables, Row
<1>5. QED
  BY <1>2, <1>3, <1>4 DEF Known

(* What a packet comes to: it is read, and a file is left open at most.    *)
Handled(e, n) ==
    /\ Keep(e, n, fd_status_R)
    /\ remote' = remote
    /\ \/ fdtab' = fdtab
       \/ Free # {} /\ Known = 1 /\ fdtab' = [fdtab EXCEPT ![LowestFree] = "file"]

LEMMA CommandHandled ==
    ASSUME TypeOK, Budgets, NEW e, e.fd \in Fds, NEW n \in 1..Len(inbox[e.fd]),
           NEW json, Proper(json), UxCommand(e, n, json)
    PROVE  Handled(e, n)
<1> DEFINE s == parse_json_cmd(json, session)
<1>1. /\ s.miner_mac \in Macs \ {UX_SESSION}
      /\ s.cmd_type = "file-download" /\ s.cmd_type # Wild
      /\ s.path \in Files \ (ClobberFiles \cup {Wild})
      /\ s.path_install \notin {NULL, Wild}
  BY ProperCommand DEF UxCommand
<1>2. s.miner_mac # Wild /\ Deref(s.miner_mac) = {s.miner_mac}
  BY <1>1, CmdAssumption DEF Deref
<1> DEFINE tab(q) == mysql_insert_fd(table, UX_SESSION, e.fd, REQ_UX, q[1], q[2]).table
<1>3. PICK q \in QueryRuns(3) :
        LET t  == tab(q)
            to == mysql_select_fd(t, s.miner_mac, q[3])
        IN  \/ /\ UxDone(e, n, json, s, s.miner_mac, q, "notfound", to, 0)
               /\ UNCHANGED <<fdtab, remote>>
            \/ /\ to >= 0
               /\ UxSend(e, n, json, s, s.miner_mac, q, to)
            \/ to >= 0 /\ (MayCrash(s) \/ UxSigpipe(s, to))
  BY <1>2 DEF UxCommand
<1> DEFINE to == mysql_select_fd(tab(q), s.miner_mac, q[3])
<1> HIDE DEF s
<1>4. to >= 0 => Known = 1 /\ to \in Fds
  BY <1>1, MinerWasKnown
<1> HIDE DEF to, tab
<1>5. Unread # {}
  <2>1. <<e.fd, n>> \in Unread
    BY DEF Unread
  <2>2. QED
    BY <2>1
<1>6. to >= 0 => ~ MayCrash(s)
  <2>1. SUFFICES ASSUME to >= 0 PROVE ~ MayCrash(s)
    OBVIOUS
  <2>2. \E f, g \in Free : f # g
    BY <1>4, <1>5, <2>1, RoomToBuild
  <2>3. MayBuild(s)
    BY <1>1, <2>2 DEF MayBuild, parse_cmd_type
  <2>4. QED
    BY <1>1, <2>3 DEF MayCrash
<1>7. to >= 0 => ~ UxSigpipe(s, to)
  BY <1>4 DEF UxSigpipe, Budgets, NoResets
<1>8. CASE /\ UxDone(e, n, json, s, s.miner_mac, q, "notfound", to, 0)
           /\ UNCHANGED <<fdtab, remote>>
  BY <1>8 DEF UxDone, Handled
<1>9. CASE to >= 0 /\ UxSend(e, n, json, s, s.miner_mac, q, to)
  <2>1. Free # {} /\ fdtab' = [fdtab EXCEPT ![LowestFree] = "file"]
    BY <1>9 DEF UxSend, MayBuild
  <2>2. remote' = remote /\ Keep(e, n, fd_status_R)
    BY <1>4, <1>9 DEF UxSend, UxDone, Budgets, NoResets
  <2>3. QED
    BY <1>4, <1>9, <2>1, <2>2 DEF Handled
<1>10. QED
  BY <1>3, <1>6, <1>7, <1>8, <1>9 DEF to, tab

(* An event is served without ending the process.                          *)
LEMMA ServeLives ==
    ASSUME TypeOK, Budgets, NEW e \in batch, Serve(e)
    PROVE  \/ AcceptAgain(e) \/ (e.fd = Listener /\ Accept(e))
           \/ /\ e.fd \in Fds
              /\ \/ RecvAgain(e) \/ RecvEof(e)
                 \/ \E n \in 1..Len(inbox[e.fd]) : Handled(e, n)
<1>1. ~ PeerError(e)
  BY DEF PeerError, Budgets, NoResets
<1>2. e.fd = Listener => ~ AcceptDies
  <2>1. "accept" \notin PeerFaults
    BY WellBehavedAssumption
  <2>2. e.fd = Listener => Free # {}
    BY RoomToAccept
  <2>3. Free # {} => LowestFree \in Fds
    BY LowestFreeIsFree
  <2>4. ASSUME NEW f \in Fds PROVE ~ (f >= MAXFDS)
    <3>1. f \in Nat /\ MAXFDS \in Nat
      BY TableAssumption, CmdAssumption
    <3>2. f < MAXFDS
      BY WellBehavedAssumption
    <3>3. QED
      BY <3>1, <3>2
  <2>5. QED
    BY <2>1, <2>2, <2>3, <2>4 DEF AcceptDies
<1>3. ASSUME e.fd # Listener, NEW n \in 1..Len(inbox[e.fd])
      PROVE  /\ e.fd \in Fds
             /\ Proper(CellJson(inbox[e.fd], n))
  <2>1. e.fd \in Fds
    BY <1>3 DEF TypeOK
  <2>2. inbox[e.fd] \in Seq(Cells)
    BY <2>1 DEF TypeOK
  <2>3. inbox[e.fd][1] \in Cells
    BY <1>3, <2>2
  <2>4. inbox[e.fd][1].part = "whole" /\ Proper(inbox[e.fd][1].json)
    BY <2>3, WellBehavedAssumption
  <2>5. QED
    BY <2>1, <2>4 DEF CellJson
<1>4. ASSUME e.fd # Listener, RecvPacket(e)
      PROVE  \E n \in 1..Len(inbox[e.fd]) : Handled(e, n)
  <2>1. PICK n \in 1..Len(inbox[e.fd]) :
          LET json == CellJson(inbox[e.fd], n) IN
          \/ RecvMalformed(e, n)
          \/ RecvInvalid(e, n, json) \/ AgentHello(e, n, json) \/ UxCommand(e, n, json)
    BY <1>4 DEF RecvPacket
  <2> DEFINE json == CellJson(inbox[e.fd], n)
  <2>2. e.fd \in Fds /\ Proper(json)
    BY <1>3, <1>4
  <2>3. ~ RecvMalformed(e, n)
    BY <2>2 DEF RecvMalformed, Proper
  <2> HIDE DEF json
  <2>4. CASE RecvInvalid(e, n, json)
    BY <2>4 DEF RecvInvalid, Handled
  <2>5. CASE AgentHello(e, n, json)
    <3>1. HasStr(json, "miner_mac")
      BY <2>2, <2>5 DEF AgentHello, Proper
    <3>2. parse_json_agent(json, session).miner_mac # Wild
      <4>1. json \in Packets
        BY <1>4, <2>2, CellJsonPacket DEF json, Proper
      <4>2. Str(json, "miner_mac") \in Macs
        BY <2>2, <3>1, <4>1, CmdAssumption DEF Proper
      <4>3. parse_json_agent(json, session).miner_mac = Str(json, "miner_mac")
        BY <3>1 DEF parse_json_agent, Assign, TypeOK, SessionType
      <4>4. QED
        BY <4>2, <4>3, CmdAssumption
    <3>3. QED
      BY <2>5, <3>2 DEF AgentHello, Handled
  <2>6. CASE UxCommand(e, n, json)
    BY <2>2, <2>6, CommandHandled
  <2>7. QED
    BY <2>1, <2>3, <2>4, <2>5, <2>6 DEF json
<1>5. e.fd # Listener => ~ RecvError(e)
  BY DEF RecvError, Budgets, NoResets, TypeOK
<1>6. e.fd # Listener => e.fd \in Fds
  BY DEF TypeOK
<1>7. QED
  BY <1>1, <1>2, <1>4, <1>5, <1>6 DEF Serve

-----------------------------------------------------------------------------
(* The budgets are kept.                                                   *)

LEMMA CellBudgetKept ==
    ASSUME CellBudget, Unread' \subseteq Unread, OpenFiles' \subseteq OpenFiles,
           Known' <= Known, cells' = cells, TypeOK
    PROVE  CellBudget'
<1>1. IsFiniteSet(Unread') /\ Cardinality(Unread') <= Cardinality(Unread)
  BY FS_Subset DEF CellBudget
<1>2. Cardinality(Unread') \in Nat /\ Cardinality(Unread) \in Nat
  BY <1>1, FS_CardinalityType DEF CellBudget
<1>3. Known \in Nat /\ Known' \in Nat /\ cells \in Nat
  BY Bounds DEF Known, TypeOK
<1>4. Cardinality(OpenFiles') <= Cardinality(OpenFiles) /\ Cardinality(OpenFiles') \in Nat
  BY NumbersFinite, FS_Subset, FS_CardinalityType
<1>5. QED
  BY <1>1, <1>2, <1>3, <1>4, NumbersFinite DEF CellBudget

LEMMA AcceptBudgetKept ==
    ASSUME AcceptBudget, batch' \subseteq batch, Sockets' \subseteq Sockets,
           conns \in Nat, conns' \in Nat, conns <= conns'
    PROVE  AcceptBudget'
<1>1. Cardinality(Sockets') <= Cardinality(Sockets) /\ Cardinality(Sockets') \in Nat
  BY NumbersFinite, FS_Subset, FS_CardinalityType
<1>2. QED
  BY <1>1, NumbersFinite DEF AcceptBudget

(* A packet that was read leaves the sum no larger.                        *)
LEMMA HandledBudgets ==
    ASSUME TypeOK, Budgets, NEW e \in batch, e.fd \in Fds,
           NEW n \in 1..Len(inbox[e.fd]), Handled(e, n)
    PROVE  Budgets'
<1> DEFINE x == <<e.fd, Len(inbox[e.fd])>>
<1>1. inbox[e.fd] \in Seq(Cells) /\ Len(inbox[e.fd]) \in Nat
  BY DEF TypeOK
<1>2. inbox' = [inbox EXCEPT ![e.fd] = SubSeq(@, n + 1, Len(@))]
  BY DEF Handled, Keep
<1>3. x \in Unread
  BY <1>1 DEF Unread
<1>4. Len(inbox'[e.fd]) = Len(inbox[e.fd]) - n
  BY <1>1, <1>2 DEF TypeOK
<1>5. Unread' \subseteq Unread \ {x}
  <2>1. SUFFICES ASSUME NEW p \in Unread' PROVE p \in Unread \ {x}
    OBVIOUS
  <2>2. p \in Fds \X Nat /\ p[2] \in 1..Len(inbox'[p[1]])
    BY <2>1 DEF Unread
  <2>3. CASE p[1] = e.fd
    <3>1. p[2] \in 1..Len(inbox[p[1]]) /\ p[2] # Len(inbox[e.fd])
      BY <1>1, <1>4, <2>2, <2>3
    <3>2. QED
      BY <2>2, <3>1 DEF Unread
  <2>4. CASE p[1] # e.fd
    <3>1. inbox'[p[1]] = inbox[p[1]]
      BY <1>2, <2>2, <2>4 DEF TypeOK
    <3>2. QED
      BY <2>2, <2>4, <3>1 DEF Unread
  <2>5. QED
    BY <2>3, <2>4
<1> HIDE DEF x
<1>6. /\ IsFiniteSet(Unread')
      /\ Cardinality(Unread') \in Nat /\ Cardinality(Unread) \in Nat
      /\ Cardinality(Unread') + 1 <= Cardinality(Unread)
  BY <1>3, <1>5, OneLess DEF Budgets, CellBudget
<1>7. Known \in {0, 1} /\ Known' \in {0, 1}
  BY DEF Known
<1>8. cells' = cells /\ conns' = conns /\ backlog' = backlog
      /\ cells \in Nat /\ conns \in Nat
      /\ batch' \subseteq batch /\ remote' = remote
  BY Bounds DEF Handled, Keep, countVars, TypeOK
<1>9. NoResets'
  BY <1>8 DEF Budgets, NoResets
<1>10. CASE fdtab' = fdtab
  <2>1. Sockets' = Sockets /\ OpenFiles' = OpenFiles
    BY <1>10 DEF Sockets, OpenFiles
  <2>2. CellBudget'
    BY <1>6, <1>7, <1>8, <2>1, NumbersFinite DEF Budgets, CellBudget
  <2>3. SocketBudget'
    BY <1>8, <2>1 DEF Budgets, SocketBudget
  <2>4. AcceptBudget'
    BY <1>8, <2>1, AcceptBudgetKept DEF Budgets
  <2>5. QED
    BY <1>9, <2>2, <2>3, <2>4 DEF Budgets
<1>11. CASE Free # {} /\ Known = 1 /\ fdtab' = [fdtab EXCEPT ![LowestFree] = "file"]
  <2>1. LowestFree \in Fds /\ fdtab[LowestFree] = "free"
    BY <1>11, LowestFreeIsFree
  <2>2. Sockets' = Sockets
    BY <1>11, <2>1 DEF Sockets, TypeOK
  <2>3. OpenFiles' = OpenFiles \cup {LowestFree} /\ LowestFree \notin OpenFiles
    BY <1>11, <2>1 DEF OpenFiles, TypeOK
  <2>4. Cardinality(OpenFiles') = Cardinality(OpenFiles) + 1
    BY <2>3, NumbersFinite, FS_AddElement
  <2>5. CellBudget'
    BY <1>6, <1>7, <1>8, <1>11, <2>4, NumbersFinite DEF Budgets, CellBudget
  <2>6. SocketBudget'
    BY <1>8, <2>2 DEF Budgets, SocketBudget
  <2>7. AcceptBudget'
    BY <1>8, <2>2, AcceptBudgetKept DEF Budgets
  <2>8. QED
    BY <1>9, <2>5, <2>6, <2>7 DEF Budgets
<1>12. QED
  BY <1>10, <1>11 DEF Handled

(* A connection moves from the queue to a socket, and no event of the      *)
(* listening socket is left in the batch.                                  *)
LEMMA AcceptBudgets ==
    ASSUME TypeOK, BatchLive, Budgets, NEW e \in batch, e.fd = Listener, Accept(e)
    PROVE  Budgets'
<1>1. LowestFree \in Fds /\ fdtab[LowestFree] = "free"
  BY LowestFreeIsFree DEF Accept
<1>2. fdtab' = [fdtab EXCEPT ![LowestFree] = "sock"]
  BY DEF Accept
<1>3. NoResets'
  BY DEF Accept, Budgets, NoResets, TypeOK
<1>4. SocketBudget'
  <2>1. Sockets' = Sockets \cup {LowestFree} /\ LowestFree \notin Sockets
    BY <1>1, <1>2 DEF Sockets, TypeOK
  <2>2. Cardinality(Sockets') = Cardinality(Sockets) + 1
    BY <2>1, NumbersFinite, FS_AddElement
  <2>3. backlog' = backlog - 1 /\ conns' = conns /\ backlog \in Nat /\ conns \in Nat
    BY Bounds DEF Accept, countVars, TypeOK
  <2>4. QED
    BY <2>2, <2>3, NumbersFinite DEF Budgets, SocketBudget
<1>5. CellBudget'
  <2>1. OpenFiles' = OpenFiles
    BY <1>1, <1>2 DEF OpenFiles, TypeOK
  <2>2. Unread' \subseteq Unread
    BY DEF Unread, Accept, TypeOK
  <2>3. Known' = Known /\ cells' = cells /\ Known \in Int
    BY DEF Known, Accept, countVars
  <2>4. QED
    BY <2>1, <2>2, <2>3, CellBudgetKept DEF Budgets
<1>6. AcceptBudget'
  <2>1. batch' = batch \ {e}
    BY DEF Accept
  <2>2. ~ \E d \in batch' : d.fd = Listener
    BY <2>1 DEF BatchLive
  <2>3. QED
    BY <2>2 DEF AcceptBudget
<1>7. QED
  BY <1>3, <1>4, <1>5, <1>6 DEF Budgets

(* A peer that leaves gives its number back, and its rows go.              *)
LEMMA EofBudgets ==
    ASSUME TypeOK, Budgets, NEW e \in batch, e.fd \in Fds, RecvEof(e)
    PROVE  Budgets'
<1>1. fdtab' = [fdtab EXCEPT ![e.fd] = "free"]
  BY DEF RecvEof
<1>2. NoResets'
  BY DEF RecvEof, Budgets, NoResets, TypeOK
<1>3. SocketBudget'
  <2>1. Sockets' \subseteq Sockets
    BY <1>1 DEF Sockets, TypeOK
  <2>2. Cardinality(Sockets') <= Cardinality(Sockets) /\ Cardinality(Sockets') \in Nat
    BY <2>1, NumbersFinite, FS_Subset, FS_CardinalityType
  <2>3. backlog' = backlog /\ conns' = conns /\ backlog \in Nat /\ conns \in Nat
    BY Bounds DEF RecvEof, countVars, TypeOK
  <2>4. QED
    BY <2>2, <2>3, NumbersFinite DEF Budgets, SocketBudget
<1>4. CellBudget'
  <2>1. OpenFiles' \subseteq OpenFiles
    BY <1>1 DEF OpenFiles, TypeOK
  <2>2. Unread' \subseteq Unread
    BY DEF Unread, RecvEof, TypeOK
  <2>3. Known' <= Known
    <3>1. PICK o : table' = mysql_delete_fd(table, e.fd, o).table
      BY DEF RecvEof
    <3>2. table \in Tables
      BY DEF TypeOK, Tables
    <3>3. \A m \in Macs : table'[m] # NoRow => table[m] # NoRow
      BY <3>1, <3>2 DEF mysql_delete_fd, DeleteWhere, Tables
    <3>4. QED
      BY <3>3 DEF Known
  <2>4. cells' = cells
    BY DEF RecvEof, countVars
  <2>5. QED
    BY <2>1, <2>2, <2>3, <2>4, CellBudgetKept DEF Budgets
<1>5. AcceptBudget'
  <2>1. Sockets' \subseteq Sockets
    BY <1>1 DEF Sockets, TypeOK
  <2>2. conns' = conns /\ conns \in Nat /\ batch' \subseteq batch
    BY Bounds DEF RecvEof, countVars, TypeOK
  <2>3. QED
    BY <2>1, <2>2, AcceptBudgetKept DEF Budgets
<1>6. QED
  BY <1>2, <1>3, <1>4, <1>5 DEF Budgets

(* A packet sent is a packet to be read.                                   *)
LEMMA SendBudgets ==
    ASSUME TypeOK, Budgets, NEW f \in Fds, NEW c \in Cells, PeerSend(f, c)
    PROVE  Budgets'
<1> DEFINE x == <<f, Len(inbox[f]) + 1>>
<1>1. inbox[f] \in Seq(Cells) /\ Len(inbox[f]) \in Nat
  BY DEF TypeOK
<1>2. inbox' = [inbox EXCEPT ![f] = Append(@, c)]
  BY DEF PeerSend
<1>3. Len(inbox'[f]) = Len(inbox[f]) + 1
  BY <1>1, <1>2 DEF TypeOK
<1>4. Unread' \subseteq Unread \cup {x}
  <2>1. SUFFICES ASSUME NEW p \in Unread', p \notin Unread PROVE p = x
    OBVIOUS
  <2>2. p \in Fds \X Nat /\ p[2] \in 1..Len(inbox'[p[1]])
    BY <2>1 DEF Unread
  <2>3. p[2] \notin 1..Len(inbox[p[1]])
    BY <2>1, <2>2 DEF Unread
  <2>4. p[1] = f
    BY <1>2, <2>2, <2>3 DEF TypeOK
  <2>5. p[2] = Len(inbox[f]) + 1
    BY <1>1, <1>3, <2>2, <2>3, <2>4
  <2>6. QED
    BY <2>2, <2>4, <2>5
<1> HIDE DEF x
<1>5. IsFiniteSet(Unread \cup {x}) /\ Cardinality(Unread \cup {x}) <= Cardinality(Unread) + 1
  <2>1. IsFiniteSet(Unread)
    BY DEF Budgets, CellBudget
  <2>2. Cardinality(Unread) \in Nat
    BY <2>1, FS_CardinalityType
  <2>3. /\ IsFiniteSet(Unread \cup {x})
        /\ Cardinality(Unread \cup {x}) =
             IF x \in Unread THEN Cardinality(Unread) ELSE Cardinality(Unread) + 1
    BY <2>1, FS_AddElement
  <2>4. QED
    BY <2>2, <2>3
<1>6. IsFiniteSet(Unread') /\ Cardinality(Unread') <= Cardinality(Unread \cup {x})
  BY <1>4, <1>5, FS_Subset
<1>7. /\ Cardinality(Unread') \in Nat /\ Cardinality(Unread) \in Nat
      /\ Cardinality(Unread \cup {x}) \in Nat
  BY <1>5, <1>6, FS_CardinalityType DEF Budgets, CellBudget
<1>8. Known' = Known /\ Known \in Nat /\ OpenFiles' = OpenFiles /\ Sockets' = Sockets
  BY DEF PeerSend, Known, OpenFiles, Sockets
<1>9. cells' = cells + 1 /\ cells \in Nat /\ UNCHANGED <<backlog, conns, remote, batch>>
  BY Bounds DEF PeerSend, TypeOK
<1>10. CellBudget'
  BY <1>5, <1>6, <1>7, <1>8, <1>9, NumbersFinite DEF Budgets, CellBudget
<1>11. SocketBudget' /\ AcceptBudget' /\ NoResets'
  BY <1>8, <1>9 DEF Budgets, SocketBudget, AcceptBudget, NoResets
<1>12. QED
  BY <1>10, <1>11 DEF Budgets

(* Steps that touch neither numbers nor packets nor the table.             *)
LEMMA BudgetsKept ==
    ASSUME TypeOK, Budgets, UNCHANGED <<fdtab, inbox, table, cells>>,
           SocketBudget', AcceptBudget', NoResets'
    PROVE  Budgets'
<1>1. Unread' = Unread /\ OpenFiles' = OpenFiles /\ Known' = Known /\ Known \in Int
  BY DEF Unread, OpenFiles, Known
<1>2. CellBudget'
  BY <1>1, CellBudgetKept DEF Budgets
<1>3. QED
  BY <1>2 DEF Budgets

LEMMA BudgetStep ==
    ASSUME TypeOK, BatchLive, Budgets, [Next]_vars
    PROVE  Budgets'
<1>1. CASE UNCHANGED vars \/ Startup \/ Poll \/ Connect \/ AbortConnect
  <2>1. UNCHANGED <<fdtab, inbox, remote, table, cells>>
    BY <1>1 DEF vars, sockVars, countVars, Startup, Poll, Connect, AbortConnect
  <2>2. Sockets' = Sockets
    BY <2>1 DEF Sockets
  <2>3. SocketBudget'
    <3>1. backlog \in Nat /\ conns \in Nat
      BY Bounds DEF TypeOK
    <3>2. \/ backlog' = backlog /\ conns' = conns
          \/ backlog' = 0 /\ conns' = conns
          \/ backlog' = backlog + 1 /\ conns' = conns + 1
          \/ backlog' = backlog - 1 /\ conns' = conns
      BY <1>1 DEF vars, countVars, Startup, listen_inet_socket, Poll, Connect, AbortConnect
    <3>3. QED
      BY <2>2, <3>1, <3>2, NumbersFinite DEF Budgets, SocketBudget
  <2>4. NoResets'
    <3>1. CASE Poll
      <4>1. \A f \in Fds : remote[f] # "reset"
        BY DEF Budgets, NoResets
      <4>2. \A f \in Fds : "ERR" \notin Events(f)
        BY <4>1 DEF Events, TypeOK
      <4>3. \A e \in ReadyEvents : "ERR" \notin e.events
        BY <4>2 DEF ReadyEvents
      <4>4. QED
        BY <2>1, <3>1, <4>3 DEF Poll, Budgets, NoResets
    <3>2. CASE ~ Poll
      BY <1>1, <2>1, <3>2 DEF vars, Startup, Connect, AbortConnect, Budgets, NoResets
    <3>3. QED
      BY <3>1, <3>2
  <2>5. AcceptBudget'
    <3>1. backlog \in Nat /\ conns \in Nat
      BY Bounds DEF TypeOK
    <3>2. CASE Poll
      <4>1. \A e \in batch' : e.fd = Listener => backlog > 0
        <5>1. Listener \notin Fds
          BY TableAssumption DEF Listener
        <5>2. QED
          BY <3>2, <5>1 DEF Poll, ReadyEvents
      <4>2. conns' = conns
        BY <3>2 DEF Poll, countVars
      <4>3. backlog > 0 => Cardinality(Sockets) + 1 <= conns
        BY <3>1, NumbersFinite DEF Budgets, SocketBudget
      <4>4. QED
        BY <2>2, <4>1, <4>2, <4>3 DEF AcceptBudget
    <3>3. CASE ~ Poll
      <4>1. batch' = batch /\ (conns' = conns \/ conns' = conns + 1)
        BY <1>1, <3>3 DEF vars, countVars, Startup, Connect, AbortConnect
      <4>2. QED
        BY <2>2, <3>1, <4>1, AcceptBudgetKept DEF Budgets
    <3>4. QED
      BY <3>2, <3>3
  <2>6. QED
    BY <2>1, <2>3, <2>4, <2>5, BudgetsKept
<1>2. ASSUME NEW f \in Fds, PeerClose(f)
      PROVE  Budgets'
  <2>1. UNCHANGED <<fdtab, inbox, table, cells, backlog, conns, batch>>
    BY <1>2 DEF PeerClose, PeerEnds, countVars
  <2>2. SocketBudget' /\ AcceptBudget'
    BY <2>1 DEF Budgets, SocketBudget, AcceptBudget, Sockets
  <2>3. NoResets'
    BY <1>2, <2>1 DEF PeerClose, PeerEnds, Budgets, NoResets, TypeOK
  <2>4. QED
    BY <2>1, <2>2, <2>3, BudgetsKept
<1>3. ASSUME NEW f \in Fds, PeerReset(f)
      PROVE  FALSE
  BY <1>3, WellBehavedAssumption DEF PeerReset
<1>4. ASSUME NEW e \in batch, Serve(e)
      PROVE  Budgets'
  <2>1. CASE AcceptAgain(e)
    <3>1. /\ UNCHANGED <<fdtab, inbox, remote, table, cells, backlog, conns>>
          /\ batch' \subseteq batch
      BY <2>1 DEF AcceptAgain, sockVars, countVars
    <3>2. SocketBudget' /\ AcceptBudget' /\ NoResets'
      BY <3>1 DEF Budgets, SocketBudget, AcceptBudget, Sockets, NoResets
    <3>3. QED
      BY <3>1, <3>2, BudgetsKept
  <2>2. CASE e.fd \in Fds /\ RecvAgain(e)
    <3>1. /\ UNCHANGED <<fdtab, remote, table, cells, backlog, conns>>
          /\ batch' \subseteq batch
          /\ inbox' = [inbox EXCEPT ![e.fd] = SubSeq(@, Len(@) + 1, Len(@))]
      BY <2>2 DEF RecvAgain, Keep, countVars
    <3>2. SocketBudget' /\ AcceptBudget' /\ NoResets'
      BY <3>1 DEF Budgets, SocketBudget, AcceptBudget, Sockets, NoResets
    <3>3. inbox[e.fd] \in Seq(Cells)
      BY <2>2 DEF TypeOK
    <3>4. Len(inbox'[e.fd]) = 0
      BY <2>2, <3>1, <3>3 DEF TypeOK
    <3>5. Unread' \subseteq Unread
      BY <2>2, <3>1, <3>4 DEF Unread, TypeOK
    <3>6. OpenFiles' = OpenFiles /\ Known' = Known /\ Known \in Int
      BY <3>1 DEF OpenFiles, Known
    <3>7. CellBudget'
      BY <3>1, <3>5, <3>6, CellBudgetKept DEF Budgets
    <3>8. QED
      BY <3>2, <3>7 DEF Budgets
  <2>3. QED
    BY <1>4, <2>1, <2>2, ServeLives, AcceptBudgets, EofBudgets, HandledBudgets
<1>5. QED
  BY <1>1, <1>2, <1>3, <1>4, SendBudgets DEF Next, ServeSome

LEMMA SurvivesStep ==
    ASSUME TypeOK, Budgets, Survives, [Next]_vars
    PROVE  Survives'
<1>1. ASSUME NEW e \in batch, Serve(e)
      PROVE  up' = up /\ runs' = runs
  BY <1>1, ServeLives DEF AcceptAgain, Accept, RecvAgain, RecvEof, Handled, Keep, countVars
<1>2. CASE Startup
  BY <1>2 DEF Startup, Survives
<1>3. CASE ~ Startup
  <2>1. up' = up /\ runs' = runs
    BY <1>1, <1>3 DEF Next, ServeSome, vars, countVars, Poll, Connect, AbortConnect,
                      PeerSend, PeerClose, PeerReset, PeerEnds
  <2>2. QED
    BY <2>1 DEF Survives
<1>4. QED
  BY <1>2, <1>3

(* With well-behaved peers and a number for each connection and packet the *)
(* process never ends once it was started: no null, wild or missing field, *)
(* no lack of descriptors although each command leaks one, no error event  *)
(* and no broken pipe, whatever the queries come to and however connects,  *)
(* packets and closes interleave with the events of a batch.  Well-behaved *)
(* peers reset nothing, and that excludes more than hostility: the kernel  *)
(* of a peer that closed in good order answers a command that is sent to it*)
(* before its end of file was served with a reset.  Then the loop ends in  *)
(* perror_die, of EPOLLERR or of recv, or in SIGPIPE, and this theorem is  *)
(* silent about it.                                                        *)
THEOREM PeersSurvived == Spec => []Survives
<1>1. Init => Budgets /\ Survives
  <2> SUFFICES ASSUME Init PROVE Budgets /\ Survives
    OBVIOUS
  <2>1. Sockets = {} /\ OpenFiles = {} /\ Unread = {} /\ Known = 0
    BY DEF Init, Sockets, OpenFiles, Unread, Known
  <2>2. SocketBudget /\ AcceptBudget /\ CellBudget
    BY <2>1, FS_EmptySet DEF Init, SocketBudget, AcceptBudget, CellBudget
  <2>3. QED
    BY <2>2 DEF Init, Budgets, NoResets, Survives
<1>2. TypeOK /\ BatchLive /\ Budgets /\ Survives /\ [Next]_vars => Budgets' /\ Survives'
  BY BudgetStep, SurvivesStep
<1>3. QED
  BY <1>1, <1>2, TypeCorrect, EventsStayLive, PTL DEF Spec

=============================================================================
