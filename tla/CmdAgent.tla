------------------------------ MODULE CmdAgent ------------------------------
(***************************************************************************)
(* The server: main.c's epoll loop and its callbacks, composed with the    *)
(* session table (SessionTable), the packet parsers (Protocol), socket_read*)
(* and msg_client_info of session.c, and with its environment: the peers,  *)
(* the kernel's sockets, epoll and fd numbers, and operators who start the *)
(* process again after it died.                                            *)
(*                                                                         *)
(* The process has one thread.  A step of it is the handling of one epoll  *)
(* event, with every call that handling makes; between two steps peers     *)
(* connect, send, close and reset as they please.                          *)
(***************************************************************************)
EXTENDS Protocol

CONSTANTS
    MAXFDS,         \* the server refuses fd numbers from here on
    Cells,          \* the pieces of packets that peers send, see Cell
    Files,          \* paths that fopen can open
    ClobberFiles,   \* files of a size for which file_buff[file_size + 1]
                    \* lies outside the allocated chunk (session.c:91)
    PeerFaults,     \* what peers may do: a subset of PeerFault
    MaxConns, MaxCells, MaxRuns    \* bounds: connections, cells, processes

\* "reset": a connection is reset; "abort": one that waits to be accepted
\* disappears; "accept": accept fails with an error other than EAGAIN.
PeerFault == {"reset", "abort", "accept"}

(* A cell is what recv returns in one piece: a packet ("whole"), its first *)
(* part ("head") or the rest of it ("tail").  nul: its last byte is NUL.   *)
Cell == [json : {c.json : c \in Cells}, part : {"whole", "head", "tail"}, nul : BOOLEAN]

Packets == {c.json : c \in Cells}

ASSUME CmdAssumption ==
    /\ MAXFDS \in Nat
    /\ Cells \subseteq Cell
    /\ ClobberFiles \subseteq Files
    /\ PeerFaults \subseteq PeerFault
    /\ Wild \notin Macs /\ Wild \notin Int /\ NULL # Wild /\ Wild # ""
    /\ \A p \in Packets \ {NULL} :
          HasStr(p, "miner_mac") => Str(p, "miner_mac") \in Macs
    /\ MaxConns \in Nat /\ MaxCells \in Nat /\ MaxRuns \in Nat

VARIABLES
    up,          \* the process runs
    fdtab,       \* the process's descriptors: "free", "sock" or "file"
    interest,    \* events each socket is registered for in epollfd
    batch,       \* events[i] .. events[nready - 1]: still to be handled
    session,     \* the session_t that all events of a batch share
    backlog,     \* connections waiting on the listening socket
    inbox,       \* cells the kernel holds for each socket
    remote,      \* the peer's end of each socket
    announced,   \* history: macs the present peer of a socket announced
    fwd,         \* history: the UX command handled by the last step
    taint,       \* history: faults that the table may carry traces of
    suspect,     \* history: numbers whose rows nobody vouches for, see RowsLive
    conns, cells, runs    \* counters for the bounds

sockVars  == <<fdtab, interest, inbox, remote>>
countVars == <<conns, cells, runs>>
vars == <<table, link, up, batch, session, backlog, announced, fwd, taint, suspect,
          sockVars, countVars>>

Listener == -1      \* listener_sockfd, outside the numbers peers get
NoFwd    == [branch |-> "none"]

\* send() returns the number of bytes taken, here PARTIAL or FULL, or -1.
PARTIAL == 1
FULL    == 2
SIZE_T  == 2^30     \* stands for 2^64, the modulus of size_t
Taints  == {"stale", "query", "wild"}

-----------------------------------------------------------------------------
(* The process and the kernel.                                             *)

Free      == {f \in Fds : fdtab[f] = "free"}
LowestFree == CHOOSE f \in Free : \A g \in Free : f <= g

fd_status_R    == [want_read |-> TRUE,  want_write |-> FALSE]
fd_status_W    == [want_read |-> FALSE, want_write |-> TRUE]
fd_status_NORW == [want_read |-> FALSE, want_write |-> FALSE]

\* event.events as the loop computes it from a callback's status.
EventMask(status) == (IF status.want_read  THEN {"IN"}  ELSE {}) \cup
                     (IF status.want_write THEN {"OUT"} ELSE {})

\* Level-triggered readiness; EPOLLERR is reported whatever was asked for.
Events(f) ==
    {ev \in interest[f] : ev = "IN" => inbox[f] # <<>> \/ remote[f] # "open"}
        \cup (IF remote[f] = "reset" THEN {"ERR"} ELSE {})

ReadyEvents ==
    {[fd |-> f, events |-> Events(f)] :
        f \in {g \in Fds : fdtab[g] = "sock" /\ Events(g) # {}}}
    \cup (IF backlog > 0 THEN {[fd |-> Listener, events |-> {"IN"}]} ELSE {})

\* The numbers that rows of a table name.
NumbersIn(t) == {t[m].fd : m \in {k \in Macs : t[k] # NoRow}}

\* The process ends: perror_die, die, or a fatal signal.  The kernel closes
\* its descriptors; the table, as the handler left it, remains.
Die(t) ==
    /\ up' = FALSE
    /\ table' = t
    /\ link' = "lost"
    /\ fdtab' = [f \in Fds |-> "free"]
    /\ interest' = [f \in Fds |-> {}]
    /\ inbox' = [f \in Fds |-> <<>>]
    /\ remote' = [f \in Fds |-> "open"]
    /\ announced' = [f \in Fds |-> {}]
    /\ batch' = {}
    /\ backlog' = 0
    /\ session' = FreshSession
    /\ fwd' = NoFwd
    /\ suspect' = NumbersIn(t)
    /\ UNCHANGED <<taint, countVars>>

\* What main() needs before its loop: a connection to the database, and a
\* listening socket on which nobody waits yet.  Nothing clears the table.
mysql_conn == link' = "up"
listen_inet_socket == backlog' = 0

\* main() up to its loop.  A start that fails before the loop changes nothing.
Startup ==
    /\ ~up
    /\ runs < MaxRuns
    /\ mysql_conn
    /\ listen_inet_socket
    /\ up' = TRUE
    /\ runs' = runs + 1
    /\ taint' = IF \E m \in Macs : table[m] # NoRow
                THEN taint \cup {"stale"} ELSE taint
    /\ UNCHANGED <<table, batch, session, announced, fwd, suspect, sockVars, conns, cells>>

\* A new session_t and epoll_wait, which returns all that is ready.
Poll ==
    /\ up
    /\ batch = {}
    /\ ReadyEvents # {}
    /\ batch' = ReadyEvents
    /\ session' = FreshSession
    /\ fwd' = NoFwd
    /\ UNCHANGED <<table, link, up, backlog, announced, taint, suspect, sockVars,
                   countVars>>

-----------------------------------------------------------------------------
(* The peers.                                                              *)

Connect ==
    /\ up
    /\ conns < MaxConns
    /\ conns' = conns + 1
    /\ backlog' = backlog + 1
    /\ UNCHANGED <<table, link, up, batch, session, announced, fwd, taint, suspect,
                   sockVars, cells, runs>>

AbortConnect ==
    /\ "abort" \in PeerFaults
    /\ backlog > 0
    /\ backlog' = backlog - 1
    /\ UNCHANGED <<table, link, up, batch, session, announced, fwd, taint, suspect,
                   sockVars, countVars>>

PeerSend(f, c) ==
    /\ fdtab[f] = "sock"
    /\ remote[f] = "open"
    /\ cells < MaxCells
    /\ cells' = cells + 1
    /\ inbox' = [inbox EXCEPT ![f] = Append(@, c)]
    /\ UNCHANGED <<table, link, up, batch, session, backlog, announced, fwd,
                   taint, suspect, fdtab, interest, remote, conns, runs>>

PeerEnds(f, from, end) ==
    /\ fdtab[f] = "sock"
    /\ remote[f] \in from
    /\ remote' = [remote EXCEPT ![f] = end]
    /\ UNCHANGED <<table, link, up, batch, session, backlog, announced, fwd,
                   taint, suspect, fdtab, interest, inbox, countVars>>

PeerClose(f) == PeerEnds(f, {"open"}, "closed")
PeerReset(f) == "reset" \in PeerFaults /\ PeerEnds(f, {"open", "closed"}, "reset")

-----------------------------------------------------------------------------
(* An event of the listening socket.                                       *)

\* Mutant: the greeting is to be written first, as on line 60.
ConnectedForWriting(f) == fd_status_W

\* Mutant: nothing is wanted of a peer yet, so epoll is to watch for nothing.
ConnectedUnwatched(f) == fd_status_NORW

\* The status of a socket just accepted: the peer is to speak first.
on_peer_connected(f) == fd_status_R

\* accept, which takes a number before it looks, finds nothing to accept.
AcceptAgain(e) ==
    /\ backlog = 0
    /\ Free # {}
    /\ batch' = batch \ {e}
    /\ fwd' = NoFwd
    /\ UNCHANGED <<table, link, up, session, backlog, announced, taint, suspect,
                   sockVars, countVars>>

\* Mutant: finding nothing to accept is an error like any other.
AcceptDiesOnAgain ==
    /\ \/ backlog = 0 \/ "accept" \in PeerFaults \/ Free = {}
       \/ backlog > 0 /\ Free # {} /\ LowestFree >= MAXFDS
    /\ Die(table)

\* Mutant: accept's error is passed over.
AcceptErrorSkipped ==
    /\ Free = {} \/ (backlog > 0 /\ Free # {} /\ LowestFree >= MAXFDS)
    /\ batch' = {b \in batch : b.fd # Listener}
    /\ fwd' = NoFwd
    /\ UNCHANGED <<table, link, up, session, backlog, announced, taint, suspect,
                   sockVars, countVars>>

\* accept fails, for want of a descriptor (EMFILE) or otherwise, or returns
\* a number that global_state has no room for.
AcceptDies ==
    /\ \/ "accept" \in PeerFaults \/ Free = {}
       \/ backlog > 0 /\ Free # {} /\ LowestFree >= MAXFDS
    /\ Die(table)

Accept(e) ==
    /\ backlog > 0
    /\ Free # {}
    /\ LowestFree < MAXFDS
    /\ backlog' = backlog - 1
    /\ fdtab' = [fdtab EXCEPT ![LowestFree] = "sock"]
    /\ interest' = [interest EXCEPT
                       ![LowestFree] = EventMask(on_peer_connected(LowestFree))]
    /\ inbox' = [inbox EXCEPT ![LowestFree] = <<>>]
    /\ remote' = [remote EXCEPT ![LowestFree] = "open"]
    /\ announced' = [announced EXCEPT ![LowestFree] = {}]
    /\ batch' = batch \ {e}
    /\ fwd' = NoFwd
    /\ UNCHANGED <<table, link, up, session, taint, suspect, countVars>>

-----------------------------------------------------------------------------
(* socket_read.  The loop leaves with data when the last byte read, or the *)
(* byte behind it, is NUL.  The latter lies outside the buffer: it may be  *)
(* NUL after any recv, so any prefix of the cells may be what is returned. *)
(* A last byte that is NUL does end the loop; otherwise it may go on until *)
(* recv has nothing more to give, and what was read so far is dropped.     *)

ReadsDry(f) == inbox[f] # <<>> => ~ inbox[f][Len(inbox[f])].nul

\* json_tokener_parse on the first n cells: up to a NUL, or past the end of
\* the first object.
CellJson(s, n) ==
    CASE s[1].part = "whole"                          -> s[1].json
      [] /\ s[1].part = "head" /\ ~ s[1].nul /\ n > 1
         /\ s[2].part = "tail" /\ s[2].json = s[1].json -> s[1].json
      [] OTHER                                        -> NULL

\* The tail of a callback that keeps the socket: EPOLL_CTL_MOD.
Keep(e, n, status) ==
    /\ inbox' = [inbox EXCEPT ![e.fd] = SubSeq(@, n + 1, Len(@))]
    /\ interest' = [interest EXCEPT ![e.fd] = EventMask(status)]
    /\ batch' = batch \ {e}
    /\ UNCHANGED <<up, backlog, countVars>>

\* EAGAIN: all that was read is forgotten, the socket stays.
RecvAgain(e) ==
    /\ ReadsDry(e.fd)
    /\ remote[e.fd] = "open"
    /\ Keep(e, Len(inbox[e.fd]), fd_status_R)
    /\ fwd' = NoFwd
    /\ UNCHANGED <<table, link, session, announced, taint, suspect, fdtab, remote>>

\* Any other error of recv: perror_die.
RecvError(e) ==
    /\ ReadsDry(e.fd)
    /\ remote[e.fd] = "reset"
    /\ Die(table)

TaintOf(q, n, wild) == (IF \E i \in 1..n : q[i] = "fail" THEN {"query"} ELSE {})
                       \cup (IF wild THEN {"wild"} ELSE {})

\* Mutant: recv's 0 is taken for EAGAIN, and the socket stays.
EofKeepsSocket(e) ==
    /\ ReadsDry(e.fd)
    /\ remote[e.fd] \in {"closed", "broken"}
    /\ Keep(e, Len(inbox[e.fd]), fd_status_R)
    /\ fwd' = NoFwd
    /\ UNCHANGED <<table, link, session, announced, taint, suspect, fdtab, remote>>

\* recv returns 0: NORW, so the loop removes the rows of the fd, ignoring
\* the outcome, and closes it.
RecvEof(e) ==
    /\ ReadsDry(e.fd)
    /\ remote[e.fd] \in {"closed", "broken"}
    /\ \E q \in QueryRuns(1) :
          /\ table' = mysql_delete_fd(table, e.fd, q[1]).table
          /\ link' = LinkAfter(q, 1)
          /\ taint' = taint \cup TaintOf(q, 1, FALSE)
          /\ suspect' = IF Executes(q[1]) THEN suspect \ {e.fd} ELSE suspect \cup {e.fd}
    /\ fdtab' = [fdtab EXCEPT ![e.fd] = "free"]
    /\ interest' = [interest EXCEPT ![e.fd] = EventMask(fd_status_NORW)]
    /\ inbox' = [inbox EXCEPT ![e.fd] = <<>>]
    /\ remote' = [remote EXCEPT ![e.fd] = "open"]
    /\ announced' = [announced EXCEPT ![e.fd] = {}]
    /\ batch' = batch \ {e}
    /\ fwd' = NoFwd
    /\ UNCHANGED <<up, session, backlog, countVars>>

-----------------------------------------------------------------------------
(* A packet is handled by its agent type.                                  *)

\* The parser returned no object: get_agent_type dereferences NULL.
RecvMalformed(e, n) ==
    /\ CellJson(inbox[e.fd], n) = NULL
    /\ Die(table)

RecvInvalid(e, n, json) ==
    /\ get_agent_type(json) = REQ_INVALID
    /\ Keep(e, n, fd_status_R)
    /\ fwd' = NoFwd
    /\ UNCHANGED <<table, link, session, announced, taint, suspect, fdtab, remote>>

\* Reading through a wild pointer gives any string, or is fatal.
Deref(v) == IF v = Wild THEN Macs ELSE {v}

\* A miner announces itself: its mac now maps to the fd it is connected on.
AgentHello(e, n, json) ==
    LET s == parse_json_agent(json, session)
        wild == s.miner_mac = Wild
    IN  /\ get_agent_type(json) = REQ_LINUX_CLAYMORE
        /\ \/ /\ \E q \in QueryRuns(2), mac \in Deref(s.miner_mac) :
                    /\ table' = mysql_insert_fd(table, mac, e.fd,
                                    REQ_LINUX_CLAYMORE, q[1], q[2]).table
                    /\ link' = LinkAfter(q, 2)
                    /\ taint' = taint \cup TaintOf(q, 2, wild)
                    /\ announced' = IF wild THEN announced
                                    ELSE [announced EXCEPT ![e.fd] = @ \cup {mac}]
              /\ suspect' = IF wild THEN suspect \cup {e.fd} ELSE suspect
              /\ session' = json_object_put(s)
              /\ Keep(e, n, fd_status_R)
              /\ fwd' = NoFwd
              /\ UNCHANGED <<fdtab, remote>>
           \/ wild /\ Die(table)

(* msg_client_info opens the file twice and closes it once, so it needs two*)
(* free descriptors and uses one up.  Without a file buffer, or with a null*)
(* path_install, it hands json-c a null string, which is fatal.  The write *)
(* one past file_buff may or may not hurt.                                 *)
MayBuild(s) ==
    /\ s.cmd_type = Wild \/ parse_cmd_type(s.cmd_type) = 1
    /\ s.path = Wild \/ s.path \in Files
    /\ s.path_install # NULL
    /\ \E f, g \in Free : f # g

MayCrash(s) ==
    \/ ~ MayBuild(s)
    \/ Wild \in {s.cmd_type, s.path, s.path_install}
    \/ s.path \in ClobberFiles

\* The branch that on_peer_ready_recv takes on "result > 0", result a size_t.
SendBranch(ret) == IF ret % SIZE_T > 0 THEN "sent" ELSE "failed"

\* What the callback leaves behind on every path through the UX case.
UxDone(e, n, json, s, mac, q, branch, to, ret) ==
    /\ link' = LinkAfter(q, 3)
    /\ taint' = taint \cup TaintOf(q, 3, s.miner_mac = Wild)
    /\ announced' = [announced EXCEPT ![e.fd] = @ \cup {UX_SESSION}]
    /\ session' = json_object_put(s)
    /\ Keep(e, n, fd_status_R)
    /\ fwd' = [branch |-> branch, json |-> json, mac |-> mac, fd |-> to,
               ret |-> ret, sequence |-> s.sequence]
    /\ UNCHANGED suspect

\* Mutant: the socket of a send that failed is closed on the spot.
UxSendCloses(e, n, json, s, mac, q, to) ==
    /\ MayBuild(s)
    /\ \E ret \in {-1, FULL} :
          /\ ret > 0 => fdtab[to] = "sock" /\ remote[to] \in {"open", "closed"}
          /\ fdtab' = [fdtab EXCEPT ![LowestFree] = "file",
                                   ![to] = IF ret = -1 THEN "free" ELSE @]
          /\ UxDone(e, n, json, s, mac, q, SendBranch(ret), to, ret)
    /\ UNCHANGED remote

\* The command is sent straight to the fd found in the table.  Its socket
\* buffer may be full; an fd that is no socket gives EBADF or ENOTSOCK; a
\* reset is reported once, and a socket that is broken raises SIGPIPE.
UxSend(e, n, json, s, mac, q, to) ==
    /\ MayBuild(s)
    /\ fdtab' = [fdtab EXCEPT ![LowestFree] = "file"]
    /\ \E ret \in {-1, PARTIAL, FULL} :
          /\ ret > 0 => fdtab[to] = "sock" /\ remote[to] \in {"open", "closed"}
          /\ fdtab[to] = "sock" => remote[to] # "broken"
          /\ remote' = IF fdtab[to] = "sock" /\ remote[to] = "reset"
                       THEN [remote EXCEPT ![to] = "broken"] ELSE remote
          /\ UxDone(e, n, json, s, mac, q, SendBranch(ret), to, ret)

UxSigpipe(s, to) ==
    /\ MayBuild(s)
    /\ fdtab[to] = "sock"
    /\ remote[to] \in {"reset", "broken"}

\* A UX client sends a command for the miner with a given mac.
UxCommand(e, n, json) ==
    LET s == parse_json_cmd(json, session) IN
    /\ get_agent_type(json) = REQ_UX
    /\ \E q \in QueryRuns(3), mac \in Deref(s.miner_mac) :
          LET t  == mysql_insert_fd(table, UX_SESSION, e.fd, REQ_UX, q[1], q[2]).table
              to == mysql_select_fd(t, mac, q[3])
          IN  \/ /\ to < 0
                 /\ table' = t
                 /\ UxDone(e, n, json, s, mac, q, "notfound", to, 0)
                 /\ UNCHANGED <<fdtab, remote>>
              \/ /\ to >= 0
                 /\ table' = t
                 /\ UxSend(e, n, json, s, mac, q, to)
              \/ /\ \/ s.miner_mac = Wild
                    \/ to >= 0 /\ MayCrash(s)
                    \/ to >= 0 /\ UxSigpipe(s, to)
                 /\ Die(t)

RecvPacket(e) ==
    \E n \in 1..Len(inbox[e.fd]) :
        \/ RecvMalformed(e, n)
        \/ LET json == CellJson(inbox[e.fd], n) IN
           /\ json # NULL
           /\ RecvInvalid(e, n, json) \/ AgentHello(e, n, json) \/ UxCommand(e, n, json)

-----------------------------------------------------------------------------

PeerError(e) == "ERR" \in e.events /\ Die(table)

Serve(e) ==
    \/ PeerError(e)
    \/ /\ e.fd = Listener
       /\ AcceptAgain(e) \/ AcceptDies \/ Accept(e)
    \/ /\ e.fd # Listener
       /\ "ERR" \notin e.events /\ "IN" \in e.events
       /\ RecvAgain(e) \/ RecvError(e) \/ RecvEof(e) \/ RecvPacket(e)

ServeSome == \E e \in batch : Serve(e)

Init ==
    /\ table = [m \in Macs |-> NoRow]
    /\ link = "lost"
    /\ up = FALSE
    /\ fdtab = [f \in Fds |-> "free"]
    /\ interest = [f \in Fds |-> {}]
    /\ inbox = [f \in Fds |-> <<>>]
    /\ remote = [f \in Fds |-> "open"]
    /\ announced = [f \in Fds |-> {}]
    /\ batch = {}
    /\ backlog = 0
    /\ session = FreshSession
    /\ fwd = NoFwd
    /\ taint = {} /\ suspect = {}
    /\ conns = 0 /\ cells = 0 /\ runs = 0

Next ==
    \/ Startup
    \/ Poll
    \/ ServeSome
    \/ Connect
    \/ AbortConnect
    \/ \E f \in Fds : \/ \E c \in Cells : PeerSend(f, c)
                      \/ PeerClose(f)
                      \/ PeerReset(f)

Spec == Init /\ [][Next]_vars

\* The process is never suspended for good: it polls and it serves.  That a
\* step of it ends rests on the calls that may block, mysql_query above all,
\* returning in the end.
FairSpec == Spec /\ WF_vars(Poll) /\ WF_vars(ServeSome)

-----------------------------------------------------------------------------
(* Properties.                                                             *)

\* Between two events the session holds no pointer into a packet.
SessionType == [cmd_type : {Wild}, miner_mac : {Wild}, path : {Wild, ""},
                path_install : {Wild, NULL}, sequence : Int \cup {Wild}]

TypeOK ==
    /\ table \in [Macs -> Row \cup {NoRow}]
    /\ link \in {"up", "lost"}
    /\ up \in BOOLEAN
    /\ fdtab \in [Fds -> {"free", "sock", "file"}]
    /\ interest \in [Fds -> SUBSET {"IN", "OUT"}]
    /\ inbox \in [Fds -> Seq(Cells)]
    /\ remote \in [Fds -> {"open", "closed", "reset", "broken"}]
    /\ announced \in [Fds -> SUBSET Macs]
    /\ batch \subseteq [fd : Fds \cup {Listener}, events : SUBSET {"IN", "OUT", "ERR"}]
    /\ backlog \in 0..conns
    /\ session \in SessionType
    /\ taint \subseteq Taints
    /\ suspect \subseteq Fds
    /\ conns \in 0..MaxConns /\ cells \in 0..MaxCells /\ runs \in 0..MaxRuns

(* No event of a batch is about a socket that an earlier event of the same *)
(* batch closed, and no socket has two events in it: the loop may use      *)
(* events[i].data.fd without looking at the socket again.                  *)
BatchLive ==
    \A e \in batch :
        /\ e.fd # Listener => fdtab[e.fd] = "sock"
        /\ \A d \in batch : d.fd = e.fd => d = e

(* epoll watches exactly the sockets of connected peers, for reading only: *)
(* no connected peer is ever forgotten, no closed number watched, and the  *)
(* EPOLLOUT branch of the loop is unreachable (main.c:329).                *)
WatchedForReading ==
    \A f \in Fds : interest[f] = IF fdtab[f] = "sock" THEN {"IN"} ELSE {}

(* Every row of the session table names the socket of a connected peer     *)
(* which announced the row's mac itself, unless its number is suspect: its *)
(* rows were not deleted when its last peer left (main.c:319, where the    *)
(* query was rejected or the link gone), it is one of those that a process *)
(* left behind when it ended, or its peer announced no mac.  A delete that *)
(* is executed clears it, and no other fault makes a row stale: neither a  *)
(* rejected insert nor a lost answer nor the end of the link.              *)
RowsLive ==
    \A m \in Macs :
        table[m] # NoRow /\ table[m].fd \notin suspect =>
            /\ fdtab[table[m].fd] = "sock"
            /\ m \in announced[table[m].fd]

(* A command leaves only for the connection of a peer which announced the  *)
(* mac looked up (main.c:117), unless the number found is suspect: stale   *)
(* rows misdirect commands for their own numbers and no others.            *)
Delivery ==
    fwd # NoFwd /\ fwd.ret > 0 /\ fwd.fd \notin suspect =>
        /\ fdtab[fwd.fd] = "sock"
        /\ fwd.mac \in announced[fwd.fd]

(* Whatever fails, a row disappears only when the peer on its own fd has   *)
(* gone, and is written only with the fd of a peer that is connected: no   *)
(* peer that leaves takes another peer's row with it.                      *)
RowMoves ==
    \A m \in Macs : table'[m] # table[m] =>
        IF table'[m] = NoRow
        THEN fdtab[table[m].fd] = "sock" /\ remote[table[m].fd] # "open"
        ELSE fdtab[table'[m].fd] = "sock"

RowsLeaveWithPeer == [][RowMoves]_vars

(* All events of a batch share one session_t, yet a command is looked up   *)
(* and numbered by its own mac and sequence wherever it states them as     *)
(* strings, whatever earlier packets of the batch said.                    *)
OwnFields ==
    fwd # NoFwd =>
        /\ HasStr(fwd.json, "miner_mac") => fwd.mac = Str(fwd.json, "miner_mac")
        /\ HasStr(fwd.json, "sequence") => fwd.sequence = atoi(Str(fwd.json, "sequence"))

(* The process, once started, survives its peers.                          *)
Survives == runs > 0 => up

(* "UX 요청의 맥으로 세션테이블을 조회해 FD 를 얻음" (main.c:110): the fd is   *)
(* looked up with the mac of the UX request.                               *)
LookupByRequestMac ==
    fwd # NoFwd => HasStr(fwd.json, "miner_mac") /\ fwd.mac = Str(fwd.json, "miner_mac")

(* "접속된 클라이언트로 실제 트레픽이 발송됨" (main.c:121): in the branch that *)
(* result > 0 selects, traffic was really sent to the connected client.    *)
SentMeansTraffic == fwd.branch = "sent" => fwd.ret > 0

(* "첫번째 key 만 검사하여 에이젼트 타입 체크" (parse.c:15): the agent type is  *)
(* decided by the first key alone, here for a packet taken for a command.  *)
FirstKeyOnly == fwd # NoFwd => fwd.json[1].type = "string" /\ fwd.json[1].val = "ux"

(* "클라이언트 접속정보 쿼리 성공 - 클라이언트 세션과 연결" (main.c:117): a      *)
(* lookup that succeeds connects the command to that client's session.     *)
LookupFindsClient ==
    fwd # NoFwd /\ fwd.ret > 0 => fwd.mac \in announced[fwd.fd]

(* The state of CmdRouting.  Its promise holds while the link to the       *)
(* database is up and the table carries no trace of a fault.               *)
Serving == link = "up" /\ taint = {}

Present == {f \in Fds : Serving /\ fdtab[f] = "sock"}

Claims == [f \in Fds |-> IF Serving THEN announced[f] ELSE {}]

Dir == [m \in Macs |-> IF Serving /\ table[m] # NoRow THEN table[m].fd ELSE -1]

Sent == IF Serving /\ fwd # NoFwd /\ fwd.ret > 0
        THEN [name |-> fwd.mac, to |-> fwd.fd] ELSE [name |-> "", to |-> -1]

Routing == INSTANCE CmdRouting WITH
    Names <- Macs, Peers <- Fds, Users <- UX_SESSION,
    serving <- Serving, present <- Present, claims <- Claims, dir <- Dir, sent <- Sent

(* The server implements CmdRouting: through every interleaving of the     *)
(* events of a batch with connects, closes and reused fd numbers, a mac    *)
(* leads to the peer that announced it last, no row is lost while that peer*)
(* stays connected, and a command leaves only for that peer.               *)
ImplementsRouting == Routing!RoutingSpec

(* A peer that closed its connection is noticed and its fd released.       *)
ClosedPeersReaped ==
    \A f \in Fds : fdtab[f] = "sock" /\ remote[f] = "closed" ~> fdtab[f] # "sock"

(* A peer that connects is accepted, unless the process ends first.        *)
ConnectionsAccepted == backlog > 0 ~> backlog = 0

(* What a peer sent is read, however many packets one wakeup left behind.  *)
DataRead ==
    \A f \in Fds : fdtab[f] = "sock" /\ inbox[f] # <<>> ~> inbox[f] = <<>>

=============================================================================
