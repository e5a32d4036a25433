---------------------------- MODULE SessionTable ----------------------------
(***************************************************************************)
(* src/log.c: the MySQL table cmd_agent_session, which maps the mac of a   *)
(* miner to the socket fd it is connected on, and the six functions that   *)
(* query it.  The database is external: what a query does is modelled from *)
(* its text, and mac is taken to be the table's unique key, which is what  *)
(* the insert-else-update of mysql_insert_fd relies on.                    *)
(*                                                                         *)
(* Each function is an operator on the table: it takes the outcome of each *)
(* query it issues and yields the new table and the C return value, so     *)
(* that CmdAgent and SessionStore share one definition of it.              *)
(***************************************************************************)
EXTENDS Integers

CONSTANTS Macs,         \* the strings stored in column mac
          Fds,          \* the numbers stored in column fd
          NoRow,        \* table[m] when no row has mac m
          QueryFaults   \* what may befall a query, a subset of QueryFault

\* The mac under which every UX client is stored (main.c:111).
UX_SESSION == "UX_SESSION"

REQ_INVALID         == 0
REQ_UX              == 1
REQ_LINUX_CLAYMORE  == 2
REQ_WINDOW_CLAYMORE == 3
AgentTypes          == REQ_INVALID .. REQ_WINDOW_CLAYMORE

\* "fail": the server rejects the query and the connection survives;
\* "lost": the connection is gone before the query reaches the server;
\* "applied": the server executes the query, the answer is lost with the link.
QueryFault == {"fail", "lost", "applied"}

Row == [fd : Fds, agent_type : AgentTypes]

ASSUME TableAssumption ==
    /\ UX_SESSION \in Macs
    /\ Fds \subseteq Nat
    /\ NoRow \notin Row
    /\ QueryFaults \subseteq QueryFault

VARIABLES table,   \* the rows, as a function of their key
          link     \* state of conn; nothing in the program reconnects it

-----------------------------------------------------------------------------
(* The client library and the database, as the queries use them.           *)

Executes(o) == o \in {"ok", "applied"}
Cuts(o)     == o \in {"lost", "applied"}

\* The outcomes of n consecutive queries over the present link.
QueryRuns(n) ==
    {q \in [1..n -> {"ok"} \cup QueryFault] :
        \A i \in 1..n :
            q[i] \in IF link = "lost" \/ \E j \in 1..(i - 1) : Cuts(q[j])
                     THEN {"lost"}
                     ELSE {"ok"} \cup QueryFaults}

LinkAfter(q, n) == IF \E i \in 1..n : Cuts(q[i]) THEN "lost" ELSE link

Insert(t, m, r) == IF t[m] = NoRow THEN [t EXCEPT ![m] = r] ELSE t
Update(t, m, r) == IF t[m] = NoRow THEN t ELSE [t EXCEPT ![m] = r]
DeleteWhere(t, S) == [m \in Macs |-> IF m \in S THEN NoRow ELSE t[m]]
RowsOf(t, fd) == {m \in Macs : t[m] # NoRow /\ t[m].fd = fd}

-----------------------------------------------------------------------------
(* The functions of log.c.  A query that the server executes without error *)
(* returns 0 even when it matches no row.                                  *)

\* Mutant: the update is forgotten, as if the query were an insert ignore.
InsertOnly(t, mac, fd, agent_type, ins, upd) ==
    LET row == [fd |-> fd, agent_type |-> agent_type]
    IN  [table |-> IF Executes(ins) THEN Insert(t, mac, row) ELSE t,
         ret   |-> IF ins = "ok" THEN fd ELSE -2]

\* Mutant: the row is deleted and then inserted instead.
DeleteThenInsert(t, mac, fd, agent_type, ins, upd) ==
    LET row == [fd |-> fd, agent_type |-> agent_type]
        t1  == IF Executes(ins) THEN DeleteWhere(t, {mac}) ELSE t
    IN  [table |-> IF Executes(upd) THEN Insert(t1, mac, row) ELSE t1,
         ret   |-> IF ins = "ok" /\ upd = "ok" THEN fd ELSE -2]

\* Insert the row; when the insert fails for whatever reason, update it.
mysql_insert_fd(t, mac, fd, agent_type, ins, upd) ==
    LET row == [fd |-> fd, agent_type |-> agent_type]
        t1  == IF Executes(ins) THEN Insert(t, mac, row) ELSE t
    IN  IF ins = "ok" /\ t[mac] = NoRow
        THEN [table |-> t1, ret |-> fd]
        ELSE [table |-> IF Executes(upd) THEN Update(t1, mac, row) ELSE t1,
              ret   |-> IF upd = "ok" THEN fd ELSE -2]

\* The lost answer of an executed select shows up in mysql_store_result.
mysql_select_fd(t, mac, o) ==
    CASE o = "ok" /\ t[mac] # NoRow -> t[mac].fd
      [] o = "ok" /\ t[mac] = NoRow -> -5
      [] o = "applied"              -> -4
      [] OTHER                      -> -3

\* Mutants: the delete matches nothing, lacks its where clause, or clears
\* column fd instead of removing the row.
DeleteNothing(t, fd, o) == [table |-> t, ret |-> IF o = "ok" THEN 0 ELSE -2]

DeleteAll(t, fd, o) ==
    [table |-> IF Executes(o) THEN DeleteWhere(t, Macs) ELSE t,
     ret   |-> IF o = "ok" THEN 0 ELSE -2]

ClearFd(t, fd, o) ==
    [table |-> IF Executes(o)
               THEN [m \in Macs |-> IF m \in RowsOf(t, fd)
                                    THEN [t[m] EXCEPT !.fd = -1] ELSE t[m]]
               ELSE t,
     ret   |-> IF o = "ok" THEN 0 ELSE -2]

mysql_delete_fd(t, fd, o) ==
    [table |-> IF Executes(o) THEN DeleteWhere(t, RowsOf(t, fd)) ELSE t,
     ret   |-> IF o = "ok" THEN 0 ELSE -2]

mysql_delete_mac(t, mac, o) ==
    [table |-> IF Executes(o) THEN DeleteWhere(t, {mac}) ELSE t,
     ret   |-> IF o = "ok" THEN 0 ELSE -2]

\* Several rows may share an fd: fetch_row returns any one of them.
mysql_select_session(t, fd, o) ==
    CASE o = "ok" /\ RowsOf(t, fd) # {} -> {t[m].agent_type : m \in RowsOf(t, fd)}
      [] o = "ok" /\ RowsOf(t, fd) = {} -> {-5}
      [] o = "applied"                  -> {-4}
      [] OTHER                          -> {-3}

\* Its where clause reads "ANDi": the server rejects the query every time.
mysql_update_log(t, o) == [table |-> t, ret |-> -2]

=============================================================================
