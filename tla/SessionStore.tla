---------------------------- MODULE SessionStore ----------------------------
(***************************************************************************)
(* log.c on its own: one caller issues its six functions in any order over *)
(* one connection.  promised is what the return values told that caller:   *)
(* the fd of the last call of mysql_insert_fd for a mac that returned a    *)
(* positive number, until a delete that returned 0 takes it away.          *)
(***************************************************************************)
EXTENDS SessionTable

CONSTANT NoFd

VARIABLES promised,   \* history: the directory the return values describe
          call        \* the last call: function, argument, return value

storeVars == <<table, link, promised, call>>

Returned(op, arg, ret) == call' = [op |-> op, arg |-> arg, ret |-> ret]

InsertFd(m, f, a) ==
    \E q \in QueryRuns(2) :
        LET r == mysql_insert_fd(table, m, f, a, q[1], q[2]) IN
        /\ table' = r.table
        /\ link' = LinkAfter(q, 2)
        /\ promised' = IF r.ret >= 0 THEN [promised EXCEPT ![m] = f]
                                     ELSE promised
        /\ Returned("insert_fd", m, r.ret)

SelectFd(m) ==
    \E q \in QueryRuns(1) :
        /\ link' = LinkAfter(q, 1)
        /\ Returned("select_fd", m, mysql_select_fd(table, m, q[1]))
        /\ UNCHANGED <<table, promised>>

DeleteFd(f) ==
    \E q \in QueryRuns(1) :
        LET r == mysql_delete_fd(table, f, q[1]) IN
        /\ table' = r.table
        /\ link' = LinkAfter(q, 1)
        /\ promised' = [m \in Macs |-> IF r.ret = 0 /\ promised[m] = f
                                       THEN NoFd ELSE promised[m]]
        /\ Returned("delete_fd", f, r.ret)

DeleteMac(m) ==
    \E q \in QueryRuns(1) :
        LET r == mysql_delete_mac(table, m, q[1]) IN
        /\ table' = r.table
        /\ link' = LinkAfter(q, 1)
        /\ promised' = IF r.ret = 0 THEN [promised EXCEPT ![m] = NoFd]
                                    ELSE promised
        /\ Returned("delete_mac", m, r.ret)

SelectSession(f) ==
    \E q \in QueryRuns(1) :
        /\ link' = LinkAfter(q, 1)
        /\ \E ret \in mysql_select_session(table, f, q[1]) :
              Returned("select_session", f, ret)
        /\ UNCHANGED <<table, promised>>

UpdateLog(m) ==
    \E q \in QueryRuns(1) :
        LET r == mysql_update_log(table, q[1]) IN
        /\ table' = r.table
        /\ link' = LinkAfter(q, 1)
        /\ Returned("update_log", m, r.ret)
        /\ UNCHANGED promised

StoreInit ==
    /\ table = [m \in Macs |-> NoRow]
    /\ link = "up"
    /\ promised = [m \in Macs |-> NoFd]
    /\ call = [op |-> "none", arg |-> NoFd, ret |-> 0]

StoreNext ==
    \/ \E m \in Macs, f \in Fds, a \in {REQ_UX, REQ_LINUX_CLAYMORE} :
          InsertFd(m, f, a)
    \/ \E m \in Macs : SelectFd(m) \/ DeleteMac(m) \/ UpdateLog(m)
    \/ \E f \in Fds : DeleteFd(f) \/ SelectSession(f)

StoreSpec == StoreInit /\ [][StoreNext]_storeVars

-----------------------------------------------------------------------------

StoreTypeOK ==
    /\ table \in [Macs -> Row \cup {NoRow}]
    /\ link \in {"up", "lost"}
    /\ promised \in [Macs -> Fds \cup {NoFd}]
    /\ call.ret \in Int

(* mysql_select_fd never answers a wrong fd: over a live link, a row names *)
(* the fd of the last acknowledged mysql_insert_fd for its mac, even when  *)
(* single queries were rejected, and a select that finds one returns it.   *)
NeverWrongFd ==
    link = "up" =>
        /\ \A m \in Macs : table[m] # NoRow => table[m].fd = promised[m]
        /\ call.op = "select_fd" /\ call.ret >= 0 => call.ret = promised[call.arg]

(* mysql_insert_fd and the deletes tell the caller the truth (log.c:23,    *)
(* "when successed return positive else nagative"): over a live link the   *)
(* table is the directory the return values describe.                      *)
ReturnMeansStored ==
    link = "up" =>
        \A m \in Macs : promised[m] = IF table[m] = NoRow THEN NoFd
                                                          ELSE table[m].fd

(* A call that returns a negative number leaves the table as it was, so    *)
(* long as the connection survives it.                                     *)
FailureChangesNothing ==
    [][call'.ret < 0 /\ link' = "up" => table' = table]_storeVars

=============================================================================
