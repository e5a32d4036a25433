------------------------- MODULE SessionStoreProofs -------------------------
(***************************************************************************)
(* Proofs about SessionStore: log.c on its own, for every set of macs and  *)
(* fd numbers and whatever befalls its queries.                            *)
(***************************************************************************)
EXTENDS SessionStore, TLAPS

Store == [Macs -> Row \cup {NoRow}]

(* Over a link that holds, each query was accepted or rejected.            *)
LEMMA LinkHeld ==
    ASSUME NEW n \in Nat \ {0}, NEW q \in QueryRuns(n), LinkAfter(q, n) = "up"
    PROVE  link = "up" /\ \A i \in 1..n : q[i] \in {"ok", "fail"}
<1>1. link = "up" /\ \A i \in 1..n : ~ Cuts(q[i])
  BY DEF LinkAfter
<1>2. \A i \in 1..n : q[i] \in {"ok"} \cup QueryFault
  BY DEF QueryRuns
<1>3. QED
  BY <1>1, <1>2 DEF QueryFault, Cuts

(* What mysql_insert_fd does to the table, and what it returns.  Without a *)
(* lost answer it writes its row only when it says so.                     *)
LEMMA InsertOutcome ==
    ASSUME NEW t \in Store, NEW m \in Macs, NEW f \in Fds, NEW a \in AgentTypes,
           NEW ins, NEW upd
    PROVE  LET r == mysql_insert_fd(t, m, f, a, ins, upd) IN
           /\ r.table \in Store /\ r.ret \in {f, -2}
           /\ \A k \in Macs : k # m => r.table[k] = t[k]
           /\ r.table[m] \in {t[m], [fd |-> f, agent_type |-> a]}
           /\ ins \in {"ok", "fail"} /\ upd \in {"ok", "fail"} =>
                /\ r.ret = -2 => r.table = t
                /\ r.ret = f /\ r.table[m] # NoRow => r.table[m].fd = f
<1> DEFINE row == [fd |-> f, agent_type |-> a]
<1>1. row \in Row /\ row # NoRow
  BY TableAssumption DEF Row
<1>2. f \in Nat
  BY TableAssumption
<1>3. QED
  BY <1>1, <1>2 DEF mysql_insert_fd, Insert, Update, Executes, Store

LEMMA DeleteOutcome ==
    ASSUME NEW t \in Store, NEW S \in SUBSET Macs
    PROVE  /\ DeleteWhere(t, S) \in Store
           /\ \A k \in Macs : DeleteWhere(t, S)[k] = IF k \in S THEN NoRow ELSE t[k]
  BY DEF DeleteWhere, Store

(* Every step is a call.                                                   *)
LEMMA StoreCalls ==
    ASSUME StoreNext
    PROVE  \/ \E m \in Macs, f \in Fds, a \in AgentTypes : InsertFd(m, f, a)
           \/ \E m \in Macs : SelectFd(m) \/ DeleteMac(m) \/ UpdateLog(m)
           \/ \E f \in Fds : DeleteFd(f) \/ SelectSession(f)
  BY DEF StoreNext, AgentTypes, REQ_UX, REQ_LINUX_CLAYMORE, REQ_INVALID, REQ_WINDOW_CLAYMORE

-----------------------------------------------------------------------------

LEMMA LinkStays ==
    ASSUME StoreTypeOK, NEW q, NEW n
    PROVE  LinkAfter(q, n) \in {"up", "lost"}
  BY DEF StoreTypeOK, LinkAfter

LEMMA StoreTypeStep ==
    ASSUME StoreTypeOK, [StoreNext]_storeVars
    PROVE  StoreTypeOK'
<1>1. CASE UNCHANGED storeVars
  BY <1>1 DEF storeVars, StoreTypeOK
<1>2. ASSUME NEW m \in Macs, NEW f \in Fds, NEW a \in AgentTypes, InsertFd(m, f, a)
      PROVE  StoreTypeOK'
  <2>1. PICK q \in QueryRuns(2) :
          LET r == mysql_insert_fd(table, m, f, a, q[1], q[2]) IN
          /\ table' = r.table
          /\ link' = LinkAfter(q, 2)
          /\ promised' = IF r.ret >= 0 THEN [promised EXCEPT ![m] = f] ELSE promised
          /\ call' = [op |-> "insert_fd", arg |-> m, ret |-> r.ret]
    BY <1>2 DEF InsertFd, Returned
  <2> DEFINE r == mysql_insert_fd(table, m, f, a, q[1], q[2])
  <2>2. r.table \in Store /\ r.ret \in {f, -2}
    BY InsertOutcome DEF StoreTypeOK, Store
  <2>3. r.ret \in Int
    BY <2>2, TableAssumption
  <2> HIDE DEF r
  <2>4. table' = r.table /\ call'.ret = r.ret
    BY <2>1 DEF r
  <2>5. promised' \in [Macs -> Fds \cup {NoFd}]
    BY <2>1 DEF StoreTypeOK
  <2>6. link' \in {"up", "lost"}
    BY <2>1, LinkStays
  <2>7. QED
    BY <2>2, <2>3, <2>4, <2>5, <2>6 DEF StoreTypeOK, Store
<1>3. ASSUME NEW m \in Macs, SelectFd(m)
      PROVE  StoreTypeOK'
  <2>1. PICK q \in QueryRuns(1) :
          /\ link' = LinkAfter(q, 1)
          /\ call'.ret = mysql_select_fd(table, m, q[1])
    BY <1>3 DEF SelectFd, Returned
  <2>2. table[m] # NoRow => table[m].fd \in Nat
    BY TableAssumption DEF StoreTypeOK, Row
  <2>3. mysql_select_fd(table, m, q[1]) \in Int
    BY <2>2 DEF mysql_select_fd
  <2>4. QED
    BY <1>3, <2>1, <2>3, LinkStays DEF SelectFd, StoreTypeOK
<1>4. ASSUME NEW S \in SUBSET Macs, NEW q, NEW o,
             table' = (IF Executes(o) THEN DeleteWhere(table, S) ELSE table),
             link' = LinkAfter(q, 1),
             call'.ret = (IF o = "ok" THEN 0 ELSE -2),
             promised' \in [Macs -> Fds \cup {NoFd}]
      PROVE  StoreTypeOK'
  <2>1. table' \in Store
    BY <1>4, DeleteOutcome DEF StoreTypeOK, Store
  <2>2. QED
    BY <1>4, <2>1, LinkStays DEF StoreTypeOK, Store
<1>5. ASSUME NEW f \in Fds, DeleteFd(f)
      PROVE  StoreTypeOK'
  <2>1. PICK q \in QueryRuns(1) :
          /\ table' = (IF Executes(q[1]) THEN DeleteWhere(table, RowsOf(table, f)) ELSE table)
          /\ link' = LinkAfter(q, 1)
          /\ call'.ret = (IF q[1] = "ok" THEN 0 ELSE -2)
    BY <1>5 DEF DeleteFd, Returned, mysql_delete_fd
  <2>2. promised' \in [Macs -> Fds \cup {NoFd}]
    BY <1>5 DEF DeleteFd, StoreTypeOK
  <2>3. RowsOf(table, f) \in SUBSET Macs
    BY DEF RowsOf
  <2>4. QED
    BY <1>4, <2>1, <2>2, <2>3
<1>6. ASSUME NEW m \in Macs, DeleteMac(m)
      PROVE  StoreTypeOK'
  <2>1. PICK q \in QueryRuns(1) :
          /\ table' = (IF Executes(q[1]) THEN DeleteWhere(table, {m}) ELSE table)
          /\ link' = LinkAfter(q, 1)
          /\ call'.ret = (IF q[1] = "ok" THEN 0 ELSE -2)
    BY <1>6 DEF DeleteMac, Returned, mysql_delete_mac
  <2>2. promised' \in [Macs -> Fds \cup {NoFd}]
    BY <1>6 DEF DeleteMac, StoreTypeOK
  <2>3. QED
    BY <1>4, <2>1, <2>2
<1>7. ASSUME NEW m \in Macs, UpdateLog(m)
      PROVE  StoreTypeOK'
  BY <1>7, LinkStays DEF UpdateLog, Returned, mysql_update_log, StoreTypeOK
<1>8. ASSUME NEW f \in Fds, SelectSession(f)
      PROVE  StoreTypeOK'
  <2>1. PICK q \in QueryRuns(1) :
          /\ link' = LinkAfter(q, 1)
          /\ call'.ret \in mysql_select_session(table, f, q[1])
    BY <1>8 DEF SelectSession, Returned
  <2>2. \A m \in Macs : table[m] # NoRow => table[m].agent_type \in Int
    BY DEF StoreTypeOK, Row, AgentTypes, REQ_INVALID, REQ_WINDOW_CLAYMORE
  <2>3. call'.ret \in Int
    BY <2>1, <2>2 DEF mysql_select_session, RowsOf
  <2>4. QED
    BY <1>8, <2>1, <2>3, LinkStays DEF SelectSession, StoreTypeOK
<1>9. QED
  BY <1>1, <1>2, <1>3, <1>5, <1>6, <1>7, <1>8, StoreCalls

(* The table, the link and the return values of log.c keep their types.    *)
THEOREM StoreTypeCorrect == StoreSpec => []StoreTypeOK
<1>1. StoreInit => StoreTypeOK
  BY DEF StoreInit, StoreTypeOK
<1>2. QED
  BY <1>1, StoreTypeStep, PTL DEF StoreSpec

-----------------------------------------------------------------------------

LEMMA NeverWrongStep ==
    ASSUME StoreTypeOK, NeverWrongFd, [StoreNext]_storeVars
    PROVE  NeverWrongFd'
<1>1. CASE UNCHANGED storeVars
  BY <1>1 DEF storeVars, NeverWrongFd
<1>2. CASE link' # "up"
  BY <1>2 DEF NeverWrongFd
<1>3. CASE StoreNext /\ link' = "up"
  <2>1. ASSUME NEW m \in Macs, NEW f \in Fds, NEW a \in AgentTypes, InsertFd(m, f, a)
        PROVE  NeverWrongFd'
    <3>1. PICK q \in QueryRuns(2) :
            LET r == mysql_insert_fd(table, m, f, a, q[1], q[2]) IN
            /\ table' = r.table
            /\ link' = LinkAfter(q, 2)
            /\ promised' = IF r.ret >= 0 THEN [promised EXCEPT ![m] = f] ELSE promised
            /\ call' = [op |-> "insert_fd", arg |-> m, ret |-> r.ret]
      BY <2>1 DEF InsertFd, Returned
    <3> DEFINE r == mysql_insert_fd(table, m, f, a, q[1], q[2])
    <3>2. link = "up" /\ q[1] \in {"ok", "fail"} /\ q[2] \in {"ok", "fail"}
      BY <1>3, <3>1, LinkHeld
    <3>3. /\ r.ret \in {f, -2}
          /\ \A k \in Macs : k # m => r.table[k] = table[k]
          /\ r.ret = -2 => r.table = table
          /\ r.ret = f /\ r.table[m] # NoRow => r.table[m].fd = f
      BY <3>2, InsertOutcome DEF StoreTypeOK, Store
    <3> HIDE DEF r
    <3>4. /\ table' = r.table
          /\ promised' = IF r.ret >= 0 THEN [promised EXCEPT ![m] = f] ELSE promised
          /\ call'.op = "insert_fd"
      BY <3>1 DEF r
    <3>5. f >= 0 /\ ~ (-2 >= 0)
      BY TableAssumption
    <3>6. ASSUME NEW k \in Macs, table'[k] # NoRow PROVE table'[k].fd = promised'[k]
      <4>1. table[k] # NoRow => table[k].fd = promised[k]
        BY <3>2 DEF NeverWrongFd
      <4>2. CASE r.ret = -2
        BY <3>3, <3>4, <3>5, <3>6, <4>1, <4>2
      <4>3. CASE r.ret = f
        <5>1. promised' = [promised EXCEPT ![m] = f]
          BY <3>4, <3>5, <4>3
        <5>2. QED
          BY <3>3, <3>4, <3>6, <4>1, <4>3, <5>1 DEF StoreTypeOK
      <4>4. QED
        BY <3>3, <4>2, <4>3
    <3>7. QED
      BY <3>4, <3>6 DEF NeverWrongFd
  <2>2. ASSUME NEW m \in Macs, SelectFd(m)
        PROVE  NeverWrongFd'
    <3>1. PICK q \in QueryRuns(1) :
            /\ link' = LinkAfter(q, 1)
            /\ call' = [op |-> "select_fd", arg |-> m, ret |-> mysql_select_fd(table, m, q[1])]
      BY <2>2 DEF SelectFd, Returned
    <3>2. link = "up" /\ table' = table /\ promised' = promised
      BY <1>3, <2>2, <3>1, LinkHeld DEF SelectFd
    <3>3. mysql_select_fd(table, m, q[1]) >= 0 =>
            table[m] # NoRow /\ mysql_select_fd(table, m, q[1]) = table[m].fd
      BY DEF mysql_select_fd
    <3>4. call'.ret >= 0 => call'.ret = promised'[call'.arg]
      BY <3>1, <3>2, <3>3 DEF NeverWrongFd
    <3>5. QED
      BY <3>2, <3>4 DEF NeverWrongFd
  <2>3. ASSUME NEW f \in Fds, DeleteFd(f)
        PROVE  NeverWrongFd'
    <3>1. PICK q \in QueryRuns(1) :
            /\ table' = (IF Executes(q[1]) THEN DeleteWhere(table, RowsOf(table, f)) ELSE table)
            /\ link' = LinkAfter(q, 1)
            /\ promised' = [m \in Macs |-> IF q[1] = "ok" /\ promised[m] = f
                                           THEN NoFd ELSE promised[m]]
            /\ call'.op = "delete_fd"
      BY <2>3 DEF DeleteFd, Returned, mysql_delete_fd
    <3>2. link = "up" /\ q[1] \in {"ok", "fail"}
      BY <1>3, <3>1, LinkHeld
    <3>3. ASSUME NEW k \in Macs, table'[k] # NoRow PROVE table'[k].fd = promised'[k]
      BY <3>1, <3>2, <3>3 DEF NeverWrongFd, Executes, DeleteWhere, RowsOf
    <3>4. QED
      BY <3>1, <3>3 DEF NeverWrongFd
  <2>4. ASSUME NEW m \in Macs, DeleteMac(m)
        PROVE  NeverWrongFd'
    <3>1. PICK q \in QueryRuns(1) :
            /\ table' = (IF Executes(q[1]) THEN DeleteWhere(table, {m}) ELSE table)
            /\ link' = LinkAfter(q, 1)
            /\ promised' = IF q[1] = "ok" THEN [promised EXCEPT ![m] = NoFd] ELSE promised
            /\ call'.op = "delete_mac"
      BY <2>4 DEF DeleteMac, Returned, mysql_delete_mac
    <3>2. link = "up" /\ q[1] \in {"ok", "fail"}
      BY <1>3, <3>1, LinkHeld
    <3>3. ASSUME NEW k \in Macs, table'[k] # NoRow PROVE table'[k].fd = promised'[k]
      BY <3>1, <3>2, <3>3 DEF NeverWrongFd, Executes, DeleteWhere, StoreTypeOK
    <3>4. QED
      BY <3>1, <3>3 DEF NeverWrongFd
  <2>5. ASSUME NEW x, UpdateLog(x) \/ SelectSession(x)
        PROVE  NeverWrongFd'
    <3>1. PICK q \in QueryRuns(1) : link' = LinkAfter(q, 1)
      BY <2>5 DEF UpdateLog, SelectSession
    <3>2. link = "up"
      BY <1>3, <3>1, LinkHeld
    <3>3. /\ table' = table /\ promised' = promised
          /\ call'.op \in {"update_log", "select_session"}
      BY <2>5 DEF UpdateLog, SelectSession, Returned, mysql_update_log
    <3>4. QED
      BY <3>2, <3>3 DEF NeverWrongFd
  <2>6. QED
    BY <1>3, <2>1, <2>2, <2>3, <2>4, <2>5, StoreCalls
<1>4. QED
  BY <1>1, <1>2, <1>3

(* log.c never answers a wrong number: whichever queries are rejected, over*)
(* a live link a mac has the fd last acknowledged for it or none at all.   *)
THEOREM LookupsRight == StoreSpec => []NeverWrongFd
<1>1. StoreInit => NeverWrongFd
  BY DEF StoreInit, NeverWrongFd
<1>2. StoreTypeOK /\ NeverWrongFd /\ [StoreNext]_storeVars => NeverWrongFd'
  BY NeverWrongStep
<1>3. QED
  BY <1>1, <1>2, StoreTypeCorrect, PTL DEF StoreSpec

LEMMA FailureStep ==
    ASSUME StoreTypeOK, StoreNext, call'.ret < 0, link' = "up"
    PROVE  table' = table
<1>1. ASSUME NEW m \in Macs, NEW f \in Fds, NEW a \in AgentTypes, InsertFd(m, f, a)
      PROVE  table' = table
  <2>1. PICK q \in QueryRuns(2) :
          /\ table' = mysql_insert_fd(table, m, f, a, q[1], q[2]).table
          /\ link' = LinkAfter(q, 2)
          /\ call'.ret = mysql_insert_fd(table, m, f, a, q[1], q[2]).ret
    BY <1>1 DEF InsertFd, Returned
  <2>2. q[1] \in {"ok", "fail"} /\ q[2] \in {"ok", "fail"}
    BY <2>1, LinkHeld
  <2> DEFINE r == mysql_insert_fd(table, m, f, a, q[1], q[2])
  <2>3. r.ret \in {f, -2} /\ (r.ret = -2 => r.table = table)
    BY <2>2, InsertOutcome DEF StoreTypeOK, Store
  <2> HIDE DEF r
  <2>4. table' = r.table /\ call'.ret = r.ret
    BY <2>1 DEF r
  <2>5. r.ret # f
    BY <2>4, TableAssumption
  <2>6. QED
    BY <2>3, <2>4, <2>5
<1>2. ASSUME NEW x, DeleteFd(x) \/ DeleteMac(x)
      PROVE  table' = table
  <2>1. PICK q \in QueryRuns(1) :
          /\ ~ Executes(q[1]) => table' = table
          /\ link' = LinkAfter(q, 1)
          /\ call'.ret = (IF q[1] = "ok" THEN 0 ELSE -2)
    BY <1>2 DEF DeleteFd, DeleteMac, Returned, mysql_delete_fd, mysql_delete_mac
  <2>2. q[1] \in {"ok", "fail"}
    BY <2>1, LinkHeld
  <2>3. QED
    BY <2>1, <2>2 DEF Executes
<1>3. ASSUME NEW x, SelectFd(x) \/ SelectSession(x) \/ UpdateLog(x)
      PROVE  table' = table
  BY <1>3 DEF SelectFd, SelectSession, UpdateLog, mysql_update_log
<1>4. QED
  BY <1>1, <1>2, <1>3, StoreCalls

(* A call of log.c that reports failure over a link that survives it has   *)
(* left the table as it was.                                               *)
THEOREM FailuresChangeNothing == StoreSpec => FailureChangesNothing
<1>1. StoreTypeOK /\ [StoreNext]_storeVars
        => [call'.ret < 0 /\ link' = "up" => table' = table]_storeVars
  BY FailureStep
<1>2. QED
  BY <1>1, StoreTypeCorrect, PTL DEF StoreSpec, FailureChangesNothing

-----------------------------------------------------------------------------
(* What the return values say, where the database rejects nothing.         *)

(* Over a link that holds, a query that cannot be rejected was accepted.   *)
LEMMA LinkHeldAccepts ==
    ASSUME "fail" \notin QueryFaults,
           NEW n \in Nat \ {0}, NEW q \in QueryRuns(n), LinkAfter(q, n) = "up"
    PROVE  link = "up" /\ \A i \in 1..n : q[i] = "ok"
<1>1. link = "up" /\ \A i \in 1..n : q[i] \in {"ok", "fail"}
  BY LinkHeld
<1>2. \A i \in 1..n : q[i] \in {"ok"} \cup QueryFaults \cup {"lost"}
  BY DEF QueryRuns
<1>3. QED
  BY <1>1, <1>2

LEMMA TruthStep ==
    ASSUME "fail" \notin QueryFaults, StoreTypeOK, ReturnMeansStored, [StoreNext]_storeVars
    PROVE  ReturnMeansStored'
<1>1. CASE UNCHANGED storeVars
  BY <1>1 DEF storeVars, ReturnMeansStored
<1>2. CASE link' # "up"
  BY <1>2 DEF ReturnMeansStored
<1>3. CASE StoreNext /\ link' = "up"
  <2>1. ASSUME NEW m \in Macs, NEW f \in Fds, NEW a \in AgentTypes, InsertFd(m, f, a)
        PROVE  ReturnMeansStored'
    <3> DEFINE row == [fd |-> f, agent_type |-> a]
    <3>1. PICK q \in QueryRuns(2) :
            LET r == mysql_insert_fd(table, m, f, a, q[1], q[2]) IN
            /\ table' = r.table
            /\ link' = LinkAfter(q, 2)
            /\ promised' = IF r.ret >= 0 THEN [promised EXCEPT ![m] = f] ELSE promised
      BY <2>1 DEF InsertFd
    <3>2. link = "up" /\ q[1] = "ok" /\ q[2] = "ok"
      BY <1>3, <3>1, LinkHeldAccepts
    <3>3. row \in Row /\ row # NoRow /\ f \in Nat
      BY TableAssumption DEF Row
    <3>4. table' = [table EXCEPT ![m] = row] /\ promised' = [promised EXCEPT ![m] = f]
      BY <3>1, <3>2, <3>3 DEF mysql_insert_fd, Insert, Update, Executes, StoreTypeOK
    <3>5. QED
      BY <3>2, <3>3, <3>4 DEF ReturnMeansStored, StoreTypeOK
  <2>2. ASSUME NEW f \in Fds, DeleteFd(f)
        PROVE  ReturnMeansStored'
    <3>1. PICK q \in QueryRuns(1) :
            /\ table' = (IF Executes(q[1]) THEN DeleteWhere(table, RowsOf(table, f)) ELSE table)
            /\ link' = LinkAfter(q, 1)
            /\ promised' = [m \in Macs |-> IF q[1] = "ok" /\ promised[m] = f
                                           THEN NoFd ELSE promised[m]]
      BY <2>2 DEF DeleteFd, mysql_delete_fd
    <3>2. link = "up" /\ q[1] = "ok"
      BY <1>3, <3>1, LinkHeldAccepts
    <3>3. QED
      BY <3>1, <3>2 DEF ReturnMeansStored, Executes, DeleteWhere, RowsOf, StoreTypeOK
  <2>3. ASSUME NEW m \in Macs, DeleteMac(m)
        PROVE  ReturnMeansStored'
    <3>1. PICK q \in QueryRuns(1) :
            /\ table' = (IF Executes(q[1]) THEN DeleteWhere(table, {m}) ELSE table)
            /\ link' = LinkAfter(q, 1)
            /\ promised' = IF q[1] = "ok" THEN [promised EXCEPT ![m] = NoFd] ELSE promised
      BY <2>3 DEF DeleteMac, mysql_delete_mac
    <3>2. link = "up" /\ q[1] = "ok"
      BY <1>3, <3>1, LinkHeldAccepts
    <3>3. QED
      BY <3>1, <3>2 DEF ReturnMeansStored, Executes, DeleteWhere, StoreTypeOK
  <2>4. ASSUME NEW x, UpdateLog(x) \/ SelectSession(x) \/ SelectFd(x)
        PROVE  ReturnMeansStored'
    <3>1. PICK q \in QueryRuns(1) : link' = LinkAfter(q, 1)
      BY <2>4 DEF UpdateLog, SelectSession, SelectFd
    <3>2. link = "up"
      BY <1>3, <3>1, LinkHeld
    <3>3. table' = table /\ promised' = promised
      BY <2>4 DEF UpdateLog, SelectSession, SelectFd, mysql_update_log
    <3>4. QED
      BY <3>2, <3>3 DEF ReturnMeansStored
  <2>5. QED
    BY <1>3, <2>1, <2>2, <2>3, <2>4, StoreCalls
<1>4. QED
  BY <1>1, <1>2, <1>3

(* "when successed return positive else nagative" (log.c:23) is true of a  *)
(* database that rejects no query for a reason of its own: until the link  *)
(* is cut, the table is exactly the directory the return values describe.  *)
THEOREM TruthUnlessRejected ==
    ASSUME "fail" \notin QueryFaults
    PROVE  StoreSpec => []ReturnMeansStored
<1>1. StoreInit => ReturnMeansStored
  BY DEF StoreInit, ReturnMeansStored
<1>2. StoreTypeOK /\ ReturnMeansStored /\ [StoreNext]_storeVars => ReturnMeansStored'
  BY TruthStep
<1>3. QED
  BY <1>1, <1>2, StoreTypeCorrect, PTL DEF StoreSpec

=============================================================================
