# cmd_agent-server: TLA+ models and proofs

`cmd_agent-server` relays commands from a UX client to mining rigs. Miners
connect over TCP and announce their mac; the server stores *mac -> socket fd* in
a MySQL table. A UX client connects to the same port and sends a command for a
mac; the server looks up the fd and writes the command straight to that socket.
The process has one thread, an epoll loop, and about 900 lines of C under
`src/src/`. It comes without tests; the statements the models are held against
are the comments in the code.

## Inventory

| Part | Source | State | Operations | What makes it correct |
|---|---|---|---|---|
| epoll loop, callbacks | `main.c` | descriptors, epoll interest, the current batch, one `session_t` per batch | start, wait, accept, read, close, handle a packet by agent type | no event is served on a closed number; every connected socket is watched; all peers are served; one peer does not end the service of the others |
| session table | `log.c` | table `cmd_agent_session`, one connection | insert-else-update, select by mac, select by fd, delete by fd or mac, update log | a row names a connected peer that announced the mac; return values tell the truth |
| parsers | `parse.c` | none (fill `session_t`) | agent type, command fields, agent fields, command type | a packet is handled with its own fields |
| socket reading | `session.c` `socket_read` | a growing buffer | read until NUL, end, error or nothing more | what was sent is read, in the packets it was sent in |
| command message | `session.c` `msg_client_info` | open files | read a file, build JSON | uses no resources up, never ends the process |
| helpers | `utils.c` | none | die, listen, nonblocking mode | |
| write path | `main.c` `on_peer_ready_send`, EPOLLOUT | `global_state` | never runs (proved) | |
| json-c, MySQL client | `lib/` | | vendored, external | |

The parts meet in `on_peer_ready_recv`: it calls `socket_read`, parses, queries
the table and sends, all before the loop looks at the next event. What is hard
there: numbers are reused by the kernel while the table, which survives the
process, still holds them; peers close, reset and send between `epoll_wait` and
the handling of their event; any query may be rejected, lost, or executed with
its answer lost; nothing reconnects to the database; `session_t` is shared by a
batch, uninitialised, and points into packets already released; one read may
yield part of a packet or several; each command uses up a descriptor.
`PROJECT.json` lists these hazards one by one with the properties that cover them.

## Modules

    SessionTable <- SessionStore <- MCSessionStore
                    SessionStore <- SessionStoreProofs
    SessionTable <- Protocol <- CmdAgent <- MCCmdAgent
                                CmdAgent <- WellBehaved <- MCWellBehaved (with MCCmdAgent)
                                CmdAgent <- CmdAgentProofs <- RoutingProofs
                                            CmdAgentProofs <- CommentProofs
                                            CmdAgentProofs <- SurvivalProofs (with WellBehaved)
    CmdRouting <- CmdRoutingProofs
    SocketRead <- MCSocketRead
    SocketRead <- SocketReadProofs

    CmdAgent   implements CmdRouting
    SocketRead implements Reading

* **SessionTable** (`log.c`): the table as a function from macs to rows, and each
  function of `log.c` as an operator from the table and the outcomes of its
  queries to the new table and the return value. The outcome of a query is
  `ok`, `fail` (rejected), `lost` (link gone before) or `applied` (executed, the
  answer lost with the link); after `lost` or `applied` every later query is
  `lost`. The database is external: `mac` is taken to be the unique key, which
  is what insert-else-update relies on.
* **SessionStore**: `log.c` alone, its six functions called in any order, with the
  directory that the return values describe as a history variable.
* **Protocol** (`parse.c`): a packet is the sequence of its JSON entries, or NULL
  when it parses to no object. `Wild` is the content of a field that was never
  assigned or points into a released packet.
* **CmdAgent** (`main.c`, `session.c`, `utils.c`): the whole server with its
  environment. A step of the process is the handling of one event with all the
  calls it makes; between steps peers connect, send, close, reset or vanish.
* **WellBehaved**: the peers and the descriptors with which the server stays alive, as
  one assumption on the constants. It has no state; the run `core` satisfies it and the
  proof of survival starts from it.
* **CmdRouting**: what the server promises, without database, packets or events:
  a directory of connected peers in which a name belongs to its last claimant, to
  nobody once that peer left, and a command goes to the owner of its name or nowhere.
* **SocketRead** (`session.c` `socket_read`): the calls of `recv` one by one, the
  buffer that grows, and the bytes that arrive between two of them.
* **Reading**: the same call as one step on the bytes not yet read, the view of it
  that `CmdAgent` takes.

The state and the actions of `CmdAgent`:

| Variable | In the code |
|---|---|
| `up`, `link`, `table` | the process; `conn`; table `cmd_agent_session` |
| `fdtab`, `interest`, `inbox`, `remote` | kernel state of each number: kind, epoll registration, unread data, the peer's end (`broken`: a reset that a send has already reported) |
| `batch` | `events[i..nready-1]` |
| `session` | the pointers and integer of the batch's `session_t` |
| `backlog` | the listening socket's queue |
| `announced`, `fwd`, `taint` | history: macs each present peer announced; the command handled by the last step; faults the table may carry traces of |
| `suspect` | history: numbers whose rows nobody vouches for, because they were not deleted when their peer left, were in the table when the process ended, or come from a packet without mac |
| `conns`, `cells`, `runs` | counters for the bounds |

| Action | Code |
|---|---|
| `Startup`, `Poll` | `main` 213-251; 253-256 |
| `AcceptAgain`, `AcceptDies`, `Accept` | `main` 261-301 |
| `RecvAgain`, `RecvError`, `RecvEof` | `socket_read` without data; the close in `main` 318-325 is part of `RecvEof` |
| `RecvMalformed`, `RecvInvalid`, `AgentHello`, `UxCommand` | a packet, by what it parses to; `UxCommand` includes `msg_client_info` and `send` |
| `PeerError` | EPOLLERR |
| `Die` | the end of the process on any of these ways: `die`, `perror_die`, a null or wild pointer, SIGPIPE |
| `Connect`, `AbortConnect`, `PeerSend`, `PeerClose`, `PeerReset` | the peers |

In `SocketRead`, `kernel` and `conn` are the socket, `reading`, `recv_data` and `result`
the call (`*ret` and the packet), `last` and `written` the peer, and `gap` a history
variable: bytes of a packet were dropped or split off. `Call` is epoll reporting the
socket, `Recv` a `recv` that gave bytes with the copy and the test for the end,
`RecvNothing` one that gave 0, EAGAIN or an error. A byte is the first of a packet, a
later one or a NUL: that is all the properties tell apart.

**Refinements.** `CmdAgent!Routing` maps the server's state to `CmdRouting`: it serves
while the link is up and nothing taints the table (`Serving`), `Present` are the
connected numbers, `Claims` the history `announced`, `Dir` the table's fds, `Sent` the
command the last step sent. Out of service all of these are empty, for nothing is
promised then. `SocketRead!Whole` maps the bytes copied so far followed by the
kernel's (`Stream`) to `Reading`'s unread bytes, so a `recv` that does not end the call
is a stutter. `CmdAgent` rests on `Reading` for two things: what a read returns is a
prefix of what was sent, and a read that finds nothing more has dropped what it had,
which then ended in no NUL.

Abstractions. Data comes in *cells*, what one `recv` returns: a packet, its first
part or its rest. `socket_read` stops when the last byte, or the byte behind the
buffer, is NUL; the latter is outside the buffer and may be anything, so any
prefix of the waiting cells may be what it returns. Undefined behaviour is a
choice: a wild mac is any mac or fatal; the write one past the file buffer
hurts or does not for the sizes in `ClobberFiles`. `SIZE_T` stands for 2^64. The
JSON text of a command, the log output and the lengths of strings are left out.
Numbers below those of peers (stdio, database, epoll, listener) are not in `Fds`.

## Runs

Bounds are named in the configurations: `MaxConns`, `MaxCells`, `MaxRuns`, and the
sets `Fds`, `Macs`, `Cells`. Deadlock is not checked for CmdAgent, because peers run out of
moves at the bounds and a process that died may stay dead, nor for SocketRead, where
a peer that sent its bytes may fall silent.

| Run | Instance | Shows |
|---|---|---|
| `store` | 2 macs, 3 numbers, all query faults | `NeverWrongFd`: a lookup never answers a number other than the last acknowledged one; `FailureChangesNothing`: a failed call over a live link changed nothing; `StoreTypeOK` |
| `core` | 3 connections over 6 numbers, 3 packets, a query rejected or the link lost at any time, connections gone before accept | `ImplementsRouting`, `RowsLive`, `Delivery`, `Survives`, `TypeOK` |
| `faults` | 2 connections, 3 packets, every query and peer fault, MAXFDS reached, 2 processes | `BatchLive`, `WatchedForReading`, `RowsLive`, `Delivery`, `RowsLeaveWithPeer` |
| `packets` | 2 connections, 3 packets of 8 kinds, most of them odd | `OwnFields` |
| `live` | 3 connections over 2 numbers, split and unterminated packets, fairness | `ClosedPeersReaped`, `ConnectionsAccepted`, `DataRead` |
| `socket_read` | `recv` takes 3 bytes, the peer sends 7 in any packets, pauses, closes or resets, fairness | `ImplementsReading`, `Aligned`, `CallReturns`, `ReadTypeOK` |

Why the bounds are enough: a stale row takes a peer that announces and leaves, a
second that gets its number and a command, that is two connections and two
packets, one of each less than `core` has; two numbers of a batch suffice for an
event to be disturbed by another (`faults` also passes with three connections, in 3.1
million states, which takes more than its five minutes); sharing of `session_t` needs two packets in a
batch. What `core`, `faults` and `packets` check is proved without bounds
below. For `Survives`, `core` has six numbers: three sockets, one used up by the
first of at most two commands that find their miner (which takes the other packet), and
the two that the second command needs; with fewer the server does die of its leak. TLC
evaluates `WellBehavedAssumption` there: peers send whole, well-formed packets, name
readable files, end with an orderly close and are never reset. A reset ends this server
by design of the loop (`main.c:257`). That includes the reset with which the kernel of a
peer that closed in good order answers a command that was sent before its end of file
was served: `core` leaves it out, `faults` and `restart` have it (`PeerReset` of a closed
peer).
With `recv` taking 3 bytes and 7 sent, packets are shorter than the buffer, fill it, leave
their NUL to a `recv` of its own, span three of them, or follow each other in one.

Six runs end in a violation; each is a disagreement between a comment and the
code, described under `findings`:

| Run | Comment | Code |
|---|---|---|
| `store_reject` | `log.c:23` positive on success | a rejected insert, then an update of no row, returns success |
| `no_mac` | `main.c:110` looked up with the request's mac | without one, with an indeterminate pointer |
| `sent` | `main.c:121` traffic was sent | `send` returned -1, stored unsigned |
| `restart` | `main.c:117` connected with the client's session | a row of the process before names another peer now |
| `malformed` | `parse.c:17` an invalid packet | a null pointer is dereferenced |
| `first_key` | `parse.c:15` only the first key | the first value that is a string, under any key |

Each property of a passing run has a mutant of the code (listed in
`PROJECT.json`) that violates it: a delete that matches nothing or everything, a
socket registered for writing as the commented-out line `main.c:60` would have it, or
for nothing, a socket closed inside another's handler, one kept after its end of file, an
EAGAIN treated as an error, and so on.

**Fairness.** `FairSpec` asks that `Poll` and `ServeSome` be taken when they stay
enabled. For `Poll` the code justifies it: level-triggered `epoll_wait` returns when
something is ready. Serving an event does not wait for peers, since all sockets are
nonblocking, but it makes calls that may block: `mysql_query`, which is synchronous and has
no timeout, `getnameinfo` for every new peer (`utils.c:40`), and `fopen` when the path of a
command is a FIFO. `ServeSome` assumes that these calls return; in particular that the
database answers or fails in the end, not that it succeeds. If one never returns nobody
is served any more, and the three properties of `live` fail. Nothing is asked of peers
or of the operator who restarts the process. A batch is finite and each step
serves one event of it. `ServeSome` treats a read as one step, which is right if the
read returns: `CallReturns`, checked with weak fairness of `Recv \/ RecvNothing` (the
thread in `socket_read` is not suspended for good, and a nonblocking `recv` returns).
It holds because the peer sends finitely many bytes; one that never pauses, and
never has a NUL at the end of a `recv`, keeps the loop to itself.

## Proofs

For all numbers, macs, packets, bounds and faults that satisfy `TableAssumption`,
`CmdAssumption` and, for SocketRead, `ReadAssumption`, with what else a theorem asks
for in the last column:

| Theorem | States | If |
|---|---|---|
| `TypeCorrect` | `Spec => []TypeOK` | |
| `EventsStayLive` | `Spec => []BatchLive` | |
| `RowsStayLive` | `Spec => []RowsLive` | |
| `CommandsDelivered` | `Spec => []Delivery` | |
| `OnlyReads` | `Spec => []WatchedForReading` | |
| `NothingToWrite` | `Spec => []ReadsOrErrors` | |
| `RowsMoveWithPeers` | `Spec => RowsLeaveWithPeer` | |
| `CommandsOwnFields` | `Spec => []OwnFields` | |
| `RoutingRefined` (RoutingProofs) | `Spec => ImplementsRouting` | |
| `DirectoryRight` (CmdRoutingProofs) | `RoutingSpec => [](OwnersPresent /\ LeaversForgotten)` | `Users` is a name, `None` no peer |
| `PeersSurvived` (SurvivalProofs) | `Spec => []Survives` | `WellBehavedAssumption` |
| `LookedUpByRequestMac` (CommentProofs) | `Spec => []LookupByRequestMac` | packets state their macs |
| `FirstKeyDecides` | `Spec => []FirstKeyOnly` | packets begin with a string |
| `ClientFound` | `Spec => []LookupFindsClient` | macs stated, no query rejected, no restart |
| `ReadTypeCorrect` (SocketReadProofs) | `Spec => []ReadTypeOK` | |
| `PacketsAligned` | `Spec => []Aligned` | |
| `ReadingRefined` | `Spec => ImplementsReading` | |
| `StoreTypeCorrect` (SessionStoreProofs) | `StoreSpec => []StoreTypeOK` | |
| `LookupsRight` | `StoreSpec => []NeverWrongFd` | |
| `FailuresChangeNothing` | `StoreSpec => FailureChangesNothing` | |
| `TruthUnlessRejected` | `StoreSpec => []ReturnMeansStored` | no query rejected |

`RowsLive` is not inductive alone. A row is written with the number of the event
being served, so that number must still be open: this is `BatchLive`, which in turn
needs that no two events of a batch share a number, for the handler of one closes its
own. With `TypeOK` the conjunction is inductive, one step per action. The cases
that matter: `Accept` hands out a number that is free, so no row names it that is not suspect
(`LowestFreeIsFree`, by well-foundedness of the naturals); `RecvEof` frees a number
whose rows an executed delete has removed (`DeleteFdTable`), answered or not, and makes
it suspect if the delete was not executed; a command opens a file on a free number only;
`Die` makes every number in the table suspect. `Delivery` follows: a select that
answered found a row of the new table, for which `RowsLive` holds.

`RowsLive` and `Delivery` hold at all times, with the link gone and after a restart too. What
they except is a set of numbers. It is a narrow one: a rejected delete or one
over a lost link puts the number of the peer that left in doubt and no other, an executed
one takes it out again, and a rejected insert or a lost answer casts no doubt at all.

`OwnFields` is inductive with `TypeOK`, and rests on `parse_json_cmd` assigning what the
packet states, whatever the shared `session_t` held, and on a stated mac being no wild
pointer (`CmdAssumption`).

`NothingToWrite` says of every event of a batch that it asks for something and never for
writing. `Poll` makes events from the interest of the sockets, which `OnlyReads` pins
down, and every later step only takes events away. It is why the EPOLLOUT branch can
be left out of the model without leaving out behaviour.

**The server implements the directory.** `RoutingRefined` needs two more invariants.
`DownIsEmpty`: while no process runs there is no link, event, socket or claim, so that
what `Startup` leaves alone is what `CmdRouting` begins with. `NoStrayClaims`: a number that
is no socket has no claims, so that `Join` may leave the claims alone when a number is
reused. The proof then goes action by action (`AcceptStep` is `Join`, `EofStep` is `Leave`,
`HelloStep` is `Announce`, `UxStep` is `Command`, `QuietStep` is `Pass` or a stutter). A step that
loses the link, has a query rejected or reads a wild mac is `GiveUp`, and there is no way
back but a start over an empty table (`TrustReturns`). `DirectoryRight` says that this
is worth implementing: in `CmdRouting` itself a name leads to a connected peer that
claimed it, a command leaves for the owner of its name, and a peer that left has no
claims that the next holder of its number could inherit.

**The server survives well-behaved peers.** Among the ways to die are numbers that run
out: a command opens its file twice and closes it once. `Budgets` counts what uses a
number. Sockets and waiting connections are paid for by connections made
(`SocketBudget`). `accept` takes a number before it looks whether the connection is
still there, so an event of the listening socket needs one even when nobody waits any
more; the connection that it was reported for pays (`AcceptBudget`, which needs
`BatchLive`: after an `Accept` the batch has no second such event). Unread packets and files left open, and one more once any miner has a
row (`Known`), are paid for by packets sent (`CellBudget`); a packet that announces
pays for `Known`, and a command for the file it leaves open. A command that comes as far
as its file found a row (`MinerWasKnown`), so `Known` is there to pay for the second
number it needs for a moment (`RoomToBuild`): without `Known` in the count, a last
command would want one number more than `MaxConns + MaxCells`.
Unread packets are counted as pairs of a number and a place in its inbox, for a sum over
the inboxes would take an induction. `NoResets` excludes EPOLLERR and SIGPIPE, and
is an assumption on more than the peers' manners: a peer that closed is still sent
commands until its end of file is served, and its kernel may answer with a reset. The
other ways to die (a wild or null pointer, an unknown command, the write past the file
buffer) are excluded packet by packet from `Proper` (`ProperCommand`, `CommandHandled`).
Nothing is asked of the outcome of queries: they may be rejected and the link may go.

**Comments that hold on a condition.** Five of the six comments that TLC refutes hold
when the circumstance of the counterexample is excluded, and this is proved: the code
agrees with them otherwise. `malformed` is covered by `PeersSurvived`. `FirstKeyDecides`
follows from `FromUx` (`fwd` describes a packet whose agent type is ux), and
`LookedUpByRequestMac` from that and `OwnFields`. `ClientFound` needs `Vouched`: with
one process, no rejected query and no wild mac, no number is suspect while the link is
up, and a command that left was looked up over a link that was up, so `Delivery`
applies to it without exception. `TruthUnlessRejected` keeps the table equal
to the directory promised while the link is up, since an insert followed by an update
then always stores its row. For the sixth, `main.c:121`, there is no such condition
short of excluding every failing `send`: a full socket buffer of a healthy miner gives
-1, and -1 is always taken for success.

**socket_read.** `Aligned` is not inductive: that a returned buffer begins with a packet
depends on what is still to be read. `StreamOK` says that in `Stream` each byte may follow
the one before it, that `last` is its last byte, and that, as long as there was no `gap`,
it begins with the first byte of a packet. `CallOK` says that between calls nothing is
copied, and that a call that goes on has not read a NUL last, which is why dropping
what was copied never drops a finished packet.

**log.c.** `NeverWrongFd` is inductive with `StoreTypeOK`: an insert that is
acknowledged writes its number or leaves the mac without a row, one that is reported as
failed over a live link wrote nothing, and a delete only ever removes.

Only model-checked: liveness (`CallReturns`, `ClosedPeersReaped`, `ConnectionsAccepted`,
`DataRead`), which with ENABLED is beyond the prover.

## Not modelled

* The write path: `on_peer_ready_send`, the EPOLLOUT branch, `global_state`. No callback asks
  for writing (`OnlyReads`, proved), so a model of it would start from states the program
  cannot be in.
* `append_null` and `xmalloc`, called nowhere; code under `#if 0`; printing; memory never freed.
* The text of queries and their 256-byte buffers: macs are model values without a
  length, so a long one (`log.c:59`) is out of sight.
* The loops of `parse.c` step by step: they have no state but the fields they fill, and
  the operators of `Protocol` translate them directly.
* `lib/`: json-c and the MySQL client are vendored headers and binaries, over 30 of the
  repository's 31 thousand lines. They are external here, modelled by how `src/src`
  uses them; the map covers the code of `src/src` that can run.

## Plan

What is left is small: the length of macs in `log.c` as data, should a property on the
query buffers be wanted, and a sharper account of when the leaked descriptors run out
than the budget under which they provably do not.
