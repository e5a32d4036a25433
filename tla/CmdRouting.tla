----------------------------- MODULE CmdRouting -----------------------------
(***************************************************************************)
(* What the server promises, without a database, packets or events: while  *)
(* it is in service it keeps a directory of the peers that are connected.  *)
(* A name belongs to the peer that claimed it last, and to nobody once     *)
(* that peer has left.  A command goes to the peer its name belongs to, or *)
(* nowhere.  Going out of service takes the whole directory with it; what  *)
(* happens until the next beginning is not promised.  CmdAgent implements  *)
(* this specification (CmdAgent!ImplementsRouting).                        *)
(***************************************************************************)
EXTENDS Integers

CONSTANTS Names,   \* what peers announce and commands are addressed to
          Peers,   \* the numbers connections are known by
          Users    \* the one name under which those who command are listed

VARIABLES serving,   \* the promise holds
          present,   \* connected peers
          claims,    \* the names each of them has claimed
          dir,       \* whom each name belongs to, or None
          sent       \* the last command that left, or Nothing

routingVars == <<serving, present, claims, dir, sent>>

None    == -1
Nothing == [name |-> "", to |-> None]
Empty   == [n \in Names |-> None]
NoClaim == [p \in Peers |-> {}]

-----------------------------------------------------------------------------

RoutingInit ==
    /\ serving = FALSE
    /\ present = {}
    /\ claims = NoClaim
    /\ dir = Empty
    /\ sent = Nothing

Begin ==
    /\ ~ serving
    /\ serving' = TRUE
    /\ UNCHANGED <<present, claims, dir, sent>>

\* The server ends, loses its database, or can no longer trust the table.
GiveUp ==
    /\ serving
    /\ serving' = FALSE
    /\ present' = {}
    /\ claims' = NoClaim
    /\ dir' = Empty
    /\ sent' = Nothing

Join(p) ==
    /\ serving
    /\ p \notin present
    /\ present' = present \cup {p}
    /\ sent' = Nothing
    /\ UNCHANGED <<serving, claims, dir>>

Leave(p) ==
    /\ serving
    /\ p \in present
    /\ present' = present \ {p}
    /\ claims' = [claims EXCEPT ![p] = {}]
    /\ dir' = [n \in Names |-> IF dir[n] = p THEN None ELSE dir[n]]
    /\ sent' = Nothing
    /\ UNCHANGED serving

Claim(p, n) ==
    /\ p \in present
    /\ claims' = [claims EXCEPT ![p] = @ \cup {n}]
    /\ dir' = [dir EXCEPT ![n] = p]
    /\ UNCHANGED present

Announce(p, n) ==
    /\ serving
    /\ Claim(p, n)
    /\ sent' = Nothing
    /\ UNCHANGED serving

\* p commands the peer named n, and is listed as a user itself.  The
\* command may also fail to leave.
Command(p, n) ==
    /\ serving
    /\ Claim(p, Users)
    /\ \/ sent' = Nothing
       \/ dir'[n] # None /\ sent' = [name |-> n, to |-> dir'[n]]
    /\ UNCHANGED serving

\* Whatever else the server does, it sends nothing.
Pass ==
    /\ serving
    /\ sent' = Nothing
    /\ UNCHANGED <<serving, present, claims, dir>>

RoutingNext ==
    \/ Begin \/ GiveUp \/ Pass
    \/ \E p \in Peers : Join(p) \/ Leave(p)
    \/ \E p \in Peers, n \in Names : Announce(p, n) \/ Command(p, n)

RoutingSpec == RoutingInit /\ [][RoutingNext]_routingVars

=============================================================================
