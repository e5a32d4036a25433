--------------------------- MODULE CmdRoutingProofs --------------------------
(***************************************************************************)
(* What CmdRouting, and with it every server that implements it, promises. *)
(***************************************************************************)
EXTENDS CmdRouting, TLAPS

RoutingType ==
    /\ serving \in BOOLEAN
    /\ present \subseteq Peers
    /\ claims \in [Peers -> SUBSET Names]
    /\ dir \in [Names -> Peers \cup {None}]

(* A name belongs to a peer that is connected and claimed it, and a command*)
(* that left went to the peer its name belongs to.                         *)
OwnersPresent ==
    /\ \A n \in Names : dir[n] # None => dir[n] \in present /\ n \in claims[dir[n]]
    /\ sent # Nothing => /\ sent.name \in Names
                         /\ sent.to # None /\ sent.to = dir[sent.name]

(* Those who are not connected claim nothing: a number that is given to    *)
(* another peer comes without the names of the one before.                 *)
LeaversForgotten == \A p \in Peers \ present : claims[p] = {}

RoutingInv == RoutingType /\ OwnersPresent /\ LeaversForgotten

LEMMA ClaimKeeps ==
    ASSUME Users \in Names, None \notin Peers, RoutingInv,
           NEW p \in Peers, NEW n \in Names, Claim(p, n)
    PROVE  /\ present' \subseteq Peers
           /\ claims' \in [Peers -> SUBSET Names]
           /\ dir' \in [Names -> Peers \cup {None}]
           /\ \A m \in Names : dir'[m] # None => dir'[m] \in present' /\ m \in claims'[dir'[m]]
           /\ LeaversForgotten'
<1>1. /\ present' = present /\ p \in present
      /\ claims' = [claims EXCEPT ![p] = @ \cup {n}]
      /\ dir' = [dir EXCEPT ![n] = p]
  BY DEF Claim
<1>2. \A m \in Names : dir'[m] # None => dir'[m] \in present' /\ m \in claims'[dir'[m]]
  BY <1>1 DEF RoutingInv, RoutingType, OwnersPresent
<1>3. QED
  BY <1>1, <1>2 DEF RoutingInv, RoutingType, LeaversForgotten

LEMMA RoutingInvStep ==
    ASSUME Users \in Names, None \notin Peers, RoutingInv, [RoutingNext]_routingVars
    PROVE  RoutingInv'
<1> USE DEF RoutingInv
<1>1. CASE UNCHANGED routingVars
  BY <1>1 DEF routingVars, RoutingType, OwnersPresent, LeaversForgotten
<1>2. CASE Begin
  BY <1>2 DEF Begin, RoutingType, OwnersPresent, LeaversForgotten
<1>3. CASE GiveUp
  BY <1>3 DEF GiveUp, NoClaim, Empty, RoutingType, OwnersPresent, LeaversForgotten
<1>4. CASE Pass
  BY <1>4 DEF Pass, RoutingType, OwnersPresent, LeaversForgotten
<1>5. ASSUME NEW p \in Peers, Join(p)
      PROVE  RoutingInv'
  BY <1>5 DEF Join, RoutingType, OwnersPresent, LeaversForgotten
<1>6. ASSUME NEW p \in Peers, Leave(p)
      PROVE  RoutingInv'
  BY <1>6 DEF Leave, RoutingType, OwnersPresent, LeaversForgotten
<1>7. ASSUME NEW p \in Peers, NEW n \in Names, Announce(p, n)
      PROVE  RoutingInv'
  BY <1>7, ClaimKeeps DEF Announce, RoutingType, OwnersPresent
<1>8. ASSUME NEW p \in Peers, NEW n \in Names, Command(p, n)
      PROVE  RoutingInv'
  <2>1. Claim(p, Users) /\ UNCHANGED serving
    BY <1>8 DEF Command
  <2>2. sent' = Nothing \/ (dir'[n] # None /\ sent' = [name |-> n, to |-> dir'[n]])
    BY <1>8 DEF Command
  <2>3. QED
    BY <2>1, <2>2, ClaimKeeps DEF RoutingType, OwnersPresent
<1>9. QED
  BY <1>1, <1>2, <1>3, <1>4, <1>5, <1>6, <1>7, <1>8 DEF RoutingNext

(* The directory is right: each name leads to a connected peer that claimed*)
(* it, commands leave for the owner of their name, and a number that is    *)
(* reused comes without claims.                                            *)
THEOREM DirectoryRight ==
    ASSUME Users \in Names, None \notin Peers
    PROVE  RoutingSpec => [](OwnersPresent /\ LeaversForgotten)
<1>1. RoutingInit => RoutingInv
  BY DEF RoutingInit, NoClaim, Empty, RoutingInv, RoutingType, OwnersPresent, LeaversForgotten
<1>2. RoutingInv /\ [RoutingNext]_routingVars => RoutingInv'
  BY RoutingInvStep
<1>3. RoutingInv => OwnersPresent /\ LeaversForgotten
  BY DEF RoutingInv
<1>4. QED
  BY <1>1, <1>2, <1>3, PTL DEF RoutingSpec

=============================================================================
