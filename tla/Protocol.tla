------------------------------ MODULE Protocol ------------------------------
(***************************************************************************)
(* src/parse.c: what the server makes of a received packet.  A packet that *)
(* json-c parses into an object is the sequence of its entries in arrival  *)
(* order, keys pairwise different (a repeated key overwrites its value in  *)
(* place); anything else parses to NULL or to something that is no object, *)
(* both of which are NULL here.                                            *)
(*                                                                         *)
(* The parsers store in session_t pointers into the json object, which     *)
(* on_peer_ready_recv releases before it returns (main.c:174), so such a   *)
(* field is good during one callback only.  Wild is the content of a field *)
(* that was never assigned or whose string was released.                   *)
(***************************************************************************)
EXTENDS Integers, Sequences, SessionTable

CONSTANTS Wild,   \* an indeterminate field of session_t
          NULL    \* the null pointer

\* Entries whose value is a json string; the parsers skip the other types.
Strings(json) == {i \in DOMAIN json : json[i].type = "string"}

HasStr(json, k) == \E i \in Strings(json) : json[i].key = k
Str(json, k)    == json[CHOOSE i \in Strings(json) : json[i].key = k].val

\* The loop looks at values only, and goes past the ones that are no string.
get_agent_type(json) ==
    LET first == CHOOSE i \in Strings(json) : \A j \in Strings(json) : i <= j
        value == json[first].val
    IN  CASE Strings(json) = {}               -> REQ_INVALID
          [] value = "linux-claymore-nvidia"  -> REQ_LINUX_CLAYMORE
          [] value = "ux"                     -> REQ_UX
          [] OTHER                            -> REQ_INVALID

\* C's atoi on the numerals the instances use: no leading digit gives 0.
atoi(s) == CASE s = "1" -> 1 [] s = "2" -> 2 [] OTHER -> 0

\* The fields of session_t that outlive the callback which assigned them.
FreshSession == [cmd_type |-> Wild, miner_mac |-> Wild, path |-> Wild,
                 path_install |-> Wild, sequence |-> Wild]

Assign(json, k, old) == IF HasStr(json, k) THEN Str(json, k) ELSE old

\* Mutant: a sequence number that is already there is not overwritten.
KeepSequence(json, s) ==
    [s EXCEPT !.cmd_type     = Assign(json, "commend_type", @),
              !.miner_mac    = Assign(json, "miner_mac", @),
              !.path         = Assign(json, "path", @),
              !.path_install = Assign(json, "path_install", @),
              !.sequence     = IF @ = Wild /\ HasStr(json, "sequence")
                               THEN atoi(Str(json, "sequence")) ELSE @]

\* An empty path becomes a literal "", an empty path_install a null pointer.
parse_json_cmd(json, s) ==
    [cmd_type     |-> Assign(json, "commend_type", s.cmd_type),
     miner_mac    |-> Assign(json, "miner_mac", s.miner_mac),
     path         |-> Assign(json, "path", s.path),
     path_install |-> IF HasStr(json, "path_install") /\ Str(json, "path_install") = ""
                      THEN NULL ELSE Assign(json, "path_install", s.path_install),
     sequence     |-> IF HasStr(json, "sequence")
                      THEN atoi(Str(json, "sequence")) ELSE s.sequence]

parse_json_agent(json, s) ==
    [s EXCEPT !.miner_mac = Assign(json, "miner_mac", s.miner_mac)]

parse_cmd_type(cmd_type) == IF cmd_type = "file-download" THEN 1 ELSE -1

\* Mutant: the packet is not released, the pointers into it stay good.
NotReleased(s) == s

\* Releasing the packet leaves every pointer into it dangling; a literal, a
\* null pointer and the integer stay.
json_object_put(s) ==
    [cmd_type     |-> Wild,
     miner_mac    |-> Wild,
     path         |-> IF s.path = "" THEN "" ELSE Wild,
     path_install |-> IF s.path_install = NULL THEN NULL ELSE Wild,
     sequence     |-> s.sequence]

=============================================================================
