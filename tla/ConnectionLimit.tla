-------------------------- MODULE ConnectionLimit --------------------------
(***************************************************************************)
(* What the accept loop promises about max_connections, seen from outside: *)
(* every connection that reaches the server is either admitted, while      *)
(* fewer than MaxConnections are admitted, or refused, while exactly that  *)
(* many are; an admitted connection keeps its slot until it finishes.      *)
(* Server implements this.                                                 *)
(***************************************************************************)
EXTENDS Naturals, FiniteSets

CONSTANTS Clients, MaxConnections

VARIABLE verdict

Served == {c \in Clients : verdict[c] = "served"}

Init == verdict = [c \in Clients |-> "none"]

Admit(c) ==
  /\ verdict[c] = "none"
  /\ Cardinality(Served) < MaxConnections
  /\ verdict' = [verdict EXCEPT ![c] = "served"]

Refuse(c) ==
  /\ verdict[c] = "none"
  /\ Cardinality(Served) = MaxConnections
  /\ verdict' = [verdict EXCEPT ![c] = "refused"]

Finish(c) ==
  /\ verdict[c] # "none"
  /\ verdict' = [verdict EXCEPT ![c] = "none"]

Next == \E c \in Clients : Admit(c) \/ Refuse(c) \/ Finish(c)

Spec == Init /\ [][Next]_verdict

=============================================================================
