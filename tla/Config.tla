------------------------------- MODULE Config -------------------------------
(***************************************************************************)
(* Which command-line options the proxy accepts, and what it makes of them *)
(* (config.rs; cli.rs passes them on as they are).  A server, and the      *)
(* installers before they write them down, use the same check.             *)
(*                                                                         *)
(* bind is an address or "", max a number; user and pass are "unset", ""   *)
(* or a value; bypass is "none", "nets" (all entries parse) or "bad".      *)
(***************************************************************************)
EXTENDS Naturals

ConnectionsLimit == 1000000

\* The options with these credentials.
With(o, user, pass) == [bind |-> o.bind, max |-> o.max, stats |-> o.stats,
                        bypass |-> o.bypass, user |-> user, pass |-> pass]

Given(value) == value \notin {"unset", ""}

Accepts(o) ==
  /\ o.bypass # "bad"
  /\ o.bind # ""
  /\ o.max \in 1..ConnectionsLimit
  /\ \/ Given(o.user) /\ Given(o.pass)
     \/ o.bypass = "nets"
  /\ Given(o.user) <=> Given(o.pass)

\* An empty user name or password is none at all.
Cleaned(value) == IF Given(value) THEN value ELSE "unset"
Effective(o) == With(o, Cleaned(o.user), Cleaned(o.pass))

=============================================================================
