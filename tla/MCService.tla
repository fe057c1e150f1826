----------------------------- MODULE MCService -----------------------------
EXTENDS Service

TwoVersions == {"v1", "v2"}

Plain == [bind |-> "addr", max |-> 1, stats |-> TRUE, bypass |-> "none",
          user |-> "ann", pass |-> "one"]

\* Credentials, others with a bypass list at the limit of max, a bypass list
\* alone, empty credentials, half of them, and three that one check or another
\* refuses.
SomeOptions ==
  { Plain,
    [Plain EXCEPT !.pass = "two", !.bypass = "nets", !.max = ConnectionsLimit],
    [Plain EXCEPT !.user = "unset", !.pass = "unset", !.bypass = "nets"],
    [Plain EXCEPT !.user = "", !.pass = "", !.bypass = "nets", !.stats = FALSE],
    [Plain EXCEPT !.user = "", !.pass = "unset", !.bypass = "nets"],
    [Plain EXCEPT !.pass = "two\nlines"],
    [Plain EXCEPT !.max = ConnectionsLimit + 1] }

=============================================================================
