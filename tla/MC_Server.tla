------------------------------ MODULE MC_Server -----------------------------
EXTENDS Server

Key(kid) == [kid |-> kid, usable |-> TRUE]
Old == {Key("k0"), Key("k1"), [kid |-> "k3", usable |-> FALSE]}
New == {Key("k0"), Key("k2")}
MCKeySets == {Old, New}

Base == [tls |-> FALSE, jwks |-> FALSE, discovery |-> FALSE, sink |-> TRUE, admin |-> FALSE,
         signal |-> TRUE, published |-> Old, clients |-> Requests, kids |-> {""}]

\* Two requests race for the keys of a process that stays up.
Keys == [Base EXCEPT !.jwks = TRUE, !.sink = FALSE, !.signal = FALSE, !.kids = {"k2"}]
\* Discovery first; a request that waits for keys while the process goes down.
Discovery(r) == [Base EXCEPT !.jwks = TRUE, !.discovery = TRUE, !.sink = FALSE, !.clients = {r},
                             !.kids = {"k1"}]
\* Shutdown with handshakes, an admin listener, and records on their way.
Shutdown == [Base EXCEPT !.tls = TRUE, !.admin = TRUE]

MCWorlds == {Keys, Shutdown} \cup {Discovery(r) : r \in {CHOOSE r \in Requests : TRUE}}
=============================================================================
