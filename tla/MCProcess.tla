------------------------------ MODULE MCProcess ------------------------------
(* Configurations that differ in what start-up tells apart.                *)
EXTENDS Process

CONSTANTS h1, h2, malformed

Entry3(n, h, u) == [name |-> n, hash |-> h, unix_user |-> u]
Limits1 == [min_ttl |-> 1, max_ttl |-> 2, clusters |-> 1, tar |-> 2, tar_entry |-> 1,
            estimate |-> 1, reap_delay |-> 0, interval |-> 1]
Pair    == <<Entry3("a", h1, "ua"), Entry3("b", h2, "ub")>>

Good     == [limits |-> Limits1, clients |-> Pair]
Twice    == [Good EXCEPT !.clients = <<Entry3("a", h1, "ua"), Entry3("a", h2, "ub")>>]
Shared   == [Good EXCEPT !.clients = <<Entry3("a", h1, "ua"), Entry3("b", h2, "ua")>>]
BadHash  == [Good EXCEPT !.clients = <<Entry3("a", malformed, "ua")>>]
Unknown  == [Good EXCEPT !.clients = <<Entry3("a", h1, "uc")>>]
NoReaper == [Good EXCEPT !.limits["interval"] = 0]
LongTTL  == [Good EXCEPT !.limits["max_ttl"] = 4]
LongReap == [Good EXCEPT !.limits["reap_delay"] = 4]
LateReap == [Good EXCEPT !.limits["reap_delay"] = 3]

MCHashes  == {h1, h2}
MCConfigs == {Good, Twice, Shared, BadHash, Unknown, NoReaper, LongTTL, LongReap, LateReap}
MCPasswds == {[ua |-> 1, ub |-> 2], [ua |-> 1, ub |-> malformed]}
=============================================================================
