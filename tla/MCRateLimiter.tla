---------------------------- MODULE MCRateLimiter ----------------------------
(* An instance of RateLimiter: two domains in a cache of one, one source    *)
(* IP; the domain limiter rejects, the source-IP limiter only reports.      *)
EXTENDS RateLimiter, TLC

CONSTANTS r1, r2, a, b, ip

MCRequest  == {r1, r2}
MCKey      == [s \in Limiter |-> IF s = "domain" THEN {a, b} ELSE {ip}]
MCBurst    == [s \in Limiter |-> 1]
MCBuckets  == [s \in Limiter |-> IF s = "domain" THEN 3 ELSE 1]
MCLimited  == [s \in Limiter |-> TRUE]
MCEnforce  == [s \in Limiter |-> s = "domain"]
MCSymmetry == Permutations(MCRequest) \cup Permutations({a, b})
=============================================================================
