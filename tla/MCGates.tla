-------------------------------- MODULE MCGates --------------------------------
(* A small instance of Gates: one bucket, that of a tenant's uploads, beside a route without
   limit. *)
EXTENDS Gates, TLC

MCCall(route) == [method |-> "POST", route |-> route, tenant |-> "t", user |-> "u", ip |-> "i"]
MCCalls  == {MCCall("documents"), MCCall("health")}
MCClaims == {[aud |-> {"account"}, azp |-> "frontend"], [aud |-> {"backend", "other"}, azp |-> "other"],
             [aud |-> {"other"}, azp |-> "frontend"]}
MCLimits == [c \in Categories |-> 1]
Symmetry == Permutations(Requests) \cup Permutations(Kids)
================================================================================
