------------------------------ MODULE MCResources ------------------------------
(* Instances of Resources for TLC. *)
EXTENDS Resources, TLC

CONSTANTS vip, haproxy, group, clone, order, colocation, n1, n2, r1, r2

\* A virtual IP in a group, a cloned haproxy, an order and a colocation between
\* them. The name of the VIP occurs in the name of the haproxy, and the name of the
\* second node begins with the name of the first.
Kinds == [d \in Definition |->
    CASE d = group -> "groups" [] d = clone -> "clones"
      [] d = order -> "orders" [] OTHER -> "colocations"]
References == [d \in Definition |->
    CASE d = group -> {vip} [] d = clone -> {haproxy} [] OTHER -> {vip, clone}]
Names == [o \in Primitive \cup Definition |-> IF o = vip THEN {haproxy} \cap Primitive ELSE {}]
LongerNames == [n \in Node |-> IF n = n1 THEN {n2} \cap Node ELSE {}]
Ranks == (n1 :> 1) @@ (n2 :> 2) @@ (r1 :> 1) @@ (r2 :> 2)

Sym == Permutations(Unit) \cup Permutations(Params)

Allowed(kinds, n) == [d \in Disturbances |-> IF d \in kinds THEN n ELSE 0]
\* One choice per sort of trouble: updates, deletions, remotes, leadership.
Usual == {Allowed({"data", "refused", "lost"}, 1), Allowed({"doom", "kill"}, 1),
          [Allowed({"remote", "answer", "node"}, 1) EXCEPT !["remote"] = 2],
          Allowed({"remote", "answer", "lost"}, 1), Allowed({"leader"}, 1)}
Again == {[Allowed({"doom"}, 1) EXCEPT !["data"] = 2]}
=============================================================================
