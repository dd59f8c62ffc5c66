----------------------------- MODULE MCUnitServices -----------------------------
(* Instances of UnitServices for TLC. *)
EXTENDS UnitServices, TLC

Once(kinds) == [d \in Disturbances |-> IF d \in kinds THEN 1 ELSE 0]

\* Everything but what disturbs waiting units, and those two alone.
Usual == {Once({"pause", "peer", "kill"}), Once({"config", "pause"}), Once({"ha"})}
=============================================================================
