------------------------------- MODULE MCNodelist -------------------------------
(* Instances of Nodelist for TLC. *)
EXTENDS Nodelist, TLC

\* Each of the kinds may happen once, from each of the settings of the options.
From(families, transports, kinds) ==
    {[prefer6 |-> f, transport |-> t,
      budget |-> [d \in Disturbances |-> IF d \in kinds THEN 1 ELSE 0]] :
        f \in families, t \in transports}

\* Addresses change, the transport changes, or virtual IPs move, the first two also
\* while a unit is paused. Where the transport changes addresses stay, and the other
\* way round, so that only one of the two options matters; an option that itself
\* changes has one setting to start from.
Usual ==
    UNION {From({FALSE}, {"udpu"}, {"address", "family"}),
           From(BOOLEAN, {"udpu"}, {"address", "pause"}),
           From(BOOLEAN, {"udpu"}, {"address", "kill"}),
           From({FALSE}, {"udpu"}, {"vip", "family"}),
           From({FALSE}, {"udpu"}, {"transport", "pause"}),
           From({FALSE}, {"udp", "udpu"}, {"transport", "offer"})}
Placed == From(BOOLEAN, {"udp", "udpu"}, {"vip"})
=============================================================================
