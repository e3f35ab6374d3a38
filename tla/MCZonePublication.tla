------------------------- MODULE MCZonePublication -------------------------
(* ZonePublication on small instances, for TLC. *)
EXTENDS ZonePublication, TLC

CONSTANTS
    ForwardZones,   \* the zones whose addresses may lie in the other zones
    Existing        \* the sets of zones that may exist in the beginning

MCReverse ==
    [z \in Zones |-> IF z \in ForwardZones THEN Zones \ ForwardZones ELSE {}]

HandlerSymmetry == Permutations(Handlers)
WorkerSymmetry == Permutations(Workers)
Symmetry == HandlerSymmetry \cup WorkerSymmetry

MCInit == Init /\ row \in Existing
MCFairSpec == MCInit /\ [][Next]_vars /\ Fairness
=============================================================================
