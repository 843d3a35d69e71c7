---------------------------- MODULE MCFleetDrain -----------------------------
\* Small instances of FleetDrain: one server, a minimum drain time of one
\* or two ticks, a check every tick.
EXTENDS FleetDrain
CONSTANTS s1, s2

OneServer == {s1}
NothingFails == {}
AnyCallFails == {"list", "label", "query", "delete", "assign"}
QueryListOrAssignFails == {"query", "list", "assign"}
==============================================================================
