--------------------------- MODULE MCFleetScaling ----------------------------
\* Small instances of FleetScaling: up to four pods and three players.
EXTENDS FleetScaling
NoPressure == {0}
SomePressure == {0, 1}
==============================================================================
