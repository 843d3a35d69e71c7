---------------------------- MODULE MCPoolManager ----------------------------
\* One fleet of two servers, with an idle timeout of one unit of time.
EXTENDS RoundRobin
CONSTANT f1
MCFleets == {f1}
MCServers == {1, 2}
MCTimeouts == {0, 1}
==============================================================================
