------------------------- MODULE MCProviderRequests -------------------------
\* Instances of ProviderRequests for TLC: every request is of one family and
\* answers one turn.
EXTENDS ProviderRequests

MCFamily == [q \in Requests |-> "family"]
MCTurn == [q \in Requests |-> "turn"]
=============================================================================
