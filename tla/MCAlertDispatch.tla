-------------------------- MODULE MCAlertDispatch --------------------------
\* AlertDispatch with an alert on a threshold and one on a drop, on channels
\* with and without a default address.
EXTENDS AlertDispatch, TLC

CONSTANTS low, fall

MCOptions ==
    [a \in {low, fall} |->
        IF a = low
        THEN [threshold |-> 100, drop |-> None, channel |-> "telegram",
              target |-> FALSE, enabled |-> TRUE]
        ELSE [threshold |-> None, drop |-> 10, channel |-> "email",
              target |-> FALSE, enabled |-> TRUE]]

MCDeployments == {{"token", "chat", "host", "from"}, {"host"}}

ScanSymmetry == Permutations(Scan)
=============================================================================
