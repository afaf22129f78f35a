--------------------------- MODULE MCDaemonLifecycle ---------------------------
\* Instances of DaemonLifecycle for TLC: an upgrade from 0.1.9 to 0.2.0, and 0.10.0.
EXTENDS DaemonLifecycle

CONSTANTS o1, o2, p1, e1, s1

OneOpen == {o1}
TwoOpens == {o1, o2}
OnePoll == {p1}
OneEnd == {e1}
OneStop == {s1}
None == {}

Versions == [c \in Clients |-> IF c = o2 THEN <<0, 10, 0>> ELSE <<0, 2, 0>>]
Older == {<<0, 1, 9>>, Unparsed}
==============================================================================
