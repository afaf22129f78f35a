----------------------------- MODULE MCLiveChannel -----------------------------
\* Instances of LiveChannel for TLC: the pages of a session only share what the daemon
\* publishes, so the instances follow one.
EXTENDS LiveChannel
==============================================================================
