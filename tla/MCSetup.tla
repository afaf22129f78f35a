-------------------------------- MODULE MCSetup --------------------------------
\* Instances of Setup for TLC.
EXTENDS Setup

\* Two runs that may overlap, of two versions, and a third to run again.
Three == {1, 2, 3}

Scopes == [s \in Three |-> IF s = 2 THEN "hook-only" ELSE "both"]

Baked == [s \in Three |-> IF s = 1 THEN "old" ELSE "new"]
==============================================================================
