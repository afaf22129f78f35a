---------------------------- MODULE MCArtifactWatch ----------------------------
\* Instances of ArtifactWatch for TLC.
EXTENDS ArtifactWatch
==============================================================================
