---------------------------- MODULE MCLithosCheck ----------------------------
EXTENDS LithosCheck, TLC

CONSTANTS s1, s2
MCSandboxes == {s1, s2}
MCSymmetry == Permutations(MCSandboxes)

=============================================================================
