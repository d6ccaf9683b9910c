----------------------------- MODULE MCLithosCmd -----------------------------
EXTENDS LithosCmd
=============================================================================
