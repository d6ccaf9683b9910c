------------------------------ MODULE MCLithosPs ------------------------------
EXTENDS LithosPs
=============================================================================
