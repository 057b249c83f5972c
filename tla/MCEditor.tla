------------------------------ MODULE MCEditor ------------------------------
EXTENDS Editor
=============================================================================
