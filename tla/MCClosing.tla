------------------------------ MODULE MCClosing ------------------------------
EXTENDS Closing
=============================================================================
