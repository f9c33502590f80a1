------------------------------- MODULE MCKbd -------------------------------
EXTENDS Kbd
=============================================================================
