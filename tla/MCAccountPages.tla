-------------------------- MODULE MCAccountPages --------------------------
\* A small instance of AccountPages for TLC.
EXTENDS AccountPages

CONSTANTS e1, e2
=============================================================================
