------------------------------ MODULE MCSquelch ------------------------------
EXTENDS Squelch
=============================================================================
