----------------------------- MODULE MCXhciRings -----------------------------
EXTENDS XhciRings
CONSTANTS c1, c2
MCCmds == {c1, c2}
=============================================================================
