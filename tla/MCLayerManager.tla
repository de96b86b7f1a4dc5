--------------------------- MODULE MCLayerManager ---------------------------
EXTENDS LayerManager, TLC

CONSTANTS T1, T2

MCTerminals == {T1, T2}
MCMaxMsgs == 1       \* the pass run
MCDragMaxMsgs == 2   \* the drag run: a close and a deactivation queue up

Perms == Permutations(MCTerminals)
=============================================================================
