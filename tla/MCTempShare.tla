---------------------------- MODULE MCTempShare ----------------------------
EXTENDS TempShare

UndoOnly == {[undo |-> TRUE, nowait |-> FALSE, num0 |-> TRUE]}
=============================================================================
