----------------------------- MODULE MCInitSem -----------------------------
EXTENDS InitSem

\* The processes that pass SEM_UNDO on semaphore 0: Server_Reader_Child.c and the
\* applications of Tesis.
UndoOnly == {[undo |-> TRUE, nowait |-> FALSE, num0 |-> TRUE]}

\* Two of the things CPUtemp.c and CloudCommunicationApp.c may find in sb.
SomeGarbage == UndoOnly \cup {[undo |-> FALSE, nowait |-> TRUE, num0 |-> TRUE]}
=============================================================================
