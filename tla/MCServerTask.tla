---------------------------- MODULE MCServerTask ----------------------------
EXTENDS ServerTask

Allow(opens, edits, saves, asks, losses, fulls, restarts) ==
    [opens |-> opens, edits |-> edits, saves |-> saves, asks |-> asks,
     losses |-> losses, fulls |-> fulls, restarts |-> restarts]

\* Sync of two documents, and of one through a loss and a full queue; requests
\* around a reopening, a retirement and a loss; a server that keeps dying, and
\* one that keeps falling silent.
Scenarios == {
    Allow(2, 2, 0, 0, 0, 0, 0),
    Allow(1, 2, 1, 0, 1, 1, 0),
    Allow(2, 0, 0, 1, 0, 0, 0),
    Allow(1, 1, 0, 1, 0, 0, 1),
    Allow(1, 1, 0, 2, 1, 0, 0),
    Allow(1, 0, 0, 0, 1, 0, 1),
    Allow(1, 0, 0, 0, 3, 0, 0),
    Allow(1, 0, 0, 6, 0, 0, 0)}
=============================================================================
