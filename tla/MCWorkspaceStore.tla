-------------------------- MODULE MCWorkspaceStore -------------------------
(***************************************************************************)
(* Two processes: one runs a writer and then a reader or another writer on *)
(* the same pooled connection, the other a writer of its own.              *)
(***************************************************************************)
EXTENDS WorkspaceStore

CONSTANTS w1, w2, r1, p1, p2

MCHome == [r \in Request |-> IF r = w2 THEN p2 ELSE p1]
=============================================================================
