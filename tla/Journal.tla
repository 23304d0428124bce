------------------------------ MODULE Journal ------------------------------
(***************************************************************************)
(* The journal of a versioned transaction of the framework                  *)
(* (dipdup_model_update), as this repository uses it: each INSERT or DELETE *)
(* made in an index handler is an entry [head, table, op, keys], and a      *)
(* rollback reverts the entries above a level, newest first.  A table is the *)
(* set of its primary keys.                                                *)
(***************************************************************************)
EXTENDS Integers, Sequences

\* The entries of `log` after the first n that touched key k of `table`.
Touching(log, table, k, n) ==
  {i \in n+1 .. Len(log) : log[i].table = table /\ k \in log[i].keys}

\* What `table` holds once every entry of `log` after the first n is reverted:
\* the oldest of them that touched a key decides about it.
Reverted(log, table, now, n) ==
  {k \in now \cup UNION {log[i].keys : i \in n+1 .. Len(log)} :
     LET touching == Touching(log, table, k, n)
     IN IF touching = {} THEN k \in now
        ELSE \E i \in touching : /\ log[i].op = "DELETE"
                                 /\ \A j \in touching : i <= j}

=============================================================================
