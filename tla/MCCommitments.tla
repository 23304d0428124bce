----------------------------- MODULE MCCommitments -----------------------------
(* Operations for the model checker: three of them, two in the list of a      *)
(* commitment.                                                                *)
EXTENDS Commitments

Of(kind, level, sent) == [kind |-> kind, level |-> level, sent |-> sent]

\* Two withdrawals behind or around one whose message never comes, and three deposits of
\* which the second is never credited.
MCScripts == {
  <<Of("withdrawal", 2, TRUE), Of("withdrawal", 3, FALSE), Of("withdrawal", 7, TRUE)>>,
  <<Of("withdrawal", 2, FALSE), Of("withdrawal", 4, TRUE), Of("withdrawal", 4, TRUE)>>,
  <<Of("deposit", 2, TRUE), Of("deposit", 4, FALSE), Of("deposit", 5, TRUE)>>,
  <<Of("deposit", 3, FALSE), Of("withdrawal", 3, TRUE), Of("withdrawal", 5, TRUE)>>}

=============================================================================
