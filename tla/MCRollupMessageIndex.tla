------------------------ MODULE MCRollupMessageIndex ------------------------
(* Model-checking instances of RollupMessageIndex: sets of kinds and levels. *)
EXTENDS RollupMessageIndexInv

MCAllKinds == {"transfer", "foreign", "external"}
MCOwnKinds == {"transfer", "external"}

\* Which levels have a full outbox, and which have messages: a full level with a
\* continuation, at the first level or at the second.
MCFirst  == {1}
MCBoth   == {1, 2}
MCSecond == {2}
MCLast   == {2, 3}

\* A legacy queue with a level from before the origination.
MCLegacy == {1, 2}
MCNone   == {}

=============================================================================
