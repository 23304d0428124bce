------------------------- MODULE WithdrawalMatcherInv -------------------------
(* The inductive invariant of WithdrawalMatcher: what carries OwnLegs, the     *)
(* uniqueness of the claimant and Settled through the rows of a pass.         *)
EXTENDS WithdrawalMatcher

\* The rows of each step that could be joined now.
ReadyOutbox == {r \in Pending("outbox") : Answers(r) # {}}
ReadyClaims ==
  {p \in Pending("claimed_fast_withdrawals") : Of(p) \in withdrawals /\ Exact(p)}

\* Step s is armed, or what it could do is among the rows it is about to visit.
Covered(s, ready) ==
  \/ s \in armed
  \/ ready = {}
  \/ walking /\ pc = s /\ ready \subseteq walk

\* A walk visits rows its query still selects, and nothing is walked between steps.
WalkPending ==
  /\ pc = "idle" => ~walking
  /\ IF walking THEN pc \notin armed /\ walk \subseteq Pending(pc) ELSE walk = {}

\* A message that a row holds is no candidate any more, nor is a payout with its row.
KeysCleared ==
  \A r \in rows : outboxOf[r] \notin unclaimed /\ (r \in Payouts => r \notin unclaimed)

\* A provider has a row exactly when the row of the withdrawal it paid says so.
Providers ==
  \A p \in Payouts : p \in rows <=> Of(p) \in rows /\ paidBy[Of(p)] = p

\* Every L2 leg has its row by the time the other steps run, and the leg that has none
\* yet will be followed by the outbox step.
BridgedFirst ==
  /\ pc \in Steps \ {"etherlink_withdrawals"} => "etherlink_withdrawals" \notin armed
  /\ Pending("etherlink_withdrawals") # {} => "outbox" \in armed

FlagsCover ==
  /\ Covered("etherlink_withdrawals", Pending("etherlink_withdrawals"))
  /\ Covered("outbox", ReadyOutbox)
  /\ Covered("claimed_fast_withdrawals", ReadyClaims)

\* The inductive invariant: at every row of every pass each leg serves one operation,
\* each withdrawal has one claimant, and the flags and the walk together cover the joins
\* the tables allow.
WithdrawalInv ==
  /\ TypeOK /\ WalkPending /\ KeysCleared /\ OwnLegs /\ Providers /\ BridgedFirst
  /\ FlagsCover

=============================================================================
