------------------------------ MODULE Commitments ------------------------------
(***************************************************************************)
(* What a cemented commitment does to the open operations: the handler      *)
(* tezos/on_cement_commitment.py and OutboxMessageService.update_proof,     *)
(* with the levels their windows are computed from.                         *)
(*                                                                         *)
(* L1 cements the commitments of the rollup one by one; the k-th speaks for *)
(* the inbox up to Inbox(k).  The index handles them in order, at its own   *)
(* pace; the rollup node, which is asked for the proofs, follows L1 at its  *)
(* own.  The handler and its requests run in one transaction, which a       *)
(* failed lookup takes back.  What the matcher does to an operation is      *)
(* reduced to three steps: it opens it, attaches its message, finishes it.  *)
(***************************************************************************)
EXTENDS Integers, FiniteSets

CONSTANTS
  Operations,      \* bridge operations, numbered by created_at
  Scripts,         \* what the operations are
  Origination,     \* the level the rollup was originated at
  Period,          \* smart_rollup_commitment_period
  ChallengeWindow, \* smart_rollup_challenge_window
  ActiveLevels,    \* smart_rollup_max_active_outbox_levels
  Limit,           \* how many of the oldest open operations a commitment looks at
  Delay,           \* how many levels L1 lets a commitment wait that it could cement
  MaxCommitments,  \* bound on the commitments
  MaxHead          \* bound on the L1 level

Open     == {"created", "sealed"}
Statuses == Open \cup {"none", "expired", "timeout", "finished"}

\* level: of the outbox message of a withdrawal, or of the L1 call of a deposit; sent: is
\* there a message, or a credit, at all?
Facts == [kind : {"withdrawal", "deposit"}, level : Nat, sent : BOOLEAN]

ASSUME CommitmentsAssumption ==
  /\ Operations \subseteq Nat
  /\ Origination \in Nat /\ Period \in Nat \ {0} /\ ChallengeWindow \in Nat
  /\ ActiveLevels \in Nat /\ Limit \in Nat
  /\ Delay \in 0 .. 4 /\ MaxCommitments \in Nat /\ MaxHead \in Nat
  /\ Scripts \subseteq [Operations -> Facts]
  /\ \A s \in Scripts : \A o, p \in Operations :
       /\ o <= p /\ s[o].kind = s[p].kind => s[o].level <= s[p].level
       /\ s[o].level > Origination

VARIABLES
  script,
  head,        \* the level of L1
  cemented,    \* the commitments L1 has cemented
  node,        \* those the rollup node knows to be cemented
  executed,    \* the withdrawals executed on L1
  indexed,     \* rows of rollup_commitment
  opened,      \* rows of bridge_operation
  attached,    \* withdrawals that have their outbox_message
  finished,    \* operations that have their closing leg
  status,      \* BridgeOperation.status
  commitment,  \* the commitment of the stored proof, or 0
  crashed      \* has the handler taken the process down?

chains     == <<head, cemented, node, executed>>
operations == <<opened, attached, finished>>
vars == <<script, chains, indexed, operations, status, commitment, crashed>>

-----------------------------------------------------------------------------
(* Levels.                                                                 *)

Level(o)     == script[o].level
Withdrawal   == {o \in Operations : script[o].kind = "withdrawal"}
Deposit      == Operations \ Withdrawal

\* The inbox level of the k-th commitment.
Inbox(k) == Origination + k * Period

\* Does commitment k speak for the message of w?
Covers(k, w) == k > 0 /\ Inbox(k) >= Level(w)

\* The protocol refuses an outbox message that has left the window of active levels.
Refused(k, w) == Level(w) <= Inbox(k) - ActiveLevels

\* Mutant: the message is not moved to the commitment that covers it.
EstimateUncovered(level) ==
  level + ChallengeWindow + ((Period - (ChallengeWindow % Period)) % Period) + 5

\* estimate_outbox_message_cemented_level.
Estimate(level) ==
  level + ((Origination - level) % Period) + ChallengeWindow
    + ((Period - (ChallengeWindow % Period)) % Period) + 5

-----------------------------------------------------------------------------
(* What the queries of the handler select.                                 *)

\* Mutant: operations that are not open any more stay in the list.
OldestOfAll(kind) ==
  LET open == {o \in opened \cap kind : status[o] # "none"}
  IN  {o \in open : Cardinality({p \in open : p < o}) < Limit}

\* The oldest open operations of a kind; a deposit is never sealed.
Oldest(kind) ==
  LET open == {o \in opened \cap kind : status[o] \in Open}
  IN  {o \in open : Cardinality({p \in open : p < o}) < Limit}

\* Mutant: one level too early.
ExpireEarly(k) == {w \in Oldest(Withdrawal) \cap attached : Level(w) <= Inbox(k) - ActiveLevels + 1}

\* The withdrawals commitment k expires.
Expire(k) == {w \in Oldest(Withdrawal) \cap attached : Level(w) <= Inbox(k) - ActiveLevels}

\* Mutant: a period too early.
TimeOutEarly(k) == {d \in Oldest(Deposit) : Level(d) <= Inbox(k) + 1}

\* The deposits it times out.
TimeOut(k) == {d \in Oldest(Deposit) : Level(d) <= Inbox(k) - Period + 1}

\* Mutant: only messages after the commitment.
AwaitingNew(k) ==
  {w \in Withdrawal \ finished : script[w].sent /\ Level(w) <= head /\ Level(w) > Inbox(k)}

\* The messages of withdrawals without L1 leg, or without operation, that the handler
\* counts before it asks for proofs.
Awaiting(k) ==
  {w \in Withdrawal \ finished :
     script[w].sent /\ Level(w) <= head /\ Level(w) > Inbox(k) - ActiveLevels}

\* Mutant: the window of the message is not looked at.
DueForever(k) == {w \in attached \ finished : Covers(k, w)}

\* The withdrawals update_proof asks a proof for, once commitment k is stored.
Due(k) ==
  {w \in attached \ finished :
     head <= Level(w) + ChallengeWindow + ActiveLevels /\ Covers(k, w)}

\* Mutant: the commitment of a proof is taken as it comes.
StoredUnchecked(k, proven) == TRUE

\* The commitment the node names is looked up in the table.
Stored(k, proven) == proven # {} => node <= k

-----------------------------------------------------------------------------
Init ==
  /\ script \in Scripts
  /\ head = Origination /\ cemented = 0 /\ node = 0 /\ executed = {}
  /\ indexed = 0
  /\ opened = {} /\ attached = {} /\ finished = {}
  /\ status = [o \in Operations |-> "none"]
  /\ commitment = [o \in Operations |-> 0]
  /\ crashed = FALSE

\* A block of L1.  A commitment that can be cemented is, within Delay levels.
Tick ==
  /\ head < MaxHead
  /\ cemented < MaxCommitments => head < Inbox(cemented + 1) + 1 + ChallengeWindow + Delay
  /\ head' = head + 1
  /\ UNCHANGED <<script, cemented, node, executed, indexed, operations, status, commitment,
                 crashed>>

\* L1 cements the next commitment: it was published after its inbox level, and has stood
\* through the challenge window.
Cement ==
  /\ cemented < MaxCommitments /\ head >= Inbox(cemented + 1) + 1 + ChallengeWindow
  /\ cemented' = cemented + 1
  /\ UNCHANGED <<script, head, node, executed, indexed, operations, status, commitment,
                 crashed>>

\* The rollup node catches up.
Refresh ==
  /\ node < cemented
  /\ node' = cemented
  /\ UNCHANGED <<script, head, cemented, executed, indexed, operations, status, commitment,
                 crashed>>

\* L1 executes a message that is cemented and has not left the window.
ExecuteOutboxMessage ==
  /\ \E w \in Withdrawal \ executed :
       /\ script[w].sent /\ Covers(cemented, w) /\ ~Refused(cemented, w)
       /\ executed' = executed \cup {w}
  /\ UNCHANGED <<script, head, cemented, node, indexed, operations, status, commitment,
                 crashed>>

\* The matcher opens an operation ...
OpenOperation ==
  /\ ~crashed
  /\ \E o \in Operations \ opened :
       /\ Level(o) <= head
       /\ opened' = opened \cup {o}
       /\ status' = [status EXCEPT ![o] = "created"]
  /\ UNCHANGED <<script, chains, indexed, attached, finished, commitment, crashed>>

\* Mutant: the withdrawal has no operation yet.
AttachUnopened ==
  /\ ~crashed
  /\ \E w \in Withdrawal \ attached : script[w].sent /\ attached' = attached \cup {w}
  /\ UNCHANGED <<script, chains, indexed, opened, finished, status, commitment, crashed>>

\* ... attaches the message of a withdrawal ...
Attach ==
  /\ ~crashed
  /\ \E w \in (opened \cap Withdrawal) \ attached :
       script[w].sent /\ attached' = attached \cup {w}
  /\ UNCHANGED <<script, chains, indexed, opened, finished, status, commitment, crashed>>

\* ... and closes an operation, in time or late.
Finish ==
  /\ ~crashed
  /\ \E o \in opened \ finished :
       /\ o \in Withdrawal => o \in attached \cap executed
       /\ script[o].sent
       /\ finished' = finished \cup {o}
       /\ status' = [status EXCEPT ![o] = "finished"]
  /\ UNCHANGED <<script, chains, indexed, opened, attached, commitment, crashed>>

\* The withdrawals that get a proof: none if nothing is counted; else the node answers
\* with a proof under its last cemented commitment, or fails.
Answers(k) == IF Awaiting(k) = {} THEN {{}} ELSE SUBSET {w \in Due(k) : Covers(node, w)}

\* on_cement_commitment and update_proof.
OnCementCommitment ==
  /\ ~crashed /\ indexed < cemented
  /\ LET k == indexed + 1 IN
     \E proven \in Answers(k) :
       /\ Stored(k, proven)
       /\ indexed' = k
       /\ status' = [o \in Operations |-> CASE o \in proven     -> "sealed"
                                            [] o \in Expire(k)  -> "expired"
                                            [] o \in TimeOut(k) -> "timeout"
                                            [] OTHER            -> status[o]]
       /\ commitment' = [o \in Operations |-> IF o \in proven THEN node ELSE commitment[o]]
  /\ UNCHANGED <<script, chains, operations, crashed>>

\* The node names a commitment the index has not stored: the lookup raises, the
\* transaction is taken back, and the process dies.
DieOnCement ==
  /\ ~crashed /\ indexed < cemented
  /\ \E proven \in Answers(indexed + 1) : ~Stored(indexed + 1, proven)
  /\ crashed' = TRUE
  /\ UNCHANGED <<script, chains, indexed, operations, status, commitment>>

Restart ==
  /\ crashed /\ crashed' = FALSE
  /\ UNCHANGED <<script, chains, indexed, operations, status, commitment>>

Handle == OnCementCommitment \/ DieOnCement

Next ==
  \/ Tick \/ Cement \/ Refresh \/ ExecuteOutboxMessage
  \/ OpenOperation \/ Attach \/ Finish
  \/ Handle \/ Restart

Spec == Init /\ [][Next]_vars

-----------------------------------------------------------------------------
(* Properties.                                                             *)

TypeOK ==
  /\ script \in Scripts
  /\ head \in Nat /\ cemented \in Nat /\ node \in 0 .. cemented /\ indexed \in 0 .. cemented
  /\ executed \subseteq Withdrawal
  /\ opened \subseteq Operations /\ attached \subseteq opened \cap Withdrawal
  /\ finished \subseteq opened
  /\ status \in [Operations -> Statuses]
  /\ commitment \in [Operations -> Nat]
  /\ crashed \in BOOLEAN

\* A sealed withdrawal has a proof under a commitment the index has stored, and one that
\* speaks for its message, however far the node is ahead of the index or behind it.
SealedByCommitment ==
  \A w \in Operations : status[w] = "sealed" =>
    w \in attached /\ commitment[w] \in 1 .. indexed /\ Covers(commitment[w], w)

\* A deposit times out only once a stored commitment speaks for the inbox level of its L1
\* call, and a withdrawal that the index knows to be finished is neither open nor expired.
ClosedForCause ==
  \A o \in Operations :
    /\ status[o] = "timeout" => o \in Deposit /\ Inbox(indexed) >= Level(o)
    /\ status[o] = "expired" => o \in attached /\ Refused(indexed, o)
    /\ status[o] = "finished" <=> o \in finished

\* An expired withdrawal that L1 has not executed never will be: the window of the
\* handler closes no earlier than the one of the protocol.
ExpiredForGood ==
  [][\A w \in Operations : status[w] = "expired" /\ w \notin executed => w \notin executed']_vars

\* An expired or timed out operation is open never again, though update_proof seals
\* without a look at the status: its window and the one of the expiry fit together.
NeverReopened ==
  [][\A o \in Operations : status[o] \notin Open \cup {"none"} => status'[o] \notin Open]_vars

\* The count that lets the handler skip the proofs never hides a withdrawal that one
\* would be asked for.
CountIsSound ==
  indexed < cemented /\ Awaiting(indexed + 1) = {} => Due(indexed + 1) = {}

\* The estimate of the level a message is cemented at holds on L1: by that level the
\* message is cemented, and it is at most a period and the slack of 5 blocks too late.
EstimateHolds ==
  \A w \in Withdrawal :
    /\ head > Estimate(Level(w)) /\ Inbox(MaxCommitments) >= Level(w) => Covers(cemented, w)
    /\ Covers(cemented, w) => Estimate(Level(w)) <= head + Period + 3

\* L1 goes on and cements, the indexes go on indexing, the matcher matching, and the
\* process is restarted whenever it dies.
Fairness ==
  /\ WF_vars(Tick) /\ WF_vars(Cement) /\ WF_vars(OpenOperation) /\ WF_vars(Attach)
  /\ WF_vars(Handle) /\ WF_vars(Restart)

FairSpec == Spec /\ Fairness

\* Every cemented commitment is handled in the end.  While the node is ahead of the index
\* the handler may die at the same commitment again and again; the window of the messages
\* it asks proofs for closes, and lets it pass.
CementsHandled == \A k \in 1 .. MaxCommitments : cemented >= k ~> indexed >= k

\* Has the matcher done what it can?
Matched == \A o \in Operations : script[o].sent /\ o \in Withdrawal => o \in attached

\* The limit starves nobody: with fewer operations than Limit that never get a message,
\* every other withdrawal and every deposit is decided, two commitments after the matcher
\* is done at the latest.
EventuallyDecided ==
  Matched /\ Operations \subseteq opened /\ indexed + 2 <= MaxCommitments ~>
    \A o \in Operations : o \in Deposit \/ script[o].sent => status[o] \notin Open

=============================================================================
