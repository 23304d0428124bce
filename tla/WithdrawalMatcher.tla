--------------------------- MODULE WithdrawalMatcher ---------------------------
(***************************************************************************)
(* The withdrawal half of handlers/bridge_matcher.py: the four steps that   *)
(* join the legs of a withdrawal (L2 event, outbox message, L1 execution)   *)
(* and split a fast withdrawal a service provider has paid out, and the     *)
(* handlers that store the legs, arm the steps and move the statuses.       *)
(*                                                                         *)
(* What the chains did is `script`: withdrawal w has its L2 event, its      *)
(* kernel message and, if executed, its L1 execution, all named w; payout p *)
(* has its L1 call and the message row made of it, both named p.  The       *)
(* bridge row of w is the customer's; a row p is the one the claim of p     *)
(* creates for the provider.  Each index follows its own stream at its own  *)
(* speed.  A pass runs in one transaction, as in DepositMatcher.            *)
(***************************************************************************)
EXTENDS Integers, FiniteSets

CONSTANTS
  Withdrawals,  \* the withdrawals, numbered in L2 order, which their messages follow
  Payouts,      \* the payouts of service providers
  Scripts,      \* what the chains may have done
  Limit,        \* how many of the oldest open operations a commitment looks at
  MaxCrashes,   \* bound on restarts
  MaxCements    \* bound on cemented commitments

None == 0
Ids  == Withdrawals \cup Payouts

Routes   == {"fa", "xtz", "fast"}
Open     == {"created", "sealed"}
Statuses == Open \cup {"none", "outbox_expired", "finished"}
Steps == {"etherlink_withdrawals", "outbox", "tezos_withdrawals", "claimed_fast_withdrawals"}

\* hash: parameters_hash; level: the outbox level; byId: does the execution carry the
\* withdrawal id as its parameter?
Facts  == [route : Routes, hash : Nat, level : Nat, executed : BOOLEAN, byId : BOOLEAN]

\* of: the withdrawal id it names; exact: do the six compared fields agree with the L2
\* event?; late: was it made after the execution?
Claims == [of : Withdrawals, exact : BOOLEAN, late : BOOLEAN]

\* Levels follow the outbox.  A fast withdrawal hashes its id and nothing else, and
\* only fast withdrawals are paid out or executed by id.
ASSUME WithdrawalMatcherAssumption ==
  /\ Withdrawals \subseteq Nat \ {None} /\ Payouts \subseteq Nat \ {None}
  /\ Withdrawals \cap Payouts = {}
  /\ Limit \in Nat /\ MaxCrashes \in Nat /\ MaxCements \in Nat
  /\ Scripts \subseteq [facts : [Withdrawals -> Facts], claims : [Payouts -> Claims]]
  /\ \A s \in Scripts :
       /\ \A w, v \in Withdrawals :
            /\ w < v => s.facts[w].level <= s.facts[v].level
            /\ s.facts[w].hash = s.facts[v].hash /\ s.facts[w].route = "fast" => w = v
       /\ \A w \in Withdrawals : s.facts[w].byId => s.facts[w].route = "fast"
       /\ \A p \in Payouts : s.facts[s.claims[p].of].route = "fast"

VARIABLES
  script,
  \* the legs stored
  withdrawals,  \* rows of l2_withdrawal
  messages,     \* rows of rollup_outbox_message
  payments,     \* rows of l1_withdrawal, by their outbox_message
  lost,         \* executions whose handler returned without a row
  \* the keys
  hashed,       \* L2 legs whose parameters_hash is not cleared
  unclaimed,    \* messages whose parameters_hash is not cleared
  \* the bridge operations
  rows,         \* rows of bridge_withdrawal
  outboxOf,     \* their outbox_message
  paidBy,       \* their l1_transaction
  status,       \* BridgeOperation.status
  \* the memory of the process
  armed,        \* BridgeMatcherLocks: the steps whose flag is set
  pc,           \* the step the pass is at, or "idle"
  walking,      \* has the step read its rows?
  walk,         \* the rows its walk has still to visit
  synchronized, \* has on_synchronized run?
  horizon,      \* the level at and below which outboxes have left the window
  crashes, cements

legs   == <<withdrawals, messages, payments, lost>>
keys   == <<hashed, unclaimed>>
bridge == <<rows, outboxOf, paidBy, status>>
pass   == <<pc, walking, walk>>
bounds == <<horizon, crashes, cements>>
vars   == <<script, legs, keys, bridge, armed, pass, synchronized, bounds>>

-----------------------------------------------------------------------------
(* What the rows say, and what the queries of the steps select.            *)

Route(w) == script.facts[w].route
Hash(w)  == script.facts[w].hash
Level(w) == script.facts[w].level
Of(p)    == script.claims[p].of
Exact(p) == script.claims[p].exact

\* The l2_transaction of a bridge row.
Leg(r)  == IF r \in Payouts THEN Of(r) ELSE r

Unpaid  == {r \in rows : paidBy[r] = None}
Paid    == {paidBy[r] : r \in rows} \ {None}

\* BridgeOperation.kind: the claim that gives the customer's row its payout renames it.
Kind(r) ==
  CASE r \in Payouts         -> "fast_withdrawal_service_provider"
    [] paidBy[r] \in Payouts -> "fast_withdrawal_claimed"
    [] Route(r) = "fast"     -> "fast_withdrawal"
    [] OTHER                 -> "none"

\* The rows each step walks.
Pending(s) ==
  CASE s = "etherlink_withdrawals" -> withdrawals \ {Leg(r) : r \in rows}
    [] s = "outbox"                -> {r \in rows : outboxOf[r] = None}
    [] s = "tezos_withdrawals"     -> (payments \cap Withdrawals) \ Paid
    [] OTHER                       -> (payments \cap Payouts \cap unclaimed) \ Paid

\* Mutant: an attached message stays a candidate.
AnswersAttachedToo(r) ==
  {m \in messages \cap Withdrawals : Leg(r) \in hashed /\ Hash(m) = Hash(Leg(r))}

\* The messages that answer a row's hash; a row taken in the walk has left its query.
Answers(r) ==
  {m \in (messages \cap unclaimed) \cap Withdrawals :
     Leg(r) \in hashed /\ Hash(m) = Hash(Leg(r))}

\* The open rows that hold the message an execution names.
Holders(m) == {r \in Unpaid : outboxOf[r] = m}

\* Mutant: nothing is settled, so a leg may be handed to a second payout.
NeverSettled(w) == FALSE

\* Has an L1 leg already settled this L2 leg?
SettledLeg(w) == \E r \in rows : Leg(r) = w /\ paidBy[r] # None

\* The open row of an L2 leg, which a claim must find and find alone.
Customers(w) == {r \in Unpaid : Leg(r) = w}

\* The rows whose message an execution that carries the withdrawal id may take.
OpenById(w) ==
  {r \in rows : /\ Leg(r) = w /\ outboxOf[r] # None /\ status[r] \in Open
                /\ Kind(r) \in {"fast_withdrawal", "fast_withdrawal_service_provider"}}

-----------------------------------------------------------------------------
Init ==
  /\ script \in Scripts
  /\ withdrawals = {} /\ messages = {} /\ payments = {} /\ lost = {}
  /\ hashed = {} /\ unclaimed = {} /\ rows = {}
  /\ outboxOf = [r \in Ids |-> None]
  /\ paidBy   = [r \in Ids |-> None]
  /\ status   = [r \in Ids |-> "none"]
  /\ armed = Steps
  /\ pc = "idle" /\ walking = FALSE /\ walk = {}
  /\ synchronized = FALSE /\ horizon = 0 /\ crashes = 0 /\ cements = 0

\* An L2 withdrawal event is stored; those of the FA bridge and the fast ones arm the
\* claims.
StoreWithdrawal(w, arms) ==
  /\ pc = "idle"
  /\ w \notin withdrawals /\ \A v \in Withdrawals : v < w => v \in withdrawals
  /\ withdrawals' = withdrawals \cup {w}
  /\ hashed' = hashed \cup {w}
  /\ armed' = armed \cup {"etherlink_withdrawals", "outbox"} \cup arms
  /\ UNCHANGED <<script, messages, payments, lost, unclaimed, bridge, pass, synchronized,
                 bounds>>

Withdraw ==
  \E w \in Withdrawals : Route(w) = "fa" /\ StoreWithdrawal(w, {"claimed_fast_withdrawals"})

\* Mutant: a fast withdrawal does not arm the claims.
XtzWithdrawUnarmed == \E w \in Withdrawals : Route(w) # "fa" /\ StoreWithdrawal(w, {})

XtzWithdraw ==
  \E w \in Withdrawals :
    /\ Route(w) # "fa"
    /\ StoreWithdrawal(w, IF Route(w) = "fast" THEN {"claimed_fast_withdrawals"} ELSE {})

\* The outbox of the next level is stored; the message index arms the outbox step.
OutboxLevel ==
  /\ pc = "idle"
  /\ \E w \in Withdrawals \ messages :
       LET arrived == {m \in Withdrawals : Level(m) = Level(w)} IN
       /\ \A v \in Withdrawals \ messages : Level(w) <= Level(v)
       /\ messages' = messages \cup arrived
       /\ unclaimed' = unclaimed \cup (arrived \ messages)
  /\ armed' = armed \cup {"outbox"}
  /\ UNCHANGED <<script, withdrawals, payments, lost, hashed, bridge, pass, synchronized,
                 bounds>>

\* A payout is indexed: the L1 leg, and the message row that carries its fields.
ClaimXtzFastWithdrawal ==
  /\ pc = "idle"
  /\ \E p \in Payouts \ messages :
       /\ messages' = messages \cup {p}
       /\ unclaimed' = unclaimed \cup {p}
       /\ payments' = payments \cup {p}
  /\ armed' = armed \cup {"claimed_fast_withdrawals"}
  /\ UNCHANGED <<script, withdrawals, lost, hashed, bridge, pass, synchronized, bounds>>

\* The executions the index has still to handle.
Unhandled == {w \in Withdrawals \ (payments \cup lost) : script.facts[w].executed}

\* The L1 leg of message m is stored.
Register(m) ==
  /\ payments' = payments \cup {m}
  /\ armed' = armed \cup {"tezos_withdrawals"}
  /\ UNCHANGED <<script, withdrawals, messages, lost, keys, bridge, pass, synchronized,
                 bounds>>

\* An execution that names its message by outbox level and index.
ExecuteByIndex ==
  /\ pc = "idle"
  /\ \E w \in Unhandled \cap messages : ~script.facts[w].byId /\ Register(w)

\* ... and one whose message is not stored: the handler logs it and returns.
ExecuteUnknown ==
  /\ pc = "idle"
  /\ \E w \in Unhandled \ messages : ~script.facts[w].byId /\ lost' = lost \cup {w}
  /\ UNCHANGED <<script, withdrawals, messages, payments, keys, bridge, armed, pass,
                 synchronized, bounds>>

\* Mutant: on_restart sets no flag, and those of the dead process are lost.
RestartUnarmed ==
  /\ pc = "idle" /\ crashes < MaxCrashes
  /\ armed' = {}
  /\ crashes' = crashes + 1
  /\ UNCHANGED <<script, legs, keys, bridge, pass, synchronized, horizon, cements>>

\* The process dies and comes back: on_restart sets all the flags.
Restart ==
  /\ pc = "idle" /\ crashes < MaxCrashes
  /\ armed' = Steps
  /\ crashes' = crashes + 1
  /\ UNCHANGED <<script, legs, keys, bridge, pass, synchronized, horizon, cements>>

\* The handler of an execution that names its withdrawal always dies: without an open row
\* of that withdrawal it reads a name it never bound, and with one that name is a relation
\* it never fetched, which has no message to read.  No such execution is ever stored; it
\* is handled again after every restart.
DieOnExecution ==
  /\ \E w \in Unhandled : script.facts[w].byId
  /\ Restart

Crash == Restart

\* Mutant: paid operations expire too.
ExpirePaidToo(level) ==
  {r \in rows : outboxOf[r] # None /\ Level(Leg(r)) <= level}

\* The oldest open operations.
Oldest ==
  LET open == {r \in rows : status[r] \in Open}
  IN  {r \in open : Cardinality({q \in open : Leg(q) < Leg(r)}) < Limit}

\* Those of them whose message has left the window.
Expire(level) ==
  {r \in Oldest : outboxOf[r] \in Withdrawals /\ Level(outboxOf[r]) <= level}

\* A commitment is cemented and moves the horizon.  The oldest open operations
\* expire if it passes their message; unpaid ones above it are sealed if the node gives
\* a proof of their message.
CementCommitment ==
  /\ pc = "idle" /\ cements < MaxCements
  /\ horizon' \in {h \in {horizon} \cup {Level(w) : w \in Withdrawals} : horizon <= h}
  /\ \E proven \in SUBSET {r \in Unpaid : /\ outboxOf[r] \in Withdrawals
                                          /\ Level(outboxOf[r]) > horizon'} :
       status' = [r \in Ids |-> CASE r \in proven           -> "sealed"
                                  [] r \in Expire(horizon') -> "outbox_expired"
                                  [] OTHER                  -> status[r]]
  /\ cements' = cements + 1
  /\ UNCHANGED <<script, legs, keys, rows, outboxOf, paidBy, armed, pass, synchronized,
                 crashes>>

\* Mutant: on_synchronized forgets the step of the executions.
SynchronizedNoExecutions ==
  /\ pc = "idle" /\ ~synchronized
  /\ Withdrawals \subseteq withdrawals /\ Ids \subseteq messages /\ Unhandled = {}
  /\ armed' = Steps \ {"tezos_withdrawals"}
  /\ synchronized' = TRUE
  /\ UNCHANGED <<script, legs, keys, bridge, pass, bounds>>

\* Every index has reached the head: on_synchronized sets all the flags.
Synchronized ==
  /\ pc = "idle" /\ ~synchronized
  /\ Withdrawals \subseteq withdrawals /\ Ids \subseteq messages /\ Unhandled = {}
  /\ armed' = Steps
  /\ synchronized' = TRUE
  /\ UNCHANGED <<script, legs, keys, bridge, pass, bounds>>

-----------------------------------------------------------------------------
(* The pass.                                                               *)

After(s) ==
  CASE s = "etherlink_withdrawals" -> "outbox"
    [] s = "outbox"                -> "tezos_withdrawals"
    [] s = "tezos_withdrawals"     -> "claimed_fast_withdrawals"
    [] OTHER                       -> "idle"

StartPass ==
  /\ pc = "idle" /\ armed # {}
  /\ pc' = "etherlink_withdrawals"
  /\ UNCHANGED <<script, legs, keys, bridge, armed, walking, walk, synchronized, bounds>>

\* A step whose flag is off does nothing.
SkipStep ==
  /\ pc \in Steps \ armed /\ ~walking
  /\ pc' = After(pc)
  /\ UNCHANGED <<script, legs, keys, bridge, armed, walking, walk, synchronized, bounds>>

\* It clears its flag and reads the rows it will walk.
StartStep ==
  /\ pc \in armed /\ ~walking
  /\ armed' = armed \ {pc}
  /\ walking' = TRUE /\ walk' = Pending(pc)
  /\ UNCHANGED <<script, legs, keys, bridge, pc, synchronized, bounds>>

EndStep ==
  /\ walking /\ walk = {}
  /\ pc' = After(pc) /\ walking' = FALSE
  /\ UNCHANGED <<script, legs, keys, bridge, armed, walk, synchronized, bounds>>

\* The walk of step s visits row r.
Visit(s, r) ==
  /\ pc = s /\ r \in walk
  /\ walk' = walk \ {r}
  /\ UNCHANGED <<script, legs, armed, pc, walking, synchronized, bounds>>

\* check_pending_etherlink_withdrawals: every L2 leg gets a bridge operation.
CreateBridge(w) ==
  /\ Visit("etherlink_withdrawals", w)
  /\ rows' = rows \cup {w}
  /\ status' = [status EXCEPT ![w] = "created"]
  /\ UNCHANGED <<keys, outboxOf, paidBy>>

\* check_pending_outbox: in L2 order, the first message of the row's hash.
AttachOutbox(r) ==
  /\ Visit("outbox", r)
  /\ \A q \in walk : Leg(r) <= Leg(q)
  /\ IF Answers(r) = {}
     THEN UNCHANGED <<keys, outboxOf>>
     ELSE \E m \in Answers(r) :
            /\ \A n \in Answers(r) : m <= n
            /\ outboxOf' = [outboxOf EXCEPT ![r] = m]
            /\ hashed' = hashed \ {Leg(r)}
            /\ unclaimed' = unclaimed \ {m}
  /\ UNCHANGED <<rows, paidBy, status>>

\* check_pending_tezos_withdrawals: the newest open row that holds its message.
LinkExecution(m) ==
  /\ Visit("tezos_withdrawals", m)
  /\ IF Holders(m) = {}
     THEN UNCHANGED <<paidBy, status>>
     ELSE \E r \in Holders(m) :
            /\ \A q \in Holders(m) : Leg(q) <= Leg(r)
            /\ paidBy' = [paidBy EXCEPT ![r] = m]
            /\ status' = [status EXCEPT ![r] = "finished"]
  /\ UNCHANGED <<keys, rows, outboxOf>>

\* Mutant: the customer's row keeps the kernel message.
SplitKeepingMessage(c, p) ==
  /\ rows' = rows \cup {p}
  /\ outboxOf' = [outboxOf EXCEPT ![p] = outboxOf[c]]
  /\ paidBy' = [paidBy EXCEPT ![c] = p]
  /\ status' = [status EXCEPT ![c] = "finished", ![p] = "created"]

\* Mutant: the row of the provider is never created.
SplitWithoutProvider(c, p) ==
  /\ outboxOf' = [outboxOf EXCEPT ![p] = outboxOf[c], ![c] = p]
  /\ paidBy' = [paidBy EXCEPT ![c] = p]
  /\ status' = [status EXCEPT ![c] = "finished"]
  /\ UNCHANGED rows

\* Mutant: the message of the customer's row is handed over to nobody.
SplitLosingMessage(c, p) ==
  /\ rows' = rows \cup {p}
  /\ outboxOf' = [outboxOf EXCEPT ![c] = p]
  /\ paidBy' = [paidBy EXCEPT ![c] = p]
  /\ status' = [status EXCEPT ![c] = "finished", ![p] = "created"]

\* The customer's row moves onto payout p and is finished; a new row, the provider's,
\* takes over the message the customer's row had.
Split(c, p) ==
  /\ rows' = rows \cup {p}
  /\ outboxOf' = [outboxOf EXCEPT ![p] = outboxOf[c], ![c] = p]
  /\ paidBy' = [paidBy EXCEPT ![c] = p]
  /\ status' = [status EXCEPT ![c] = "finished", ![p] = "created"]

\* check_pending_claimed_fast_withdrawals.  A payout waits for its L2 leg; one for a leg
\* already settled is dropped; one whose fields disagree is left alone.
ClaimPayout(p) ==
  /\ Visit("claimed_fast_withdrawals", p)
  /\ LET w == Of(p) IN
     \/ /\ w \in withdrawals /\ SettledLeg(w)
        /\ unclaimed' = unclaimed \ {p} /\ UNCHANGED bridge
     \/ /\ w \in withdrawals /\ ~SettledLeg(w) /\ Exact(p)
        /\ unclaimed' = unclaimed \ {p} /\ \E c \in Customers(w) : Split(c, p)
     \/ /\ w \in withdrawals => ~SettledLeg(w) /\ ~Exact(p)
        /\ UNCHANGED <<unclaimed, bridge>>
  /\ UNCHANGED hashed

VisitRow ==
  \E r \in Ids : CreateBridge(r) \/ AttachOutbox(r) \/ LinkExecution(r) \/ ClaimPayout(r)

PassStep == StartPass \/ SkipStep \/ StartStep \/ EndStep \/ VisitRow

Execute == ExecuteByIndex \/ ExecuteUnknown

Index == Withdraw \/ XtzWithdraw \/ OutboxLevel \/ ClaimXtzFastWithdrawal \/ Execute

Next ==
  Index \/ PassStep \/ CementCommitment \/ Synchronized \/ DieOnExecution \/ Crash

Spec == Init /\ [][Next]_vars

-----------------------------------------------------------------------------
(* Properties.                                                             *)

\* Every variable has its type; legs and rows that are not stored have nothing.
TypeOK ==
  /\ script \in Scripts
  /\ withdrawals \subseteq Withdrawals /\ messages \subseteq Ids
  /\ payments \subseteq messages /\ lost \subseteq Withdrawals \ payments
  /\ hashed \subseteq withdrawals /\ unclaimed \subseteq messages
  /\ rows \subseteq withdrawals \cup (payments \cap Payouts)
  /\ outboxOf \in [Ids -> messages \cup {None}]
  /\ paidBy \in [Ids -> payments \cup {None}]
  /\ status \in [Ids -> Statuses]
  /\ \A r \in Ids \ rows : outboxOf[r] = None /\ paidBy[r] = None /\ status[r] = "none"
  /\ armed \subseteq Steps
  /\ pc \in Steps \cup {"idle"}
  /\ walking \in BOOLEAN /\ walk \subseteq Ids
  /\ synchronized \in BOOLEAN
  /\ horizon \in Nat /\ crashes \in 0 .. MaxCrashes /\ cements \in 0 .. MaxCements

\* Each operation has legs of its own: a message is held by one bridge row, which an L1
\* leg of that very message pays, and it is the kernel's for that L2 leg or, on the
\* customer's row alone, a payout made for it.  Through every split the kernel message
\* stays with an operation of its withdrawal.
OwnLegs ==
  \A r \in rows :
    /\ \A q \in rows \ {r} : outboxOf[r] # None => outboxOf[r] # outboxOf[q]
    /\ paidBy[r] \in {None, outboxOf[r]}
    /\ status[r] = "finished" <=> paidBy[r] # None
    /\ outboxOf[r] \in Withdrawals => Hash(outboxOf[r]) = Hash(Leg(r))
    /\ outboxOf[r] \in Payouts =>
         r \in Withdrawals /\ paidBy[r] = outboxOf[r] /\ Of(outboxOf[r]) = r

\* An L2 leg has one open operation at most, and a customer paid by a provider leaves
\* exactly one operation to that provider: however many payouts name the leg, the `get`
\* of the claim finds one row.
OneClaimant ==
  /\ \A w \in withdrawals : \A r, q \in Customers(w) : r = q
  /\ {p \in Payouts : p \in rows} = {paidBy[w] : w \in rows \cap Withdrawals} \cap Payouts
  /\ pc = "claimed_fast_withdrawals" =>
       \A p \in walk : Of(p) \in withdrawals /\ ~SettledLeg(Of(p)) => Customers(Of(p)) # {}

\* What the rows allow to join between passes has armed its step, through whichever leg
\* came last.  Executions are not covered: a message attached does not arm their step.
Settled == pc = "idle" =>
  /\ "etherlink_withdrawals" \notin armed => Pending("etherlink_withdrawals") = {}
  /\ "outbox" \notin armed => \A r \in Pending("outbox") : Answers(r) = {}
  /\ "claimed_fast_withdrawals" \notin armed =>
       \A p \in Pending("claimed_fast_withdrawals") : Of(p) \notin withdrawals \/ ~Exact(p)

\* Once on_synchronized has run and all flags are down, nothing is left to join, whatever
\* order the legs came in and wherever a restart fell: the executions too have their
\* operations, and of the payouts only those remain whose fields disagree.
SynchronizedMeansDone == pc = "idle" /\ synchronized /\ armed = {} =>
  /\ \A s \in Steps \ {"claimed_fast_withdrawals"} : Pending(s) = {}
  /\ \A p \in Pending("claimed_fast_withdrawals") : ~Exact(p)

\* A paid operation keeps its message, its L1 leg and its status: no later claim,
\* execution or commitment touches it.
PaidStaysPaid ==
  [][\A r \in Ids : paidBy[r] # None =>
       outboxOf'[r] = outboxOf[r] /\ paidBy'[r] = paidBy[r] /\ status'[r] = status[r]]_vars

\* The matcher keeps the promise of BridgeOperations: operations are bridge withdrawals,
\* the legs that close them are L1 executions and payouts, and expired ones are overdue.
Operations == INSTANCE BridgeOperations WITH
  Operations <- Ids, Legs <- Ids, NoLeg <- None,
  messages <- messages, closers <- payments,
  opened <- rows, message <- outboxOf, closer <- paidBy,
  overdue <- {r \in rows : status[r] = "outbox_expired"}

\* Whatever the flags, walks, splits and proofs do, each step is one of a bridge operation
\* or none: a leg serves one operation, a split hands its message over and loses none,
\* and one that expired is paid late or never, and never sealed again.
KeepsPromise == Operations!Spec

\* Under the comment of the claims, a dropped payout is for a leg "already paid out on
\* L1 - the slow way, or by an earlier payout".  Each of these scripts has one payout, so
\* one that L1 made before the execution must not be dropped.
DroppedOnlyIfLate ==
  [][\A p \in unclaimed \cap Payouts : p \notin unclaimed' /\ p \notin rows'
       => script.claims[p].late]_vars

\* The lookup by withdrawal id asserts that it finds a message: the execution on L1 of a
\* message some unpaid row of its withdrawal holds.
ExecutionFindsMessage ==
  \A w \in Unhandled : script.facts[w].byId /\ Holders(w) # {} => OpenById(w) # {}

\* The indexes go on indexing, the batches go on running the pass, and DipDup calls
\* on_synchronized when all indexes have reached the head.
Fairness ==
  /\ WF_vars(Withdraw) /\ WF_vars(XtzWithdraw) /\ WF_vars(OutboxLevel)
  /\ WF_vars(ClaimXtzFastWithdrawal) /\ WF_vars(Execute)
  /\ WF_vars(PassStep) /\ WF_vars(Synchronized)

FairSpec == Spec /\ Fairness

\* Every stored L1 leg ends on an operation or, if it is a payout, dropped for a leg that
\* is settled or left alone for its fields: the flags and on_synchronized are enough,
\* in whatever order the legs come.
EventuallyPaid ==
  \A m \in Ids : m \in payments ~>
    \/ m \in Paid
    \/ m \in Payouts /\ (~Exact(m) \/ (m \notin unclaimed /\ SettledLeg(Of(m))))

=============================================================================
