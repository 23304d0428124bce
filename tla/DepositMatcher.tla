---------------------------- MODULE DepositMatcher ----------------------------
(***************************************************************************)
(* The deposit half of handlers/bridge_matcher.py: the five steps that join *)
(* the legs of a deposit (L1 call, inbox message, L2 credit) into one       *)
(* bridge operation, and the handlers that store the legs and arm the steps.*)
(*                                                                         *)
(* The legs come from independent indexes, each in chain order and at its   *)
(* own speed.  What the chains did is `script`: deposit d has its L1 call,  *)
(* its inbox message and its L2 credit, all named d, numbered in inbox      *)
(* order.  The matcher sees only the keys the rows carry: the hash of the   *)
(* parameters, the level, the inbox coordinates, the transaction hash, and  *)
(* the value (ticket, receiver, amount).                                   *)
(*                                                                         *)
(* One action is one handler, or the visit of one row by a step's walk.  A  *)
(* pass runs in one transaction and nothing interleaves with it: a process  *)
(* killed in mid-pass leaves the database it started from, which is what    *)
(* Crash between passes leaves.                                            *)
(***************************************************************************)
EXTENDS Integers, FiniteSets, FiniteSetsExt

CONSTANTS
  Deposits,    \* the deposits, numbered in the order of their inbox messages
  Scripts,     \* what the chains may have done
  Gap,         \* LAYERS_TIMESTAMP_GAP_MAX
  MaxCrashes,  \* bound on restarts
  MaxTimeouts  \* bound on cemented commitments that time deposits out

None == 0

Routes   == {"coords", "xtz", "michelson"}
Outcomes == {"finished", "revertable", "empty_proxy", "proxy_not_whitelisted"}
Statuses == Outcomes \cup {"none", "created", "inbox_matching_timeout"}
Steps == {"tezos_deposits", "inbox", "michelson_deposits", "etherlink_deposits",
          "etherlink_xtz_deposits"}

\* level, at: L1 level (its time) and L2 time; hash: parameters_hash; value: ticket,
\* receiver and amount; named: is the credit's hash derived from the message?
Facts == [level : Nat, at : Nat, route : Routes, hash : Nat, value : Nat \ {None},
          named : BOOLEAN, credited : BOOLEAN, outcome : Outcomes]

\* Levels follow the inbox; the parameters determine the value, the value the route.
ASSUME DepositMatcherAssumption ==
  /\ Deposits \subseteq Nat \ {None}
  /\ Gap \in Nat /\ MaxCrashes \in Nat /\ MaxTimeouts \in Nat
  /\ Scripts \subseteq [Deposits -> Facts]
  /\ \A s \in Scripts : \A d, e \in Deposits :
       /\ d < e => s[d].level <= s[e].level
       /\ s[d].hash = s[e].hash => s[d].value = s[e].value
       /\ s[d].value = s[e].value => s[d].route = s[e].route

VARIABLES
  script,
  \* the legs stored
  calls,      \* rows of l1_deposit
  messages,   \* rows of rollup_inbox_message
  credits,    \* rows of l2_deposit
  coords,     \* per credit, the message whose level and index it carries
  unclaimed,  \* messages whose parameters_hash is not cleared
  \* the bridge operations; a bridge deposit is named by its L1 call
  bridged,    \* rows of bridge_deposit
  inboxOf,    \* their inbox_message
  creditOf,   \* their l2_transaction
  status,     \* BridgeOperation.status
  \* the memory of the process
  armed,      \* BridgeMatcherLocks: the steps whose flag is set
  pc,         \* the step the pass is at, or "idle"
  walking,    \* has the step read its rows?
  walk,       \* the rows its walk has still to visit
  crashes, timeouts

legs   == <<calls, messages, credits>>
bridge == <<bridged, inboxOf, creditOf, status>>
keys   == <<coords, unclaimed>>
pass   == <<pc, walking, walk>>
bounds == <<crashes, timeouts>>
vars   == <<script, legs, keys, bridge, armed, pass, bounds>>

-----------------------------------------------------------------------------
(* What the rows say, and what the queries of the steps select.            *)

Route(d) == script[d].route
Value(d) == script[d].value
Key(d)   == <<script[d].hash, script[d].level>>

Linked == {creditOf[d] : d \in bridged}

\* Mutant: the pools hold closed deposits too.
OpenOrClosed == {d \in bridged : inboxOf[d] # None}

Open   == {d \in bridged : creditOf[d] = None /\ inboxOf[d] # None}

\* The hash _expected_xtz_tx_hash derives for a deposit from its value and the
\* coordinates of its message; a receiver that is no EVM address has none.
ExpectedHash(d) == IF Route(d) = "michelson" THEN <<None, None>> ELSE <<Value(d), inboxOf[d]>>

\* The hash of an EVM XTZ credit: derived by the kernel, or of an older formula.
CreditHash(c) == IF script[c].named THEN <<Value(c), c>> ELSE <<None, c>>

InWindow(d, c) ==
  /\ script[c].at - Gap <= script[d].level
  /\ script[d].level <= script[c].at

\* Mutant: the inbox step also walks deposits that have no bridge row.
PendingUnbridged(s) ==
  CASE s = "tezos_deposits"     -> calls \ bridged
    [] s = "inbox"              -> {d \in Deposits : inboxOf[d] = None}
    [] s = "michelson_deposits" ->
         {c \in credits \ Linked : coords[c] = None /\ Route(c) = "michelson"}
    [] s = "etherlink_deposits" -> {c \in credits \ Linked : coords[c] # None}
    [] OTHER                    -> {c \in credits \ Linked : Route(c) = "xtz"}

\* The rows each step walks.
Pending(s) ==
  CASE s = "tezos_deposits"     -> calls \ bridged
    [] s = "inbox"              -> {d \in bridged : inboxOf[d] = None}
    [] s = "michelson_deposits" ->
         {c \in credits \ Linked : coords[c] = None /\ Route(c) = "michelson"}
    [] s = "etherlink_deposits" -> {c \in credits \ Linked : coords[c] # None}
    [] OTHER                    -> {c \in credits \ Linked : Route(c) = "xtz"}

\* Mutant: a message stays a candidate when it is attached.
MessagesAttachedToo(d) == {m \in messages : Key(m) = Key(d)}

\* The candidates each step's pool holds for a row.  A row claimed earlier in the
\* walk has left its query, so reading afresh is reading the pool.
Messages(d)  == {m \in unclaimed : Key(m) = Key(d)}
Located(c)   == {m \in messages : Route(m) = "michelson" /\ m = c}
AtCoords(c)  == {d \in Open : inboxOf[d] = coords[c]}
ByHash(c)    == {d \in Open : ExpectedHash(d) = CreditHash(c)}
ByValue(c)   == {d \in Open : Value(d) = Value(c) /\ InWindow(d, c)}

\* Mutant: the newest deposit first.
Latest(D) == {d \in D : \A e \in D : script[d].level >= script[e].level}

\* The pools of the xtz step are ordered by L1 timestamp and by nothing else.
Earliest(D) == {d \in D : \A e \in D : script[d].level <= script[e].level}

-----------------------------------------------------------------------------
Init ==
  /\ script \in Scripts
  /\ calls = {} /\ messages = {} /\ credits = {} /\ unclaimed = {} /\ bridged = {}
  /\ coords   = [d \in Deposits |-> None]
  /\ inboxOf  = [d \in Deposits |-> None]
  /\ creditOf = [d \in Deposits |-> None]
  /\ status   = [d \in Deposits |-> "none"]
  /\ armed = Steps
  /\ pc = "idle" /\ walking = FALSE /\ walk = {}
  /\ crashes = 0 /\ timeouts = 0

\* d is the next of the stream D, of which `seen` has been indexed.
NextOf(D, seen, d) == d \in D \ seen /\ \A e \in D \ seen : d <= e

Credited(route) == {d \in Deposits : script[d].credited /\ Route(d) = route}

\* The L1 call of a deposit is indexed.
RollupCall ==
  /\ pc = "idle"
  /\ \E d \in Deposits : NextOf(Deposits, calls, d) /\ calls' = calls \cup {d}
  /\ armed' = armed \cup {"tezos_deposits"}
  /\ UNCHANGED <<script, messages, credits, keys, bridge, pass, bounds>>

\* Mutant: a stored page arms the inbox step alone.
InboxMessageArmsInbox ==
  /\ pc = "idle"
  /\ \E m \in Deposits :
       /\ NextOf(Deposits, messages, m)
       /\ messages' = messages \cup {m}
       /\ unclaimed' = unclaimed \cup {m}
  /\ armed' = armed \cup {"inbox"}
  /\ UNCHANGED <<script, calls, credits, coords, bridge, pass, bounds>>

\* An inbox page is stored.
InboxMessage ==
  /\ pc = "idle"
  /\ \E m \in Deposits :
       /\ NextOf(Deposits, messages, m)
       /\ messages' = messages \cup {m}
       /\ unclaimed' = unclaimed \cup {m}
  /\ armed' = armed \cup {"inbox", "michelson_deposits"}
  /\ UNCHANGED <<script, calls, credits, coords, bridge, pass, bounds>>

\* An FA deposit event, which carries the coordinates of its message.
Deposit ==
  /\ pc = "idle"
  /\ \E c \in Deposits :
       /\ NextOf(Credited("coords"), credits, c)
       /\ credits' = credits \cup {c}
       /\ coords' = [coords EXCEPT ![c] = c]
  /\ armed' = armed \cup {"etherlink_deposits"}
  /\ UNCHANGED <<script, calls, messages, unclaimed, bridge, pass, bounds>>

\* An EVM XTZ credit, which carries its transaction hash and its value.
XtzDeposit ==
  /\ pc = "idle"
  /\ \E c \in Deposits : NextOf(Credited("xtz"), credits, c) /\ credits' = credits \cup {c}
  /\ armed' = armed \cup {"etherlink_xtz_deposits"}
  /\ UNCHANGED <<script, calls, messages, keys, bridge, pass, bounds>>

\* A synthetic Michelson credit, which carries its operation hash.
MichelsonDeposit ==
  /\ pc = "idle"
  /\ \E c \in Deposits :
       NextOf(Credited("michelson"), credits, c) /\ credits' = credits \cup {c}
  /\ armed' = armed \cup {"michelson_deposits"}
  /\ UNCHANGED <<script, calls, messages, keys, bridge, pass, bounds>>

\* Mutant: it times out closed deposits too.
CementCommitmentAll ==
  /\ pc = "idle" /\ timeouts < MaxTimeouts
  /\ \E horizon \in {script[d].level : d \in bridged} :
       status' = [d \in Deposits |->
                    IF d \in bridged /\ script[d].level <= horizon
                    THEN "inbox_matching_timeout" ELSE status[d]]
  /\ timeouts' = timeouts + 1
  /\ UNCHANGED <<script, legs, keys, bridged, inboxOf, creditOf, armed, pass, crashes>>

\* A commitment is cemented: deposits still `created` below its horizon time out.
CementCommitment ==
  /\ pc = "idle" /\ timeouts < MaxTimeouts
  /\ \E horizon \in {script[d].level : d \in bridged} :
       status' = [d \in Deposits |->
                    IF status[d] = "created" /\ script[d].level <= horizon
                    THEN "inbox_matching_timeout" ELSE status[d]]
  /\ timeouts' = timeouts + 1
  /\ UNCHANGED <<script, legs, keys, bridged, inboxOf, creditOf, armed, pass, crashes>>

\* The process dies and comes back: the flags go, and on_restart sets them all.
Crash ==
  /\ pc = "idle" /\ crashes < MaxCrashes
  /\ armed' = Steps
  /\ crashes' = crashes + 1
  /\ UNCHANGED <<script, legs, keys, bridge, pass, timeouts>>

-----------------------------------------------------------------------------
(* The pass.                                                               *)

After(s) ==
  CASE s = "tezos_deposits"     -> "inbox"
    [] s = "inbox"              -> "michelson_deposits"
    [] s = "michelson_deposits" -> "etherlink_deposits"
    [] s = "etherlink_deposits" -> "etherlink_xtz_deposits"
    [] OTHER                    -> "idle"

StartPass ==
  /\ pc = "idle" /\ armed # {}
  /\ pc' = "tezos_deposits"
  /\ UNCHANGED <<script, legs, keys, bridge, armed, walking, walk, bounds>>

\* A step whose flag is off does nothing.
SkipStep ==
  /\ pc \in Steps \ armed /\ ~walking
  /\ pc' = After(pc)
  /\ UNCHANGED <<script, legs, keys, bridge, armed, walking, walk, bounds>>

\* It clears its flag and reads the rows it will walk.
StartStep ==
  /\ pc \in armed /\ ~walking
  /\ armed' = armed \ {pc}
  /\ walking' = TRUE /\ walk' = Pending(pc)
  /\ UNCHANGED <<script, legs, keys, bridge, pc, bounds>>

\* The xtz step walks what the hashes could not name once more, by value.
EndStep ==
  /\ walking /\ walk = {}
  /\ IF pc = "etherlink_xtz_deposits"
     THEN pc' = "by_value" /\ walk' = Pending(pc) /\ walking' = TRUE
     ELSE pc' = After(pc) /\ walk' = {} /\ walking' = FALSE
  /\ UNCHANGED <<script, legs, keys, bridge, armed, bounds>>

\* The walk of step s visits row r.
Visit(s, r) ==
  /\ pc = s /\ walking /\ r \in walk
  /\ walk' = walk \ {r}
  /\ UNCHANGED <<script, legs, pc, walking, bounds>>

\* The walks over L2 credits go in L2 order.
VisitNext(s, c) == Visit(s, c) /\ \A r \in walk : c <= r

\* Mutant: a new bridge deposit does not arm the inbox step.
CreateBridgeUnarmed(d) ==
  /\ Visit("tezos_deposits", d)
  /\ bridged' = bridged \cup {d}
  /\ status' = [status EXCEPT ![d] = "created"]
  /\ UNCHANGED <<keys, inboxOf, creditOf, armed>>

\* check_pending_tezos_deposits: every L1 call gets a bridge operation.
CreateBridge(d) ==
  /\ Visit("tezos_deposits", d)
  /\ bridged' = bridged \cup {d}
  /\ status' = [status EXCEPT ![d] = "created"]
  /\ armed' = armed \cup {"inbox"}
  /\ UNCHANGED <<keys, inboxOf, creditOf>>

\* check_pending_inbox: the first message of the same hash and level.  Within a level
\* the walk follows the counters of the senders, which say nothing of inbox order.
AttachInbox(d) ==
  /\ Visit("inbox", d)
  /\ \A e \in walk : script[d].level <= script[e].level
  /\ IF Messages(d) = {}
     THEN UNCHANGED <<unclaimed, inboxOf, armed>>
     ELSE /\ inboxOf' = [inboxOf EXCEPT ![d] = Min(Messages(d))]
          /\ unclaimed' = unclaimed \ {Min(Messages(d))}
          /\ armed' = armed \cup {"michelson_deposits", "etherlink_deposits",
                                  "etherlink_xtz_deposits"}
  /\ UNCHANGED <<coords, bridged, creditOf, status>>

\* Mutant: coordinates copied onto a credit do not arm the step that joins by them.
CopyCoordsUnarmed(c) ==
  /\ VisitNext("michelson_deposits", c)
  /\ IF Located(c) = {}
     THEN UNCHANGED coords
     ELSE coords' = [coords EXCEPT ![c] = Min(Located(c))]
  /\ UNCHANGED <<unclaimed, bridge, armed>>

\* check_pending_michelson_deposits: the coordinates of the message that expects it.
CopyCoords(c) ==
  /\ VisitNext("michelson_deposits", c)
  /\ IF Located(c) = {}
     THEN UNCHANGED <<coords, armed>>
     ELSE /\ coords' = [coords EXCEPT ![c] = Min(Located(c))]
          /\ armed' = armed \cup {"etherlink_deposits"}
  /\ UNCHANGED <<unclaimed, bridge>>

\* Deposit d gets credit c, and its operation is closed.
Finish(d, c, outcome) ==
  /\ creditOf' = [creditOf EXCEPT ![d] = c]
  /\ status' = [status EXCEPT ![d] = outcome]
  /\ UNCHANGED <<bridged, inboxOf>>

\* check_pending_etherlink_deposits: the open deposit whose message it names.
LinkByCoords(c) ==
  /\ VisitNext("etherlink_deposits", c)
  /\ IF AtCoords(c) = {}
     THEN UNCHANGED bridge
     ELSE \E d \in AtCoords(c) : Finish(d, c, script[c].outcome)
  /\ UNCHANGED <<keys, armed>>

\* check_pending_etherlink_xtz_deposits, first pass: the deposit the hash names.
LinkByHash(c) ==
  /\ VisitNext("etherlink_xtz_deposits", c)
  /\ IF ByHash(c) = {}
     THEN UNCHANGED <<unclaimed, bridge>>
     ELSE \E d \in Earliest(ByHash(c)) :
            /\ Finish(d, c, "finished")
            /\ unclaimed' = unclaimed \ {inboxOf[d]}
  /\ UNCHANGED <<coords, armed>>

\* ... and its second pass: the earliest open deposit of the same value in the window.
LinkByValue(c) ==
  /\ VisitNext("by_value", c)
  /\ IF ByValue(c) = {}
     THEN UNCHANGED <<unclaimed, bridge>>
     ELSE \E d \in Earliest(ByValue(c)) :
            /\ Finish(d, c, "finished")
            /\ unclaimed' = unclaimed \ {inboxOf[d]}
  /\ UNCHANGED <<coords, armed>>

VisitRow ==
  \E r \in Deposits : \/ CreateBridge(r) \/ AttachInbox(r) \/ CopyCoords(r)
                      \/ LinkByCoords(r) \/ LinkByHash(r) \/ LinkByValue(r)

PassStep == StartPass \/ SkipStep \/ StartStep \/ EndStep \/ VisitRow

Index == RollupCall \/ InboxMessage \/ Deposit \/ XtzDeposit \/ MichelsonDeposit

Next == Index \/ PassStep \/ CementCommitment \/ Crash

Spec == Init /\ [][Next]_vars

-----------------------------------------------------------------------------
(* Properties.                                                             *)

\* Every variable has its type, and a deposit without a bridge row has no links.
TypeOK ==
  /\ script \in Scripts
  /\ calls \subseteq Deposits /\ messages \subseteq Deposits
  /\ credits \subseteq Deposits /\ bridged \subseteq calls
  /\ unclaimed \subseteq messages
  /\ coords \in [Deposits -> Deposits \cup {None}]
  /\ inboxOf \in [Deposits -> messages \cup {None}]
  /\ creditOf \in [Deposits -> credits \cup {None}]
  /\ status \in [Deposits -> Statuses]
  /\ \A d \in Deposits \ bridged :
       inboxOf[d] = None /\ creditOf[d] = None /\ status[d] = "none"
  /\ armed \subseteq Steps
  /\ pc \in Steps \cup {"idle", "by_value"}
  /\ walking \in BOOLEAN /\ walk \subseteq Deposits
  /\ crashes \in 0 .. MaxCrashes /\ timeouts \in 0 .. MaxTimeouts

\* No leg serves two deposits: a message attached is no candidate any more and belongs
\* to one bridge deposit, and so does an L2 credit, whichever step linked it.
NoSharedLegs ==
  /\ \A d \in bridged : inboxOf[d] \notin unclaimed
  /\ \A d, e \in bridged : d # e =>
       /\ inboxOf[d] # None => inboxOf[d] # inboxOf[e]
       /\ creditOf[d] # None => creditOf[d] # creditOf[e]

\* However the streams overtake each other and whatever the value step guessed before,
\* a credit whose key names its message closes the deposit of that message, and one of
\* an older formula a deposit of its own value and L1 level.
OwnCredits ==
  \A d \in bridged : LET c == creditOf[d] IN c # None =>
    /\ Value(c) = Value(d) /\ script[c].level = script[d].level
    /\ (Route(c) = "xtz" => script[c].named) => c = inboxOf[d]

\* A pass that finds no flag set has nothing to do: what the rows still allow to join
\* has armed its step, through whichever leg came last.
Settled == pc = "idle" =>
  /\ "tezos_deposits" \notin armed => calls \subseteq bridged
  /\ "inbox" \notin armed => \A d \in Pending("inbox") : Messages(d) = {}
  /\ "michelson_deposits" \notin armed =>
       \A c \in Pending("michelson_deposits") : Located(c) = {}
  /\ "etherlink_deposits" \notin armed =>
       \A c \in Pending("etherlink_deposits") : AtCoords(c) = {}
  /\ "etherlink_xtz_deposits" \notin armed =>
       \A c \in Pending("etherlink_xtz_deposits") : ByHash(c) = {} /\ ByValue(c) = {}

\* A closed operation keeps its credit and its status: a commitment cemented while a
\* late credit is on its way times out open operations only, and no later pass links
\* a closed one again.
ClosedStaysClosed ==
  [][\A d \in Deposits : creditOf[d] # None =>
       creditOf'[d] = creditOf[d] /\ status'[d] = status[d]]_vars

\* The matcher keeps the promise of BridgeOperations: operations are bridge deposits, the
\* legs that close them are L2 credits, and those the commitments timed out are overdue.
Operations == INSTANCE BridgeOperations WITH
  Operations <- Deposits, Legs <- Deposits, NoLeg <- None,
  messages <- messages, closers <- credits,
  opened <- bridged, message <- inboxOf, closer <- creditOf,
  overdue <- {d \in bridged : status[d] = "inbox_matching_timeout"}

\* Whatever the flags, walks and keys do, each step is one of a bridge operation or none:
\* a leg serves one deposit, what a deposit has it keeps, and one that timed out is
\* closed by its late credit and never open again.
KeepsPromise == Operations!Spec

\* The log line of the value pass says a pairing by value is "expected only while
\* indexing credits older than the derivation".
ValueOnlyForOlder ==
  [][pc = "by_value" =>
       \A c \in Deposits : (\E d \in Deposits : creditOf'[d] = c /\ creditOf[d] # c)
                            => ~script[c].named]_vars

\* The indexes go on indexing and the batches go on running the pass.
Fairness ==
  /\ WF_vars(RollupCall) /\ WF_vars(InboxMessage)
  /\ WF_vars(Deposit) /\ WF_vars(XtzDeposit) /\ WF_vars(MichelsonDeposit)
  /\ WF_vars(PassStep)

FairSpec == Spec /\ Fairness

\* Every credited deposit ends with its credit and the status the credit gives it, even
\* one that timed out before: the flags the handlers set and the cascade of the steps
\* are enough, in whatever order the legs come.
EventuallyClosed ==
  \A d \in Deposits : script[d].credited ~>
    creditOf[d] # None /\ status[d] = script[creditOf[d]].outcome

=============================================================================
