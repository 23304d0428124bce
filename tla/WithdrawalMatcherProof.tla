------------------------ MODULE WithdrawalMatcherProof ------------------------
(***************************************************************************)
(* Proofs that, for any number of withdrawals and payouts and whatever the   *)
(* chains did, the withdrawal matcher gives each leg to one operation, finds *)
(* one row to split whenever a payout may be claimed, and leaves no join     *)
(* undone with its flag clear.                                             *)
(***************************************************************************)
EXTENDS WithdrawalMatcherInv, TLAPS

-----------------------------------------------------------------------------
(* Lemmas about the constants and the queries.                             *)

\* The assumptions on the constants, in the parts the proofs use.
LEMMA Constants ==
  /\ Withdrawals \subseteq Nat /\ None \notin Ids
  /\ Withdrawals \cap Payouts = {} /\ Ids = Withdrawals \cup Payouts
  /\ MaxCrashes \in Nat /\ MaxCements \in Nat
BY WithdrawalMatcherAssumption DEF Ids

\* What every script tells of its withdrawals and its payouts.
LEMMA ScriptFacts ==
  ASSUME TypeOK
  PROVE  /\ \A w \in Withdrawals : Level(w) \in Nat
         /\ \A w \in Withdrawals : script.facts[w].byId => Route(w) = "fast"
         /\ \A w, v \in Withdrawals : Hash(w) = Hash(v) /\ Route(w) = "fast" => w = v
         /\ \A p \in Payouts : Of(p) \in Withdrawals
<1>1. script \in Scripts
  BY DEF TypeOK
<1>2. script \in [facts : [Withdrawals -> Facts], claims : [Payouts -> Claims]]
  BY <1>1, WithdrawalMatcherAssumption
<1>3. \A w \in Withdrawals : Level(w) \in Nat
  BY <1>2 DEF Level, Facts
<1>4. \A p \in Payouts : Of(p) \in Withdrawals
  BY <1>2 DEF Of, Claims
<1> QED BY <1>1, <1>3, <1>4, WithdrawalMatcherAssumption DEF Route, Hash

\* Every bridge row names an L2 leg, a customer's row its own.
LEMMA Legs ==
  ASSUME TypeOK
  PROVE  /\ \A r \in Ids : Leg(r) \in Withdrawals
         /\ \A w \in Withdrawals : Leg(w) = w
         /\ \A p \in Payouts : Leg(p) = Of(p)
BY Constants, ScriptFacts DEF Leg

\* The queries of the steps, one by one.
LEMMA PendingRows ==
  /\ Pending("etherlink_withdrawals") = withdrawals \ {Leg(r) : r \in rows}
  /\ Pending("outbox") = {r \in rows : outboxOf[r] = None}
  /\ Pending("tezos_withdrawals") = (payments \cap Withdrawals) \ Paid
  /\ Pending("claimed_fast_withdrawals") = (payments \cap Payouts \cap unclaimed) \ Paid
BY DEF Pending

\* L2 legs without a bridge row.
Unbridged == Pending("etherlink_withdrawals")

\* The rows that could be joined, with the queries unfolded.
ReadyRows ==
  /\ Unbridged = withdrawals \ {Leg(r) : r \in rows}
  /\ ReadyOutbox = {r \in rows : outboxOf[r] = None /\ Answers(r) # {}}
  /\ ReadyClaims =
       {p \in (payments \cap Payouts \cap unclaimed) \ Paid : Of(p) \in withdrawals /\ Exact(p)}

LEMMA ReadyRowsHold == ReadyRows /\ ReadyRows'
BY DEF ReadyRows, Pending, Unbridged, ReadyOutbox, ReadyClaims

\* What they depend on.
LEMMA SameReady ==
  /\ UNCHANGED script => \A r : Leg(r)' = Leg(r) /\ Of(r)' = Of(r) /\ Exact(r)' = Exact(r)
                                /\ Hash(r)' = Hash(r) /\ Level(r)' = Level(r)
  /\ UNCHANGED <<script, withdrawals, rows>> => Unbridged' = Unbridged
  /\ UNCHANGED <<script, messages, hashed, unclaimed, rows, outboxOf>> =>
       ReadyOutbox' = ReadyOutbox
  /\ UNCHANGED <<script, withdrawals, payments, unclaimed, rows, paidBy>> =>
       ReadyClaims' = ReadyClaims
<1>1. UNCHANGED script => \A r : Leg(r)' = Leg(r) /\ Of(r)' = Of(r) /\ Exact(r)' = Exact(r)
                                /\ Hash(r)' = Hash(r) /\ Level(r)' = Level(r)
  BY DEF Leg, Of, Exact, Hash, Level
<1>2. UNCHANGED <<script, withdrawals, rows>> => Unbridged' = Unbridged
  BY <1>1, ReadyRowsHold DEF ReadyRows
<1>3. UNCHANGED <<script, messages, hashed, unclaimed, rows, outboxOf>> =>
        ReadyOutbox' = ReadyOutbox
  <2>1. UNCHANGED <<script, messages, hashed, unclaimed>> => \A r : Answers(r)' = Answers(r)
    BY <1>1 DEF Answers
  <2> QED BY <2>1, ReadyRowsHold DEF ReadyRows
<1>4. UNCHANGED <<script, withdrawals, payments, unclaimed, rows, paidBy>> =>
        ReadyClaims' = ReadyClaims
  BY <1>1, ReadyRowsHold DEF ReadyRows, Paid
<1> QED BY <1>1, <1>2, <1>3, <1>4

\* A step that leaves the bridge rows alone leaves alone what they hold.
LEMMA SameBridge ==
  ASSUME UNCHANGED <<script, rows, outboxOf, paidBy>>
  PROVE  /\ Providers => Providers'
         /\ UNCHANGED status /\ OwnLegs => OwnLegs'
         /\ unclaimed' \subseteq unclaimed /\ KeysCleared => KeysCleared'
<1>1. \A r : Leg(r)' = Leg(r) /\ Of(r)' = Of(r) /\ Hash(r)' = Hash(r)
  BY SameReady
<1>2. Providers => Providers'
  BY <1>1 DEF Providers
<1>3. UNCHANGED status /\ OwnLegs => OwnLegs'
  BY <1>1 DEF OwnLegs
<1>4. unclaimed' \subseteq unclaimed /\ KeysCleared => KeysCleared'
  BY DEF KeysCleared
<1> QED BY <1>2, <1>3, <1>4

-----------------------------------------------------------------------------
(* The invariant holds at the start and is kept by every action.           *)

LEMMA InitInv == Init => WithdrawalInv
<1> SUFFICES ASSUME Init PROVE WithdrawalInv
  OBVIOUS
<1>1. TypeOK
  <2>1. /\ outboxOf \in [Ids -> messages \cup {None}]
        /\ paidBy \in [Ids -> payments \cup {None}]
        /\ status \in [Ids -> Statuses]
    BY DEF Init, Statuses
  <2>2. crashes \in 0 .. MaxCrashes /\ cements \in 0 .. MaxCements
    BY Constants DEF Init
  <2> QED BY <2>1, <2>2 DEF Init, TypeOK
<1>2. Providers
  BY Constants DEF Init, Providers
<1>3. WalkPending /\ KeysCleared /\ OwnLegs
  BY DEF Init, WalkPending, KeysCleared, OwnLegs
<1>4. BridgedFirst /\ FlagsCover
  BY DEF Init, BridgedFirst, FlagsCover, Covered, Steps, Pending
<1> QED BY <1>1, <1>2, <1>3, <1>4 DEF WithdrawalInv

\* Outside a walk, a step whose flag is clear has nothing it could join.
Quiet ==
  /\ "etherlink_withdrawals" \notin armed => Unbridged = {}
  /\ "outbox" \notin armed => ReadyOutbox = {}
  /\ "claimed_fast_withdrawals" \notin armed => ReadyClaims = {}

\* ... and an L2 leg without its row has armed the outbox step.
Followed == Unbridged # {} => "outbox" \in armed

LEMMA QuietCover ==
  /\ WithdrawalInv /\ ~walking => Quiet /\ Followed
  /\ Quiet' => FlagsCover'
  /\ Followed' /\ pc' \notin Steps \ {"etherlink_withdrawals"} => BridgedFirst'
BY DEF WithdrawalInv, FlagsCover, Covered, Quiet, Followed, BridgedFirst, Unbridged

\* Between passes it is enough to look at the tables and the flags.
LEMMA IdleStep ==
  ASSUME WithdrawalInv, pc = "idle", UNCHANGED pass,
         TypeOK', KeysCleared', OwnLegs', Providers', Quiet', Followed'
  PROVE  WithdrawalInv'
<1>1. WalkPending'
  BY DEF WithdrawalInv, WalkPending, pass
<1>2. pc' \notin Steps
  BY DEF Steps, pass
<1> QED BY <1>1, <1>2, QuietCover DEF WithdrawalInv

\* A new L2 leg has no bridge row, and arms all the steps it may complete.
LEMMA StoreWithdrawalInv ==
  ASSUME WithdrawalInv, NEW w \in Withdrawals, NEW arms \in SUBSET Steps,
         StoreWithdrawal(w, arms),
         Route(w) = "xtz" \/ "claimed_fast_withdrawals" \in arms
  PROVE  WithdrawalInv'
<1> USE DEF WithdrawalInv
<1>1. /\ pc = "idle" /\ withdrawals' = withdrawals \cup {w} /\ hashed' = hashed \cup {w}
      /\ armed' = armed \cup {"etherlink_withdrawals", "outbox"} \cup arms
      /\ UNCHANGED <<script, messages, payments, lost, unclaimed, bridge, pass,
                     synchronized, bounds>>
  BY DEF StoreWithdrawal
<1>2. TypeOK'
  BY <1>1 DEF TypeOK, Steps, bridge, pass, bounds
<1>3. KeysCleared' /\ OwnLegs' /\ Providers'
  BY <1>1, SameBridge DEF bridge
<1>4. "claimed_fast_withdrawals" \notin armed' => ReadyClaims' = {}
  <2> SUFFICES ASSUME "claimed_fast_withdrawals" \notin armed' PROVE ReadyClaims' = {}
    OBVIOUS
  <2>1. Route(w) = "xtz" /\ ReadyClaims = {}
    BY <1>1, QuietCover DEF WalkPending, Quiet
  <2>2. \A p \in Payouts : Of(p) # w
    BY <2>1, WithdrawalMatcherAssumption DEF TypeOK, Route, Of
  <2>3. ReadyClaims' \subseteq ReadyClaims
    BY <1>1, <2>2, SameReady, ReadyRowsHold DEF ReadyRows, Paid, bridge
  <2> QED BY <2>1, <2>3
<1>5. Quiet' /\ Followed'
  BY <1>1, <1>4 DEF Quiet, Followed
<1> QED BY <1>1, <1>2, <1>3, <1>5, IdleStep

LEMMA WithdrawInv == ASSUME WithdrawalInv, Withdraw \/ XtzWithdraw PROVE WithdrawalInv'
<1>1. CASE Withdraw
  BY <1>1, StoreWithdrawalInv DEF Withdraw, Steps
<1>2. CASE XtzWithdraw
  <2>1. PICK w \in Withdrawals :
          /\ Route(w) # "fa"
          /\ StoreWithdrawal(w, IF Route(w) = "fast" THEN {"claimed_fast_withdrawals"} ELSE {})
    BY <1>2 DEF XtzWithdraw
  <2>2. Route(w) \in Routes
    BY WithdrawalMatcherAssumption DEF WithdrawalInv, TypeOK, Route, Facts
  <2>3. CASE Route(w) = "fast"
    BY <2>1, <2>3, StoreWithdrawalInv DEF Steps
  <2>4. CASE Route(w) = "xtz"
    BY <2>1, <2>4, StoreWithdrawalInv
  <2> QED BY <2>1, <2>2, <2>3, <2>4 DEF Routes
<1> QED BY <1>1, <1>2

\* A new outbox may answer a row, and arms the outbox step.
LEMMA OutboxLevelInv == ASSUME WithdrawalInv, OutboxLevel PROVE WithdrawalInv'
<1> USE DEF WithdrawalInv
<1>1. PICK arrived \in SUBSET Withdrawals : /\ messages' = messages \cup arrived
                                            /\ unclaimed' = unclaimed \cup (arrived \ messages)
  BY DEF OutboxLevel
<1>2. /\ pc = "idle" /\ armed' = armed \cup {"outbox"}
      /\ UNCHANGED <<script, withdrawals, payments, lost, hashed, bridge, pass, synchronized,
                     bounds>>
  BY DEF OutboxLevel
<1>3. TypeOK'
  BY <1>1, <1>2, Constants DEF TypeOK, Steps, bridge, pass, bounds
<1>4. OwnLegs' /\ Providers'
  BY <1>2, SameBridge DEF bridge
<1>5. KeysCleared'
  <2>1. rows \subseteq Ids /\ \A r \in rows : outboxOf[r] \in messages \cup {None}
    BY Constants DEF TypeOK
  <2> QED BY <1>1, <1>2, <2>1, Constants DEF KeysCleared, bridge
<1>6. ReadyClaims' = ReadyClaims
  <2>1. unclaimed' \cap Payouts = unclaimed \cap Payouts /\ Paid' = Paid
    BY <1>1, <1>2, Constants DEF Paid, bridge
  <2>2. \A p : Of(p)' = Of(p) /\ Exact(p)' = Exact(p)
    BY <1>2, SameReady
  <2> QED BY <1>2, <2>1, <2>2, ReadyRowsHold DEF ReadyRows
<1>7. Quiet' /\ Followed'
  BY <1>2, <1>6, SameReady, QuietCover DEF Quiet, Followed, WalkPending, bridge
<1> QED BY <1>2, <1>3, <1>4, <1>5, <1>7, IdleStep

\* A new payout is held by no row, and arms the claims.
LEMMA ClaimXtzFastWithdrawalInv ==
  ASSUME WithdrawalInv, ClaimXtzFastWithdrawal PROVE WithdrawalInv'
<1> USE DEF WithdrawalInv
<1>1. PICK p \in Payouts \ messages : /\ messages' = messages \cup {p}
                                      /\ unclaimed' = unclaimed \cup {p}
                                      /\ payments' = payments \cup {p}
  BY DEF ClaimXtzFastWithdrawal
<1>2. /\ pc = "idle" /\ armed' = armed \cup {"claimed_fast_withdrawals"}
      /\ UNCHANGED <<script, withdrawals, lost, hashed, bridge, pass, synchronized, bounds>>
  BY DEF ClaimXtzFastWithdrawal
<1>3. TypeOK'
  BY <1>1, <1>2, Constants DEF TypeOK, Steps, bridge, pass, bounds
<1>4. OwnLegs' /\ Providers'
  BY <1>2, SameBridge DEF bridge
<1>5. KeysCleared'
  <2>1. p \notin rows /\ p # None /\ \A r \in rows : outboxOf[r] # p
    BY <1>1, Constants DEF TypeOK
  <2> QED BY <1>1, <1>2, <2>1 DEF KeysCleared, bridge
<1>6. ReadyOutbox' = ReadyOutbox
  <2>1. \A r : Answers(r)' = Answers(r)
    BY <1>1, <1>2, SameReady, Constants DEF Answers
  <2> QED BY <1>2, <2>1, ReadyRowsHold DEF ReadyRows, bridge
<1>7. Quiet' /\ Followed'
  BY <1>2, <1>6, SameReady, QuietCover DEF Quiet, Followed, WalkPending, bridge
<1> QED BY <1>2, <1>3, <1>4, <1>5, <1>7, IdleStep

\* The L1 leg of a kernel message completes no join but its own step's.
LEMMA RegisterInv ==
  ASSUME WithdrawalInv, pc = "idle",
         NEW m \in (Withdrawals \cap messages) \ lost, Register(m)
  PROVE  WithdrawalInv'
<1> USE DEF WithdrawalInv
<1>1. /\ payments' = payments \cup {m} /\ armed' = armed \cup {"tezos_withdrawals"}
      /\ UNCHANGED <<script, withdrawals, messages, lost, keys, bridge, pass, synchronized,
                     bounds>>
  BY DEF Register
<1>2. TypeOK'
  BY <1>1 DEF TypeOK, Steps, keys, bridge, pass, bounds
<1>3. KeysCleared' /\ OwnLegs' /\ Providers'
  BY <1>1, SameBridge DEF keys, bridge
<1>4. ReadyClaims' = ReadyClaims
  <2>1. payments' \cap Payouts = payments \cap Payouts /\ Paid' = Paid
    BY <1>1, Constants DEF Paid, bridge
  <2>2. \A p : Of(p)' = Of(p) /\ Exact(p)' = Exact(p)
    BY <1>1, SameReady
  <2> QED BY <1>1, <2>1, <2>2, ReadyRowsHold DEF ReadyRows, keys
<1>5. Quiet' /\ Followed'
  BY <1>1, <1>4, SameReady, QuietCover DEF Quiet, Followed, WalkPending, keys, bridge
<1> QED BY <1>1, <1>2, <1>3, <1>5, IdleStep

LEMMA ExecuteInv == ASSUME WithdrawalInv, Execute PROVE WithdrawalInv'
<1> USE DEF WithdrawalInv
<1>1. CASE ExecuteByIndex
  BY <1>1, RegisterInv DEF ExecuteByIndex, Unhandled
<1>2. CASE ExecuteUnknown
  <2>1. /\ pc = "idle" /\ \E w \in Withdrawals \ payments : lost' = lost \cup {w}
        /\ UNCHANGED <<script, withdrawals, messages, payments, keys, bridge, armed, pass,
                       synchronized, bounds>>
    BY <1>2 DEF ExecuteUnknown, Unhandled
  <2>2. TypeOK'
    BY <2>1 DEF TypeOK, keys, bridge, pass, bounds
  <2>3. KeysCleared' /\ OwnLegs' /\ Providers'
    BY <2>1, SameBridge DEF keys, bridge
  <2>4. Quiet' /\ Followed'
    BY <2>1, SameReady, QuietCover DEF Quiet, Followed, WalkPending, keys, bridge
  <2> QED BY <2>1, <2>2, <2>3, <2>4, IdleStep
<1> QED BY <1>1, <1>2 DEF Execute

\* A restart and on_synchronized set every flag.
LEMMA ArmAllInv ==
  ASSUME WithdrawalInv, pc = "idle", armed' = Steps,
         synchronized' \in BOOLEAN, crashes' \in 0 .. MaxCrashes,
         UNCHANGED <<script, legs, keys, bridge, pass, horizon, cements>>
  PROVE  WithdrawalInv'
<1> USE DEF WithdrawalInv
<1>1. TypeOK'
  BY DEF TypeOK, legs, keys, bridge, pass
<1>2. KeysCleared' /\ OwnLegs' /\ Providers'
  BY SameBridge DEF keys, bridge
<1>3. Quiet' /\ Followed'
  BY DEF Quiet, Followed, Steps
<1> QED BY <1>1, <1>2, <1>3, IdleStep

\* A commitment moves statuses, and none of a paid operation.
CementKeeps ==
  /\ UNCHANGED <<rows, outboxOf, paidBy>>
  /\ status' \in [Ids -> Statuses]
  /\ \A r \in Ids : paidBy[r] # None \/ r \notin rows => status'[r] = status[r]
  /\ \A r \in Ids : paidBy[r] = None => status'[r] # "finished"

LEMMA CementKeepsPaid == ASSUME WithdrawalInv, CementCommitment PROVE CementKeeps
<1> USE DEF WithdrawalInv
<1>1. PICK proven \in SUBSET Unpaid :
        status' = [r \in Ids |-> CASE r \in proven           -> "sealed"
                                   [] r \in Expire(horizon') -> "outbox_expired"
                                   [] OTHER                  -> status[r]]
  BY DEF CementCommitment
<1>2. \A r \in Expire(horizon') : r \in rows /\ status[r] \in Open
  BY DEF Expire, Oldest
<1>3. \A r \in rows : paidBy[r] # None => status[r] \notin Open
  BY DEF OwnLegs, Open
<1>4. \A r \in Ids : paidBy[r] = None => status[r] # "finished"
  BY DEF OwnLegs, TypeOK
<1>5. \A r \in Ids : \/ r \in proven /\ status'[r] = "sealed"
                     \/ r \in Expire(horizon') /\ status'[r] = "outbox_expired"
                     \/ r \notin proven /\ r \notin Expire(horizon') /\ status'[r] = status[r]
  BY <1>1
<1>6. status' \in [Ids -> Statuses]
  BY <1>1 DEF TypeOK, Statuses, Open
<1>7. UNCHANGED <<rows, outboxOf, paidBy>>
  BY DEF CementCommitment
<1> QED BY <1>2, <1>3, <1>4, <1>5, <1>6, <1>7 DEF CementKeeps, Unpaid

LEMMA CementCommitmentInv == ASSUME WithdrawalInv, CementCommitment PROVE WithdrawalInv'
<1> USE DEF WithdrawalInv
<1>1. CementKeeps
  BY CementKeepsPaid
<1>2. /\ pc = "idle"
      /\ UNCHANGED <<script, legs, keys, rows, outboxOf, paidBy, armed, pass, synchronized,
                     crashes>>
  BY DEF CementCommitment
<1>3. TypeOK'
  <2>1. horizon' \in Nat
    BY ScriptFacts DEF CementCommitment, TypeOK
  <2>2. cements' \in 0 .. MaxCements
    BY Constants DEF CementCommitment, TypeOK
  <2> QED BY <1>1, <1>2, <2>1, <2>2 DEF CementKeeps, TypeOK, legs, keys, pass
<1>4. KeysCleared' /\ Providers'
  BY <1>2, SameBridge DEF keys
<1>5. OwnLegs'
  <2>1. \A r \in rows : r \in Ids
    BY Constants DEF TypeOK
  <2>2. \A r \in rows : status'[r] = "finished" <=> paidBy[r] # None
    BY <1>1, <2>1 DEF CementKeeps, OwnLegs
  <2> QED BY <1>2, <2>2, SameReady DEF OwnLegs
<1>6. Quiet' /\ Followed'
  BY <1>2, SameReady, QuietCover DEF Quiet, Followed, WalkPending, legs, keys
<1> QED BY <1>2, <1>3, <1>4, <1>5, <1>6, IdleStep

-----------------------------------------------------------------------------
(* The moves of a pass between its steps.                                  *)

\* A move that changes no row and no flag, and leaves no walk.
LEMMA MoveInv ==
  ASSUME WithdrawalInv, Quiet, Followed, pc' \in Steps \cup {"idle"},
         pc' \in Steps \ {"etherlink_withdrawals"} => "etherlink_withdrawals" \notin armed,
         walking' = FALSE, walk' = {},
         UNCHANGED <<script, legs, keys, bridge, armed, synchronized, bounds>>
  PROVE  WithdrawalInv'
<1> USE DEF WithdrawalInv
<1>1. TypeOK'
  BY DEF TypeOK, legs, keys, bridge, bounds
<1>2. WalkPending'
  BY DEF WalkPending
<1>3. KeysCleared' /\ OwnLegs' /\ Providers'
  BY SameBridge DEF keys, bridge
<1>4. Quiet' /\ Followed'
  BY SameReady DEF Quiet, Followed, legs, keys, bridge
<1>5. BridgedFirst'
  BY <1>4 DEF BridgedFirst, Followed, Unbridged
<1> QED BY <1>1, <1>2, <1>3, <1>4, <1>5, QuietCover

LEMMA StartPassInv == ASSUME WithdrawalInv, StartPass PROVE WithdrawalInv'
<1>1. /\ walking = FALSE /\ walk = {} /\ pc' = "etherlink_withdrawals"
      /\ UNCHANGED <<script, legs, keys, bridge, armed, walking, walk, synchronized, bounds>>
  BY DEF StartPass, WithdrawalInv, WalkPending, TypeOK
<1>2. Quiet /\ Followed
  BY <1>1, QuietCover
<1> QED BY <1>1, <1>2, MoveInv DEF Steps

LEMMA SkipStepInv == ASSUME WithdrawalInv, SkipStep PROVE WithdrawalInv'
<1>1. /\ walking = FALSE /\ walk = {} /\ pc \in Steps \ armed /\ pc' = After(pc)
      /\ UNCHANGED <<script, legs, keys, bridge, armed, walking, walk, synchronized, bounds>>
  BY DEF SkipStep, WithdrawalInv, WalkPending, TypeOK
<1>2. pc' \in Steps \cup {"idle"}
  BY <1>1 DEF After, Steps
<1>3. "etherlink_withdrawals" \notin armed
  BY <1>1 DEF WithdrawalInv, BridgedFirst
<1>4. Quiet /\ Followed
  BY <1>1, QuietCover
<1> QED BY <1>1, <1>2, <1>3, <1>4, MoveInv

\* What is ready is among the rows the step reads.
LEMMA StartStepInv == ASSUME WithdrawalInv, StartStep PROVE WithdrawalInv'
<1> USE DEF WithdrawalInv
<1>1. /\ pc \in armed /\ pc \in Steps /\ ~walking /\ pc' = pc /\ walking' /\ walk' = Pending(pc)
      /\ armed' = armed \ {pc}
      /\ UNCHANGED <<script, legs, keys, bridge, synchronized, bounds>>
  BY DEF StartStep, TypeOK
<1>2. Quiet /\ Followed
  BY <1>1, QuietCover
<1>3. Pending(pc)' = Pending(pc)
  BY <1>1, SameReady DEF Pending, Paid, legs, keys, bridge
<1>4. TypeOK'
  <2>1. Pending(pc) \subseteq Ids
    BY Constants DEF Pending, TypeOK
  <2> QED BY <1>1, <2>1 DEF StartStep, TypeOK, legs, keys, bridge, bounds
<1>5. WalkPending'
  BY <1>1, <1>3 DEF WalkPending, Steps
<1>6. KeysCleared' /\ OwnLegs' /\ Providers'
  BY <1>1, SameBridge DEF keys, bridge
<1>7. Unbridged' = Unbridged /\ ReadyOutbox' = ReadyOutbox /\ ReadyClaims' = ReadyClaims
  BY <1>1, SameReady DEF legs, keys, bridge
<1>8. BridgedFirst'
  <2>1. pc = "outbox" => Unbridged = {}
    BY <1>2 DEF BridgedFirst, Quiet, Steps
  <2> QED BY <1>1, <1>2, <1>7, <2>1 DEF BridgedFirst, Followed, Unbridged
<1>9. FlagsCover'
  <2>1. ReadyOutbox \subseteq Pending("outbox")
        /\ ReadyClaims \subseteq Pending("claimed_fast_withdrawals")
    BY DEF ReadyOutbox, ReadyClaims
  <2> QED BY <1>1, <1>2, <1>7, <2>1 DEF FlagsCover, Covered, Quiet, Unbridged
<1> QED BY <1>4, <1>5, <1>6, <1>8, <1>9

\* A step whose rows are all visited has nothing ready.
LEMMA EndStepInv == ASSUME WithdrawalInv, EndStep PROVE WithdrawalInv'
<1>1. /\ walking /\ walk = {} /\ pc' = After(pc) /\ walking' = FALSE /\ walk' = {}
      /\ UNCHANGED <<script, legs, keys, bridge, armed, synchronized, bounds>>
  BY DEF EndStep
<1>2. Quiet /\ Followed
  BY <1>1 DEF WithdrawalInv, FlagsCover, Covered, Quiet, BridgedFirst, Followed, Unbridged
<1>3. pc' \in Steps \cup {"idle"}
  BY <1>1 DEF After, Steps
<1>4. pc \in Steps /\ pc \notin armed
  BY <1>1 DEF WithdrawalInv, WalkPending, TypeOK
<1>5. "etherlink_withdrawals" \notin armed
  BY <1>4 DEF WithdrawalInv, BridgedFirst
<1> QED BY <1>1, <1>2, <1>3, <1>5, MoveInv

-----------------------------------------------------------------------------
(* The visits.                                                             *)

\* What every visit does, and what of the invariant it leaves to its own rows.
LEMMA VisitKeeps ==
  ASSUME WithdrawalInv, NEW s \in Steps, NEW r \in Ids, Visit(s, r)
  PROVE  /\ pc = s /\ walking /\ r \in walk /\ r \in Pending(s) /\ walk' = walk \ {r}
         /\ UNCHANGED <<script, legs, armed, pc, walking, synchronized, bounds>>
         /\ walk' \subseteq Ids
         /\ (walk \ {r}) \subseteq Pending(s)' => WalkPending'
         /\ Unbridged' = {} \/ (Unbridged' \subseteq Unbridged) => BridgedFirst'
<1>1. /\ pc = s /\ r \in walk /\ walk' = walk \ {r}
      /\ UNCHANGED <<script, legs, armed, pc, walking, synchronized, bounds>>
  BY DEF Visit
<1>2. walking /\ pc \notin armed /\ walk \subseteq Pending(s)
  BY <1>1 DEF WithdrawalInv, WalkPending
<1>3. walk' \subseteq Ids
  BY <1>1 DEF WithdrawalInv, TypeOK
<1>4. (walk \ {r}) \subseteq Pending(s)' => WalkPending'
  BY <1>1, <1>2 DEF WalkPending, Steps
<1>5. Unbridged' = {} \/ (Unbridged' \subseteq Unbridged) => BridgedFirst'
  BY <1>1 DEF WithdrawalInv, BridgedFirst, Unbridged
<1> QED BY <1>1, <1>2, <1>3, <1>4, <1>5

\* A row visited without a partner leaves the walk, and nothing else changes.
LEMMA VisitInVain ==
  ASSUME WithdrawalInv, NEW s \in Steps, NEW r \in Ids, Visit(s, r),
         UNCHANGED <<keys, bridge>>,
         s = "outbox" => r \notin ReadyOutbox,
         s = "claimed_fast_withdrawals" => r \notin ReadyClaims,
         s # "etherlink_withdrawals"
  PROVE  WithdrawalInv'
<1>1. /\ pc = s /\ walking /\ r \in walk /\ r \in Pending(s) /\ walk' = walk \ {r}
      /\ UNCHANGED <<script, legs, armed, pc, walking, synchronized, bounds>>
      /\ walk' \subseteq Ids
  BY VisitKeeps
<1>2. TypeOK' /\ Unbridged' = Unbridged /\ ReadyOutbox' = ReadyOutbox
      /\ ReadyClaims' = ReadyClaims
  BY <1>1, SameReady DEF WithdrawalInv, TypeOK, legs, keys, bridge, bounds
<1>3. KeysCleared' /\ OwnLegs' /\ Providers'
  BY <1>1, SameBridge DEF WithdrawalInv, keys, bridge
<1>4. Pending(s)' = Pending(s)
  BY <1>1, SameReady DEF Pending, Paid, legs, keys, bridge
<1>5. WalkPending' /\ BridgedFirst'
  <2>1. walk \subseteq Pending(s)
    BY <1>1 DEF WithdrawalInv, WalkPending
  <2> QED BY <1>2, <1>4, <2>1, VisitKeeps
<1>6. FlagsCover'
  BY <1>1, <1>2 DEF WithdrawalInv, FlagsCover, Covered, Unbridged
<1> QED BY <1>2, <1>3, <1>5, <1>6 DEF WithdrawalInv

\* A new bridge row is the only one of its L2 leg, and the outbox step still comes.
LEMMA CreateBridgeInv ==
  ASSUME WithdrawalInv, NEW w \in Ids, CreateBridge(w) PROVE WithdrawalInv'
<1> USE DEF WithdrawalInv
<1>1. /\ Visit("etherlink_withdrawals", w)
      /\ rows' = rows \cup {w} /\ status' = [status EXCEPT ![w] = "created"]
      /\ UNCHANGED <<keys, outboxOf, paidBy>>
  BY DEF CreateBridge
<1>2. /\ pc = "etherlink_withdrawals" /\ walking /\ w \in walk /\ walk' = walk \ {w}
      /\ UNCHANGED <<script, legs, armed, pc, walking, synchronized, bounds>>
      /\ walk' \subseteq Ids /\ w \in Unbridged
  BY <1>1, VisitKeeps DEF Steps, Unbridged
<1>3. w \in withdrawals /\ w \in Withdrawals /\ \A r \in rows : Leg(r) # w
  BY <1>2, ReadyRowsHold DEF ReadyRows, TypeOK
<1>4. w \notin rows /\ outboxOf[w] = None /\ paidBy[w] = None /\ w \notin Payouts
  BY <1>2, <1>3, Legs, Constants DEF TypeOK
<1>5. \A p \in Payouts : Of(p) = w => p \notin rows
  BY <1>3, Legs
<1>6. rows \subseteq Ids
  BY Constants DEF TypeOK
<1>7. TypeOK'
  <2>1. status' \in [Ids -> Statuses]
    BY <1>1 DEF TypeOK, Statuses, Open
  <2>2. \A r \in Ids \ rows' : status'[r] = "none"
    BY <1>1 DEF TypeOK
  <2> QED BY <1>1, <1>2, <1>3, <2>1, <2>2 DEF TypeOK, legs, keys, bounds
<1>8. KeysCleared'
  <2>1. None \notin unclaimed
    BY Constants DEF TypeOK
  <2> QED BY <1>1, <1>4, <2>1 DEF KeysCleared, keys
<1>9. OwnLegs'
  <2>1. status'[w] = "created" /\ \A r \in rows : status'[r] = status[r]
    BY <1>1, <1>4, <1>6 DEF TypeOK
  <2>2. None \notin Withdrawals /\ None \notin Payouts
    BY Constants
  <2> QED BY <1>1, <1>2, <1>4, <2>1, <2>2, SameReady DEF OwnLegs
<1>10. Providers'
  <2>1. w # None /\ \A p \in Payouts : p # None
    BY Constants
  <2> QED BY <1>1, <1>2, <1>4, <1>5, <2>1, SameReady DEF Providers
<1>11. Unbridged' \subseteq Unbridged \ {w}
  <2>1. Leg(w) = w
    BY <1>3, Legs
  <2> QED BY <1>1, <1>2, <2>1, SameReady, ReadyRowsHold DEF ReadyRows, legs
<1>12. ReadyClaims' = ReadyClaims
  <2>1. Paid' = Paid
    BY <1>1, <1>4 DEF Paid
  <2> QED BY <1>1, <1>2, <2>1, SameReady, ReadyRowsHold DEF ReadyRows, legs, keys
<1>13. "outbox" \in armed
  BY <1>2 DEF BridgedFirst, Unbridged
<1>14. WalkPending' /\ BridgedFirst'
  <2>1. walk \ {w} \subseteq Unbridged'
    <3>1. walk \subseteq Unbridged
      BY <1>2 DEF WalkPending, Unbridged
    <3>2. Unbridged \ {w} \subseteq Unbridged'
      <4>1. Leg(w) = w
        BY <1>3, Legs
      <4> QED BY <1>1, <1>2, <4>1, SameReady, ReadyRowsHold DEF ReadyRows, legs
    <3> QED BY <3>1, <3>2
  <2> QED BY <1>1, <1>11, <2>1, VisitKeeps DEF Unbridged, Steps
<1>15. FlagsCover'
  BY <1>2, <1>11, <1>12, <1>13 DEF FlagsCover, Covered, Unbridged
<1> QED BY <1>7, <1>8, <1>9, <1>10, <1>14, <1>15

\* A message attached was no row's, and is no candidate any more.
LEMMA AttachOutboxInv ==
  ASSUME WithdrawalInv, NEW r \in Ids, AttachOutbox(r) PROVE WithdrawalInv'
<1> USE DEF WithdrawalInv
<1>1. Visit("outbox", r) /\ UNCHANGED <<rows, paidBy, status>>
  BY DEF AttachOutbox
<1>2. /\ pc = "outbox" /\ walking /\ r \in walk /\ walk' = walk \ {r}
      /\ UNCHANGED <<script, legs, armed, pc, walking, synchronized, bounds>>
      /\ walk' \subseteq Ids /\ r \in Pending("outbox")
  BY <1>1, VisitKeeps DEF Steps
<1>3. CASE Answers(r) = {}
  <2>1. UNCHANGED <<keys, bridge>> /\ r \notin ReadyOutbox
    BY <1>1, <1>3 DEF AttachOutbox, ReadyOutbox, bridge
  <2> QED BY <1>1, <2>1, VisitInVain DEF Steps
<1>4. CASE Answers(r) # {}
  <2>1. PICK m \in Answers(r) : /\ outboxOf' = [outboxOf EXCEPT ![r] = m]
                                /\ hashed' = hashed \ {Leg(r)}
                                /\ unclaimed' = unclaimed \ {m}
    BY <1>4 DEF AttachOutbox
  <2>2. r \in rows /\ outboxOf[r] = None /\ paidBy[r] = None
    BY <1>2, PendingRows DEF OwnLegs
  <2>3. m \in messages /\ m \in unclaimed /\ m \in Withdrawals /\ Hash(m) = Hash(Leg(r))
    BY DEF Answers
  <2>4. m # None /\ m \notin Payouts /\ \A q \in rows : outboxOf[q] # m
    BY <2>3, Constants DEF KeysCleared
  <2>5. outboxOf'[r] = m /\ (\A q \in Ids : q # r => outboxOf'[q] = outboxOf[q])
        /\ rows \subseteq Ids
    BY <2>1, Constants DEF TypeOK
  <2>6. TypeOK'
    <3>1. outboxOf' \in [Ids -> messages \cup {None}]
      BY <2>1, <2>3 DEF TypeOK
    <3> QED BY <1>1, <1>2, <2>1, <2>2, <2>5, <3>1 DEF TypeOK, legs, bounds
  <2>7. KeysCleared'
    BY <1>1, <2>1, <2>5 DEF KeysCleared
  <2>8. OwnLegs'
    BY <1>1, <1>2, <2>2, <2>3, <2>4, <2>5, SameReady DEF OwnLegs
  <2>9. Providers'
    BY <1>1, <1>2, SameReady DEF Providers
  <2>10. Unbridged' = Unbridged
    BY <1>1, <1>2, SameReady DEF legs
  <2>11. ReadyOutbox' \subseteq ReadyOutbox \ {r}
    <3>1. \A q : Answers(q)' \subseteq Answers(q)
      BY <1>2, <2>1, SameReady DEF Answers, legs
    <3> QED BY <1>1, <2>4, <2>5, <3>1, ReadyRowsHold DEF ReadyRows
  <2>12. ReadyClaims' = ReadyClaims
    <3>1. unclaimed' \cap Payouts = unclaimed \cap Payouts /\ Paid' = Paid
      BY <1>1, <2>1, <2>4 DEF Paid
    <3> QED BY <1>2, <3>1, SameReady, ReadyRowsHold DEF ReadyRows, legs
  <2>13. WalkPending' /\ BridgedFirst'
    <3>1. walk \subseteq Pending("outbox")
      BY <1>2 DEF WalkPending
    <3>2. walk \ {r} \subseteq Pending("outbox")'
      BY <1>1, <2>5, <3>1 DEF Pending
    <3> QED BY <1>1, <2>10, <3>2, VisitKeeps DEF Steps
  <2>14. FlagsCover'
    BY <1>2, <2>10, <2>11, <2>12 DEF FlagsCover, Covered, Unbridged
  <2> QED BY <2>6, <2>7, <2>8, <2>9, <2>13, <2>14
<1> QED BY <1>3, <1>4

\* An execution pays an open row of the message it executed.
LEMMA LinkExecutionInv ==
  ASSUME WithdrawalInv, NEW m \in Ids, LinkExecution(m) PROVE WithdrawalInv'
<1> USE DEF WithdrawalInv
<1>1. Visit("tezos_withdrawals", m) /\ UNCHANGED <<keys, rows, outboxOf>>
  BY DEF LinkExecution
<1>2. /\ pc = "tezos_withdrawals" /\ walking /\ m \in walk /\ walk' = walk \ {m}
      /\ UNCHANGED <<script, legs, armed, pc, walking, synchronized, bounds>>
      /\ walk' \subseteq Ids /\ m \in Pending("tezos_withdrawals")
  BY <1>1, VisitKeeps DEF Steps
<1>3. CASE Holders(m) = {}
  <2>1. UNCHANGED bridge
    BY <1>1, <1>3 DEF LinkExecution, bridge
  <2> QED BY <1>1, <2>1, VisitInVain DEF Steps
<1>4. CASE Holders(m) # {}
  <2>1. PICK r \in Holders(m) : /\ paidBy' = [paidBy EXCEPT ![r] = m]
                                /\ status' = [status EXCEPT ![r] = "finished"]
    BY <1>4 DEF LinkExecution
  <2>2. r \in rows /\ r \in Ids /\ outboxOf[r] = m /\ paidBy[r] = None
    BY Constants DEF Holders, Unpaid, TypeOK
  <2>3. m \in payments /\ m \in Withdrawals /\ m \notin Payouts /\ m # None
    BY <1>2, PendingRows, Constants
  <2>4. /\ paidBy'[r] = m /\ status'[r] = "finished" /\ rows \subseteq Ids
        /\ \A q \in Ids : q # r => paidBy'[q] = paidBy[q] /\ status'[q] = status[q]
    BY <2>1, <2>2, Constants DEF TypeOK
  <2>5. TypeOK'
    <3>1. paidBy' \in [Ids -> payments \cup {None}] /\ status' \in [Ids -> Statuses]
      BY <2>1, <2>3 DEF TypeOK, Statuses
    <3> QED BY <1>1, <1>2, <2>2, <2>4, <3>1 DEF TypeOK, legs, keys, bounds
  <2>6. KeysCleared'
    BY <1>1 DEF KeysCleared, keys
  <2>7. OwnLegs'
    BY <1>1, <1>2, <2>2, <2>3, <2>4, SameReady DEF OwnLegs
  <2>8. Providers'
    <3>1. \A p \in Payouts : p # None /\ p # m /\ Of(p) \in Ids
      BY <2>3, Constants, ScriptFacts
    <3> QED BY <1>1, <1>2, <2>2, <2>4, <3>1, SameReady DEF Providers
  <2>9. Unbridged' = Unbridged /\ ReadyOutbox' = ReadyOutbox
    BY <1>1, <1>2, SameReady DEF legs, keys
  <2>10. Paid' = Paid \cup {m}
    BY <1>1, <2>2, <2>3, <2>4 DEF Paid
  <2>11. ReadyClaims' = ReadyClaims
    BY <1>1, <1>2, <2>3, <2>10, SameReady, ReadyRowsHold DEF ReadyRows, legs, keys
  <2>12. WalkPending' /\ BridgedFirst'
    <3>1. walk \subseteq Pending("tezos_withdrawals")
      BY <1>2 DEF WalkPending
    <3>2. walk \ {m} \subseteq Pending("tezos_withdrawals")'
      BY <1>2, <2>10, <3>1 DEF Pending, legs
    <3> QED BY <1>1, <2>9, <3>2, VisitKeeps DEF Steps
  <2>13. FlagsCover'
    BY <1>2, <2>9, <2>11 DEF FlagsCover, Covered, Unbridged
  <2> QED BY <2>5, <2>6, <2>7, <2>8, <2>12, <2>13
<1> QED BY <1>3, <1>4

\* A payout is dropped for a leg that is settled: it is no candidate any more.
LEMMA DropPayoutInv ==
  ASSUME WithdrawalInv, NEW p \in Ids, Visit("claimed_fast_withdrawals", p),
         unclaimed' = unclaimed \ {p}, UNCHANGED <<hashed, bridge>>
  PROVE  WithdrawalInv'
<1> USE DEF WithdrawalInv
<1>1. /\ pc = "claimed_fast_withdrawals" /\ walking /\ p \in walk /\ walk' = walk \ {p}
      /\ UNCHANGED <<script, legs, armed, pc, walking, synchronized, bounds>>
      /\ walk' \subseteq Ids /\ p \in Pending("claimed_fast_withdrawals")
  BY VisitKeeps DEF Steps
<1>2. p \in Payouts /\ p \notin Withdrawals
  BY <1>1, PendingRows, Constants
<1>3. TypeOK'
  BY <1>1 DEF TypeOK, legs, bridge, bounds
<1>4. KeysCleared' /\ OwnLegs' /\ Providers'
  BY <1>1, SameBridge DEF bridge
<1>5. Unbridged' = Unbridged
  BY <1>1, SameReady DEF legs, bridge
<1>6. ReadyOutbox' = ReadyOutbox
  <2>1. \A r : Answers(r)' = Answers(r)
    BY <1>1, <1>2, SameReady DEF Answers, legs
  <2> QED BY <2>1, ReadyRowsHold DEF ReadyRows, bridge
<1>7. ReadyClaims' \subseteq ReadyClaims \ {p}
  BY <1>1, SameReady, ReadyRowsHold DEF ReadyRows, Paid, legs, bridge
<1>8. WalkPending' /\ BridgedFirst'
  <2>1. walk \subseteq Pending("claimed_fast_withdrawals")
    BY <1>1 DEF WalkPending
  <2>2. walk \ {p} \subseteq Pending("claimed_fast_withdrawals")'
    BY <1>1, <2>1 DEF Pending, Paid, legs, bridge
  <2> QED BY <1>5, <2>2, VisitKeeps DEF Steps
<1>9. FlagsCover'
  BY <1>1, <1>5, <1>6, <1>7 DEF FlagsCover, Covered, Unbridged
<1> QED BY <1>3, <1>4, <1>8, <1>9

\* The row a claim splits is the customer's, still unpaid, and the provider has none.
LEMMA SplitRows ==
  ASSUME WithdrawalInv, NEW p \in Payouts, p \in unclaimed, ~SettledLeg(Of(p)),
         NEW c \in Customers(Of(p))
  PROVE  /\ c = Of(p) /\ c \in Withdrawals /\ c \in rows /\ paidBy[c] = None
         /\ outboxOf[c] \notin Payouts /\ p \notin rows
<1> USE DEF WithdrawalInv
<1>1. c \in rows /\ paidBy[c] = None /\ Leg(c) = Of(p) /\ c \in Ids
  BY Constants DEF Customers, Unpaid, TypeOK
<1>2. p \notin rows /\ outboxOf[c] \notin Payouts
  BY <1>1, Constants DEF KeysCleared, OwnLegs
<1>3. c \notin Payouts
  <2> SUFFICES ASSUME c \in Payouts PROVE FALSE
    OBVIOUS
  <2>1. Of(c) = Of(p) /\ Of(c) \in rows /\ paidBy[Of(c)] = c
    BY <1>1, Legs DEF Providers
  <2>2. Leg(Of(c)) = Of(p) /\ c # None
    BY <2>1, Legs, ScriptFacts, Constants
  <2> QED BY <2>1, <2>2 DEF SettledLeg
<1> QED BY <1>1, <1>2, <1>3, Legs, Constants

\* The split hands the kernel message over: nothing is held twice, nothing is lost.
LEMMA SplitInv ==
  ASSUME WithdrawalInv, NEW p \in Ids, Visit("claimed_fast_withdrawals", p),
         ~SettledLeg(Of(p)), NEW c \in Customers(Of(p)), Split(c, p),
         unclaimed' = unclaimed \ {p}, UNCHANGED hashed
  PROVE  WithdrawalInv'
<1> USE DEF WithdrawalInv
<1>1. /\ pc = "claimed_fast_withdrawals" /\ walking /\ p \in walk /\ walk' = walk \ {p}
      /\ UNCHANGED <<script, legs, armed, pc, walking, synchronized, bounds>>
      /\ walk' \subseteq Ids /\ p \in Pending("claimed_fast_withdrawals")
  BY VisitKeeps DEF Steps
<1>2. p \in Payouts /\ p \notin Withdrawals /\ p # None /\ p \in payments /\ p \in unclaimed
      /\ p \in messages
  BY <1>1, PendingRows, Constants DEF TypeOK
<1>3. /\ c = Of(p) /\ c \in Withdrawals /\ c \in rows /\ paidBy[c] = None
      /\ outboxOf[c] \notin Payouts /\ p \notin rows /\ c # p
  BY <1>2, SplitRows
<1>4. /\ rows' = rows \cup {p}
      /\ outboxOf' = [outboxOf EXCEPT ![p] = outboxOf[c], ![c] = p]
      /\ paidBy' = [paidBy EXCEPT ![c] = p]
      /\ status' = [status EXCEPT ![c] = "finished", ![p] = "created"]
  BY DEF Split
<1>5. c \in Ids /\ rows \subseteq Ids
  BY <1>3, Constants DEF TypeOK
<1>6. /\ outboxOf'[p] = outboxOf[c] /\ outboxOf'[c] = p
      /\ paidBy'[c] = p /\ paidBy'[p] = None /\ status'[c] = "finished" /\ status'[p] = "created"
      /\ \A q \in Ids \ {c, p} : /\ outboxOf'[q] = outboxOf[q] /\ paidBy'[q] = paidBy[q]
                                 /\ status'[q] = status[q]
  BY <1>3, <1>4, <1>5 DEF TypeOK
<1> DEFINE Kept(r) == /\ outboxOf'[r] = outboxOf[r] /\ paidBy'[r] = paidBy[r]
                      /\ status'[r] = status[r]
<1>kept. \A r \in rows' : r = c \/ r = p \/ (r \in rows /\ r # c /\ r # p /\ Kept(r))
  BY <1>4, <1>5, <1>6
<1> HIDE DEF Kept
<1>7. Leg(p) = c /\ Leg(c) = c
  BY <1>2, <1>3, Legs
<1>8. TypeOK'
  <2>1. /\ outboxOf' \in [Ids -> messages \cup {None}]
        /\ paidBy' \in [Ids -> payments \cup {None}]
        /\ status' \in [Ids -> Statuses]
    BY <1>2, <1>4, <1>5 DEF TypeOK, Statuses, Open
  <2>2. \A r \in Ids \ rows' : outboxOf'[r] = None /\ paidBy'[r] = None /\ status'[r] = "none"
    BY <1>3, <1>4, <1>6 DEF TypeOK
  <2> QED BY <1>1, <1>2, <1>4, <2>1, <2>2 DEF TypeOK, legs, bounds
<1>9. \A q \in rows : outboxOf[q] # p
  BY <1>2 DEF KeysCleared
<1>10. KeysCleared'
  <2>1. outboxOf[c] \notin unclaimed /\ c \notin Payouts
    BY <1>3, Constants DEF KeysCleared
  <2>2. \A r \in rows' : outboxOf'[r] \notin unclaimed' /\ (r \in Payouts => r \notin unclaimed')
    BY <1>kept, <1>6, <2>1 DEF KeysCleared, Kept
  <2> QED BY <2>2 DEF KeysCleared
<1>11. OwnLegs'
  <2>1. \A r, q \in rows' : q # r /\ outboxOf'[r] # None => outboxOf'[r] # outboxOf'[q]
    BY <1>kept, <1>3, <1>6, <1>9 DEF OwnLegs, Kept
  <2>2. \A r \in rows' : paidBy'[r] \in {None, outboxOf'[r]}
                         /\ (status'[r] = "finished" <=> paidBy'[r] # None)
    BY <1>kept, <1>2, <1>6 DEF OwnLegs, Kept
  <2>3. \A r \in rows' : outboxOf'[r] \in Withdrawals => Hash(outboxOf'[r]) = Hash(Leg(r))
    BY <1>kept, <1>2, <1>3, <1>6, <1>7 DEF OwnLegs, Kept
  <2>4. \A r \in rows' : outboxOf'[r] \in Payouts =>
          r \in Withdrawals /\ paidBy'[r] = outboxOf'[r] /\ Of(outboxOf'[r]) = r
    BY <1>kept, <1>3, <1>6 DEF OwnLegs, Kept
  <2> QED BY <1>1, <2>1, <2>2, <2>3, <2>4, SameReady DEF OwnLegs
<1>12. Providers'
  <2>1. \A q \in Payouts : q # None /\ Of(q) \in Withdrawals /\ Of(q) \in Ids
    BY Constants, ScriptFacts
  <2>2. \A q \in Payouts : q \in rows' <=> Of(q) \in rows' /\ paidBy'[Of(q)] = q
    BY <1>2, <1>3, <1>4, <1>6, <2>1 DEF Providers
  <2> QED BY <1>1, <2>2, SameReady DEF Providers
<1>13. Unbridged' = Unbridged
  BY <1>1, <1>3, <1>4, <1>7, SameReady, ReadyRowsHold DEF ReadyRows, legs
<1>14. ReadyOutbox = {} => ReadyOutbox' = {}
  <2>1. \A r : Answers(r)' = Answers(r)
    BY <1>1, <1>2, SameReady DEF Answers, legs
  <2>2. Answers(p) = Answers(c)
    BY <1>7 DEF Answers
  <2>3. \A r \in rows' : outboxOf'[r] = None =>
          (r = p /\ outboxOf[c] = None) \/ (r \in rows /\ outboxOf[r] = None)
    BY <1>kept, <1>2, <1>6 DEF Kept
  <2> QED BY <1>3, <2>1, <2>2, <2>3, ReadyRowsHold DEF ReadyRows
<1>15. Paid' = Paid \cup {p}
  BY <1>2, <1>3, <1>4, <1>5, <1>6 DEF Paid
<1>16. ReadyClaims' \subseteq ReadyClaims \ {p}
  BY <1>1, <1>15, SameReady, ReadyRowsHold DEF ReadyRows, legs
<1>17. WalkPending' /\ BridgedFirst'
  <2>1. walk \subseteq Pending("claimed_fast_withdrawals")
    BY <1>1 DEF WalkPending
  <2>2. walk \ {p} \subseteq Pending("claimed_fast_withdrawals")'
    BY <1>1, <1>15, <2>1 DEF Pending, legs
  <2> QED BY <1>13, <2>2, VisitKeeps DEF Steps
<1>18. FlagsCover'
  BY <1>1, <1>13, <1>14, <1>16 DEF FlagsCover, Covered, Unbridged
<1> QED BY <1>8, <1>10, <1>11, <1>12, <1>17, <1>18

LEMMA ClaimPayoutInv ==
  ASSUME WithdrawalInv, NEW p \in Ids, ClaimPayout(p) PROVE WithdrawalInv'
<1>1. Visit("claimed_fast_withdrawals", p) /\ UNCHANGED hashed
  BY DEF ClaimPayout
<1>2. CASE unclaimed' = unclaimed \ {p} /\ UNCHANGED bridge
  BY <1>1, <1>2, DropPayoutInv
<1>3. CASE /\ ~SettledLeg(Of(p)) /\ unclaimed' = unclaimed \ {p}
           /\ \E c \in Customers(Of(p)) : Split(c, p)
  BY <1>1, <1>3, SplitInv
<1>4. CASE /\ Of(p) \in withdrawals => ~SettledLeg(Of(p)) /\ ~Exact(p)
           /\ UNCHANGED <<unclaimed, bridge>>
  <2>1. p \notin ReadyClaims /\ UNCHANGED <<keys, bridge>>
    BY <1>1, <1>4 DEF ReadyClaims, keys
  <2> QED BY <1>1, <2>1, VisitInVain DEF Steps
<1> QED BY <1>2, <1>3, <1>4 DEF ClaimPayout

-----------------------------------------------------------------------------
(* The theorems.                                                           *)

LEMMA RestartInv == ASSUME WithdrawalInv, Crash \/ DieOnExecution PROVE WithdrawalInv'
<1>1. /\ pc = "idle" /\ armed' = Steps
      /\ UNCHANGED <<script, legs, keys, bridge, pass, synchronized, horizon, cements>>
  BY DEF Crash, DieOnExecution, Restart
<1>2. crashes' \in 0 .. MaxCrashes /\ synchronized' \in BOOLEAN
  BY Constants DEF Crash, DieOnExecution, Restart, WithdrawalInv, TypeOK
<1> QED BY <1>1, <1>2, ArmAllInv

LEMMA SynchronizedInv == ASSUME WithdrawalInv, Synchronized PROVE WithdrawalInv'
<1>1. /\ pc = "idle" /\ armed' = Steps /\ synchronized' = TRUE
      /\ UNCHANGED <<script, legs, keys, bridge, pass, bounds>>
  BY DEF Synchronized
<1>2. crashes' \in 0 .. MaxCrashes
  BY <1>1 DEF WithdrawalInv, TypeOK, bounds
<1> QED BY <1>1, <1>2, ArmAllInv DEF bounds

LEMMA StutterInv == ASSUME WithdrawalInv, UNCHANGED vars PROVE WithdrawalInv'
<1>1. TypeOK' /\ Unbridged' = Unbridged /\ ReadyOutbox' = ReadyOutbox
      /\ ReadyClaims' = ReadyClaims
  BY SameReady DEF WithdrawalInv, TypeOK, vars, legs, keys, bridge, pass, bounds
<1>2. KeysCleared' /\ OwnLegs' /\ Providers'
  BY SameBridge DEF WithdrawalInv, vars, keys, bridge
<1>3. Pending(pc)' = Pending(pc)
  BY SameReady DEF Pending, Paid, vars, legs, keys, bridge, pass
<1>4. WalkPending'
  BY <1>3 DEF WithdrawalInv, WalkPending, vars, pass
<1>5. BridgedFirst' /\ FlagsCover'
  BY <1>1 DEF WithdrawalInv, BridgedFirst, FlagsCover, Covered, Unbridged, vars, pass
<1> QED BY <1>1, <1>2, <1>4, <1>5 DEF WithdrawalInv

LEMMA StepInv == ASSUME WithdrawalInv, [Next]_vars PROVE WithdrawalInv'
<1>1. CASE Index
  BY <1>1, WithdrawInv, OutboxLevelInv, ClaimXtzFastWithdrawalInv, ExecuteInv DEF Index
<1>2. CASE PassStep
  BY <1>2, StartPassInv, SkipStepInv, StartStepInv, EndStepInv, CreateBridgeInv,
     AttachOutboxInv, LinkExecutionInv, ClaimPayoutInv DEF PassStep, VisitRow
<1>3. CASE CementCommitment
  BY <1>3, CementCommitmentInv
<1>4. CASE Synchronized
  BY <1>4, SynchronizedInv
<1>5. CASE Crash \/ DieOnExecution
  BY <1>5, RestartInv
<1>6. CASE UNCHANGED vars
  BY <1>6, StutterInv
<1> QED BY <1>1, <1>2, <1>3, <1>4, <1>5, <1>6 DEF Next

\* At every row of every pass each leg serves one operation, each withdrawal has one
\* claimant, and the flags and the rows still to be visited cover the joins the tables
\* allow.
THEOREM WithdrawalInvariant == Spec => []WithdrawalInv
<1>1. Init => WithdrawalInv
  BY InitInv
<1>2. WithdrawalInv /\ [Next]_vars => WithdrawalInv'
  BY StepInv
<1> QED BY <1>1, <1>2, PTL DEF Spec

\* Every variable keeps its type.
THEOREM TypeCorrect == Spec => []TypeOK
<1>1. WithdrawalInv => TypeOK
  BY DEF WithdrawalInv
<1> QED BY <1>1, WithdrawalInvariant, PTL

\* Whatever the order of the legs, of the splits and of the executions, each bridge
\* operation has legs of its own.
THEOREM LegsOwned == Spec => []OwnLegs
<1>1. WithdrawalInv => OwnLegs
  BY DEF WithdrawalInv
<1> QED BY <1>1, WithdrawalInvariant, PTL

\* Two open rows of one L2 leg are one row: the customer's goes when a provider's comes.
LEMMA CustomerAlone ==
  ASSUME WithdrawalInv, NEW w \in Withdrawals, NEW r \in Customers(w), NEW q \in Customers(w)
  PROVE  r = q
<1>1. \A s \in Customers(w) : s \in rows /\ s \in Ids /\ paidBy[s] = None /\ Leg(s) = w
  BY Constants DEF Customers, Unpaid, WithdrawalInv, TypeOK
<1>2. \A s \in Customers(w) : s \in Payouts => w \in rows /\ paidBy[w] = s
  BY <1>1, Legs DEF WithdrawalInv, Providers
<1>3. \A s \in Customers(w) : s \notin Payouts => s = w
  BY <1>1, Legs, Constants DEF WithdrawalInv
<1>4. \A s \in Payouts : s # None
  BY Constants
<1> QED BY <1>1, <1>2, <1>3, <1>4

\* However many payouts name a withdrawal, the claim finds one row to split, and each
\* split leaves one row to its provider.
THEOREM ClaimantUnique == Spec => []OneClaimant
<1>1. WithdrawalInv => OneClaimant
  <2> SUFFICES ASSUME WithdrawalInv PROVE OneClaimant
    OBVIOUS
  <2>1. \A w \in withdrawals : \A r, q \in Customers(w) : r = q
    BY CustomerAlone DEF WithdrawalInv, TypeOK
  <2>2. {p \in Payouts : p \in rows} = {paidBy[w] : w \in rows \cap Withdrawals} \cap Payouts
    <3>1. \A p \in Payouts : p \in rows =>
            Of(p) \in rows \cap Withdrawals /\ paidBy[Of(p)] = p
      BY ScriptFacts DEF WithdrawalInv, Providers
    <3>2. \A w \in rows \cap Withdrawals : paidBy[w] \in Payouts => paidBy[w] \in rows
      <4> SUFFICES ASSUME NEW w \in rows \cap Withdrawals, paidBy[w] \in Payouts
                   PROVE  paidBy[w] \in rows
        OBVIOUS
      <4>1. paidBy[w] # None
        BY Constants
      <4>2. Of(paidBy[w]) = w
        BY <4>1 DEF WithdrawalInv, OwnLegs
      <4> QED BY <4>2 DEF WithdrawalInv, Providers
    <3> QED BY <3>1, <3>2
  <2>3. ASSUME pc = "claimed_fast_withdrawals", NEW p \in walk,
               Of(p) \in withdrawals, ~SettledLeg(Of(p))
        PROVE  Customers(Of(p)) # {}
    <3>1. Unbridged = {}
      BY <2>3 DEF WithdrawalInv, BridgedFirst, FlagsCover, Covered, Unbridged, Steps
    <3>2. PICK r \in rows : Leg(r) = Of(p)
      BY <2>3, <3>1, ReadyRowsHold DEF ReadyRows
    <3> QED BY <2>3, <3>2 DEF SettledLeg, Customers, Unpaid
  <2> QED BY <2>1, <2>2, <2>3 DEF OneClaimant
<1> QED BY <1>1, WithdrawalInvariant, PTL

\* Between passes a join of an L2 leg, a message or a payout has its flag set, so a
\* matcher that looks at the flags alone forgets none.
THEOREM FlagsSuffice == Spec => []Settled
<1>1. WithdrawalInv => Settled
  <2> SUFFICES ASSUME WithdrawalInv, pc = "idle" PROVE Settled
    BY DEF Settled
  <2>1. Quiet
    BY QuietCover DEF WithdrawalInv, WalkPending
  <2> QED BY <2>1 DEF Quiet, Settled, Unbridged, ReadyOutbox, ReadyClaims
<1> QED BY <1>1, WithdrawalInvariant, PTL

-----------------------------------------------------------------------------
(* Paid operations.                                                        *)

\* What a step may not do to a paid operation.
KeepsPaid ==
  \A r \in Ids : paidBy[r] # None =>
    outboxOf'[r] = outboxOf[r] /\ paidBy'[r] = paidBy[r] /\ status'[r] = status[r]

\* A visit changes rows that are not paid.
LEMMA VisitKeepsPaid ==
  ASSUME WithdrawalInv, NEW r \in Ids,
         CreateBridge(r) \/ AttachOutbox(r) \/ LinkExecution(r) \/ ClaimPayout(r)
  PROVE  KeepsPaid
<1> USE DEF WithdrawalInv
<1>1. CASE UNCHANGED bridge
  BY <1>1 DEF KeepsPaid, bridge
<1>2. CASE CreateBridge(r)
  <2>1. r \in Unbridged /\ status' = [status EXCEPT ![r] = "created"]
        /\ UNCHANGED <<outboxOf, paidBy>>
    BY <1>2, VisitKeeps DEF CreateBridge, Steps, Unbridged
  <2>2. r \in Withdrawals /\ r \notin rows
    BY <2>1, Legs, ReadyRowsHold DEF ReadyRows, TypeOK
  <2>3. paidBy[r] = None /\ \A q \in Ids : q # r => status'[q] = status[q]
    BY <2>1, <2>2 DEF TypeOK
  <2> QED BY <2>1, <2>3 DEF KeepsPaid
<1>3. CASE AttachOutbox(r)
  <2>1. r \in rows /\ outboxOf[r] = None
    BY <1>3, VisitKeeps, PendingRows DEF AttachOutbox, Steps
  <2>2. paidBy[r] = None
    BY <2>1 DEF OwnLegs
  <2>3. \A q \in Ids : q # r => outboxOf'[q] = outboxOf[q]
    BY <1>3 DEF AttachOutbox, TypeOK
  <2> QED BY <1>3, <2>2, <2>3 DEF AttachOutbox, KeepsPaid
<1>4. CASE LinkExecution(r)
  <2>1. CASE Holders(r) = {}
    BY <1>1, <1>4, <2>1 DEF LinkExecution, bridge
  <2>2. CASE Holders(r) # {}
    <3>1. PICK q \in Holders(r) : /\ paidBy' = [paidBy EXCEPT ![q] = r]
                                  /\ status' = [status EXCEPT ![q] = "finished"]
      BY <1>4, <2>2 DEF LinkExecution
    <3>2. paidBy[q] = None /\ outboxOf' = outboxOf
      BY <1>4 DEF LinkExecution, Holders, Unpaid
    <3> QED BY <3>1, <3>2 DEF KeepsPaid, TypeOK
  <2> QED BY <2>1, <2>2
<1>5. CASE ClaimPayout(r)
  <2>1. Visit("claimed_fast_withdrawals", r)
        /\ (UNCHANGED bridge
            \/ (~SettledLeg(Of(r)) /\ \E c \in Customers(Of(r)) : Split(c, r)))
    BY <1>5 DEF ClaimPayout
  <2>2. ASSUME ~SettledLeg(Of(r)), NEW c \in Customers(Of(r)), Split(c, r)
        PROVE  KeepsPaid
    <3>1. r \in Payouts /\ r \in unclaimed
      BY <2>1, VisitKeeps, PendingRows DEF Steps
    <3>2. paidBy[c] = None /\ r \notin rows
      BY <2>2, <3>1, SplitRows
    <3>3. paidBy[r] = None
      BY <3>2 DEF TypeOK
    <3> QED BY <2>2, <3>2, <3>3 DEF Split, KeepsPaid, TypeOK
  <2> QED BY <1>1, <2>1, <2>2
<1> QED BY <1>2, <1>3, <1>4, <1>5

LEMMA StepKeepsPaid == ASSUME WithdrawalInv, [Next]_vars PROVE KeepsPaid
<1>1. CASE UNCHANGED bridge
  BY <1>1 DEF KeepsPaid, bridge
<1>2. CASE Withdraw \/ XtzWithdraw \/ OutboxLevel \/ ClaimXtzFastWithdrawal \/ Synchronized
           \/ Crash \/ DieOnExecution \/ UNCHANGED vars
  BY <1>1, <1>2 DEF Withdraw, XtzWithdraw, StoreWithdrawal, OutboxLevel,
     ClaimXtzFastWithdrawal, Synchronized, Crash, DieOnExecution, Restart, vars
<1>3. CASE Execute
  BY <1>1, <1>3 DEF Execute, ExecuteByIndex, ExecuteUnknown, Register
<1>4. CASE StartPass \/ SkipStep \/ StartStep \/ EndStep
  BY <1>1, <1>4 DEF StartPass, SkipStep, StartStep, EndStep
<1>5. CASE CementCommitment
  BY <1>5, CementKeepsPaid DEF CementKeeps, KeepsPaid
<1>6. CASE VisitRow
  BY <1>6, VisitKeepsPaid DEF VisitRow
<1> QED BY <1>2, <1>3, <1>4, <1>5, <1>6 DEF Next, Index, PassStep

\* No later claim, execution or commitment touches an operation that an L1 leg has paid.
THEOREM PaidKept == Spec => PaidStaysPaid
<1>1. WithdrawalInv /\ [Next]_vars => [KeepsPaid]_vars
  BY StepKeepsPaid
<1>2. PaidStaysPaid <=> [][KeepsPaid]_vars
  BY DEF PaidStaysPaid, KeepsPaid
<1> QED BY <1>1, <1>2, WithdrawalInvariant, PTL DEF Spec

-----------------------------------------------------------------------------
(* The promise of BridgeOperations.                                        *)

\* The operations that have expired.
Expired == {r \in rows : status[r] = "outbox_expired"}

\* An expired operation has a message, which the horizon has passed: it cannot be sealed.
ExpiredBehind ==
  \A r \in Expired : outboxOf[r] \in Withdrawals /\ Level(outboxOf[r]) <= horizon

\* What follows for the expired operations from what a step does to the rows.
LEMMA SameExpired ==
  ASSUME ExpiredBehind, UNCHANGED <<script, horizon>>, Expired' \subseteq Expired,
         \A r \in Expired' : outboxOf'[r] = outboxOf[r]
  PROVE  ExpiredBehind'
BY DEF ExpiredBehind, Level

\* A commitment expires unpaid operations only, and none that had expired is open after it.
LEMMA CementOperations ==
  ASSUME WithdrawalInv, ExpiredBehind, CementCommitment
  PROVE  ExpiredBehind' /\ \E O \in SUBSET Ids : Operations!Expire(O)
<1> USE DEF WithdrawalInv
<1>1. PICK proven \in SUBSET {r \in Unpaid : /\ outboxOf[r] \in Withdrawals
                                             /\ Level(outboxOf[r]) > horizon'} :
        status' = [r \in Ids |-> CASE r \in proven           -> "sealed"
                                   [] r \in Expire(horizon') -> "outbox_expired"
                                   [] OTHER                  -> status[r]]
  BY DEF CementCommitment
<1>2. UNCHANGED <<script, messages, payments, rows, outboxOf, paidBy>>
  BY DEF CementCommitment, legs
<1>3. \A m \in Withdrawals : Level(m) \in Nat
  BY ScriptFacts, WithdrawalMatcherAssumption DEF Level, Facts, TypeOK
<1>4. horizon \in Nat /\ horizon' \in Nat /\ horizon <= horizon'
  BY <1>3 DEF CementCommitment, TypeOK
<1>5. rows \subseteq Ids
  BY Constants DEF TypeOK
<1>6. PICK late \in SUBSET Ids : late = Expire(horizon') \ proven
  BY <1>5 DEF Expire, Oldest
<1>7. \A r \in late : /\ r \in rows /\ paidBy[r] = None
                      /\ outboxOf[r] \in Withdrawals /\ Level(outboxOf[r]) <= horizon'
  BY <1>6 DEF Expire, Oldest, OwnLegs, Open
<1>8. \A r \in Expired : r \notin proven
  BY <1>1, <1>3, <1>4 DEF ExpiredBehind
<1>9. \A r \in rows : status'[r] = "outbox_expired" <=> r \in Expired \cup late
  <2>1. \A r \in Ids : \/ r \in proven /\ status'[r] = "sealed"
                       \/ r \in late /\ status'[r] = "outbox_expired"
                       \/ r \notin proven /\ r \notin late /\ status'[r] = status[r]
    <3>1. \A r \in Ids : \/ r \in proven /\ status'[r] = "sealed"
                         \/ /\ r \notin proven /\ r \in Expire(horizon')
                            /\ status'[r] = "outbox_expired"
                         \/ /\ r \notin proven /\ r \notin Expire(horizon')
                            /\ status'[r] = status[r]
      <4>1. \A r \in Ids : r \in Expire(horizon') => r \notin proven
        BY <1>3, <1>4 DEF Expire
      <4> QED BY <1>1, <4>1
    <3>2. \A r : r \in late <=> r \in Expire(horizon') /\ r \notin proven
      BY <1>6
    <3> QED BY <3>1, <3>2
  <2>2. \A r \in late : r \notin proven
    BY <1>6
  <2> QED BY <1>5, <1>8, <2>1, <2>2 DEF Expired
<1>10. Expired' = Expired \cup late
  BY <1>2, <1>7, <1>9 DEF Expired
<1>11. ExpiredBehind'
  <2>1. \A m : Level(m)' = Level(m)
    BY <1>2 DEF Level
  <2> QED BY <1>2, <1>3, <1>4, <1>7, <1>10, <2>1 DEF ExpiredBehind
<1>12. Operations!Expire(late)
  BY <1>2, <1>7, <1>10 DEF Operations!Expire, Operations!Closed, Expired
<1> QED BY <1>11, <1>12

\* A visit opens, attaches, closes, hands over or does nothing.
LEMMA VisitOperations ==
  ASSUME WithdrawalInv, ExpiredBehind, NEW r \in Ids,
         CreateBridge(r) \/ AttachOutbox(r) \/ LinkExecution(r) \/ ClaimPayout(r)
  PROVE  ExpiredBehind' /\ [Operations!Next]_(Operations!vars)
<1> USE DEF WithdrawalInv
<1>1. UNCHANGED <<script, messages, payments, horizon>>
  BY DEF CreateBridge, AttachOutbox, LinkExecution, ClaimPayout, Visit, legs, bounds
<1>2. CASE UNCHANGED bridge
  <2>1. Expired' = Expired
    BY <1>2 DEF Expired, bridge
  <2> QED BY <1>1, <1>2, <2>1, SameExpired DEF Operations!vars, bridge, Expired
<1>3. rows \subseteq Ids
  BY Constants DEF TypeOK
<1>4. CASE CreateBridge(r)
  <2>1. r \in Unbridged /\ rows' = rows \cup {r} /\ status' = [status EXCEPT ![r] = "created"]
        /\ UNCHANGED <<outboxOf, paidBy>>
    BY <1>4, VisitKeeps DEF CreateBridge, Steps, Unbridged
  <2>2. r \notin rows
    BY <2>1, Legs, ReadyRowsHold DEF ReadyRows, TypeOK
  <2>3. Expired' = Expired
    BY <1>3, <2>1, <2>2 DEF Expired, TypeOK
  <2>4. Operations!Open(r)
    BY <1>1, <2>1, <2>2, <2>3 DEF Operations!Open, Expired
  <2> QED BY <1>1, <2>1, <2>3, <2>4, SameExpired DEF Operations!Next
<1>5. CASE AttachOutbox(r) /\ Answers(r) # {}
  <2>1. r \in rows /\ outboxOf[r] = None
    BY <1>5, VisitKeeps, PendingRows DEF AttachOutbox, Steps
  <2>2. PICK m \in Answers(r) : outboxOf' = [outboxOf EXCEPT ![r] = m]
    BY <1>5 DEF AttachOutbox
  <2>3. m \in messages /\ m \in Ids /\ \A q \in rows : outboxOf[q] # m
    BY DEF Answers, KeysCleared, TypeOK
  <2>4. UNCHANGED <<rows, paidBy, status>>
    BY <1>5 DEF AttachOutbox
  <2>5. Expired' = Expired /\ r \notin Expired
    BY <2>1, <2>4, Constants DEF Expired, ExpiredBehind
  <2>6. \A q \in Expired : outboxOf'[q] = outboxOf[q]
    BY <1>3, <2>2, <2>5 DEF Expired, TypeOK
  <2>7. Operations!Attach(r, m)
    BY <1>1, <2>1, <2>2, <2>3, <2>4, <2>5 DEF Operations!Attach, Operations!Held, Expired
  <2> QED BY <1>1, <2>3, <2>5, <2>6, <2>7, SameExpired DEF Operations!Next
<1>6. CASE LinkExecution(r) /\ Holders(r) # {}
  <2>1. PICK q \in Holders(r) : /\ paidBy' = [paidBy EXCEPT ![q] = r]
                                /\ status' = [status EXCEPT ![q] = "finished"]
    BY <1>6 DEF LinkExecution
  <2>2. q \in rows /\ q \in Ids /\ outboxOf[q] = r /\ paidBy[q] = None
    BY <1>3, <2>1 DEF Holders, Unpaid
  <2>3. r \in payments /\ r \notin Paid /\ r # None
    <3>1. r \in Pending("tezos_withdrawals")
      BY <1>6, VisitKeeps DEF LinkExecution, Steps
    <3> QED BY <3>1, Constants DEF Pending
  <2>4. UNCHANGED <<rows, outboxOf>>
    BY <1>6 DEF LinkExecution
  <2>5. Expired' = Expired \ {q}
    BY <1>3, <2>1, <2>2, <2>4 DEF Expired, TypeOK
  <2>6. Operations!Close(q, r)
    BY <1>1, <2>1, <2>2, <2>3, <2>4, <2>5
    DEF Operations!Close, Operations!Closed, Operations!Spent, Paid, Expired
  <2> QED BY <1>1, <2>2, <2>4, <2>5, <2>6, SameExpired DEF Operations!Next
<1>7. CASE ClaimPayout(r) /\ ~UNCHANGED bridge
  <2>1. Visit("claimed_fast_withdrawals", r)
        /\ ~SettledLeg(Of(r)) /\ \E c \in Customers(Of(r)) : Split(c, r)
    BY <1>7 DEF ClaimPayout
  <2>2. r \in Payouts /\ r \in unclaimed /\ r \in payments /\ r \notin Paid /\ r # None
    <3>1. r \in Pending("claimed_fast_withdrawals")
      BY <2>1, VisitKeeps DEF Steps
    <3> QED BY <3>1, Constants DEF Pending
  <2>3. PICK c \in Customers(Of(r)) : Split(c, r)
    BY <2>1
  <2>4. c \in rows /\ paidBy[c] = None /\ r \notin rows /\ c # r
    BY <2>1, <2>2, <2>3, SplitRows DEF Customers, Unpaid
  <2>5. r \in messages /\ \A q \in rows : outboxOf[q] # r
    BY <2>2 DEF TypeOK, KeysCleared
  <2>6. Expired' = Expired \ {c}
    BY <1>3, <2>3, <2>4 DEF Expired, Split, TypeOK
  <2>7. \A q \in Expired' : outboxOf'[q] = outboxOf[q]
    BY <1>3, <2>3, <2>4, <2>6 DEF Expired, Split, TypeOK
  <2>8. Operations!HandOver(c, r)
    BY <1>1, <2>2, <2>3, <2>4, <2>5, <2>6
    DEF Operations!HandOver, Operations!Closed, Operations!Held, Operations!Spent, Paid,
        Split, Expired
  <2>9. c \in Ids
    BY <1>3, <2>4
  <2> QED BY <1>1, <2>6, <2>7, <2>8, <2>9, SameExpired DEF Operations!Next
<1>8. CASE ~UNCHANGED bridge
  <2>1. \/ CreateBridge(r)
        \/ AttachOutbox(r) /\ Answers(r) # {}
        \/ LinkExecution(r) /\ Holders(r) # {}
        \/ ClaimPayout(r) /\ ~UNCHANGED bridge
    BY <1>8 DEF AttachOutbox, LinkExecution, bridge
  <2> QED BY <1>4, <1>5, <1>6, <1>7, <2>1
<1> QED BY <1>2, <1>8

LEMMA OperationsStep ==
  ASSUME WithdrawalInv, ExpiredBehind, [Next]_vars
  PROVE  ExpiredBehind' /\ [Operations!Next]_(Operations!vars)
<1> USE DEF WithdrawalInv
<1>1. CASE /\ messages \subseteq messages' /\ messages' \subseteq Ids
           /\ payments \subseteq payments' /\ payments' \subseteq Ids
           /\ UNCHANGED <<script, bridge, horizon>>
  <2>1. Expired' = Expired /\ \A r \in Expired : outboxOf'[r] = outboxOf[r]
    BY <1>1 DEF Expired, bridge
  <2>2. Operations!Store
    BY <1>1, <2>1 DEF Operations!Store, bridge, Expired
  <2> QED BY <1>1, <2>1, <2>2, SameExpired DEF Operations!Next
<1>2. messages \subseteq Ids /\ payments \subseteq Ids
  BY DEF TypeOK
<1>3. CASE Withdraw \/ XtzWithdraw \/ Synchronized \/ Crash \/ DieOnExecution
           \/ StartPass \/ SkipStep \/ StartStep \/ EndStep \/ UNCHANGED vars
  BY <1>1, <1>2, <1>3 DEF Withdraw, XtzWithdraw, StoreWithdrawal, Synchronized, Crash,
     DieOnExecution, Restart, StartPass, SkipStep, StartStep, EndStep, vars, legs, bounds
<1>4. CASE OutboxLevel \/ ClaimXtzFastWithdrawal
  BY <1>1, <1>2, <1>4 DEF OutboxLevel, ClaimXtzFastWithdrawal, bounds, Ids
<1>5. CASE Execute
  <2>1. ASSUME NEW m \in messages, Register(m)
        PROVE  ExpiredBehind' /\ [Operations!Next]_(Operations!vars)
    BY <1>1, <1>2, <2>1 DEF Register, bounds
  <2> QED BY <1>1, <1>2, <1>5, <2>1 DEF Execute, ExecuteByIndex, ExecuteUnknown, bounds
<1>6. CASE CementCommitment
  BY <1>6, CementOperations DEF Operations!Next
<1>7. CASE VisitRow
  BY <1>7, VisitOperations DEF VisitRow
<1> QED BY <1>3, <1>4, <1>5, <1>6, <1>7 DEF Next, Index, PassStep

\* The withdrawal steps implement the abstract operations: through every order of legs,
\* passes, restarts, commitments and proofs a leg serves one withdrawal, a payout hands
\* the kernel message over and loses none, and an expired withdrawal is paid or stays so.
THEOREM ImplementsOperations == Spec => KeepsPromise
<1>1. Init => Operations!Init /\ ExpiredBehind
  <2> SUFFICES ASSUME Init PROVE Operations!Init /\ ExpiredBehind
    OBVIOUS
  <2>1. rows = {} /\ Expired = {}
    BY DEF Init, Expired
  <2> QED BY <2>1 DEF Init, Operations!Init, Expired, ExpiredBehind
<1>2. WithdrawalInv /\ ExpiredBehind /\ [Next]_vars
        => ExpiredBehind' /\ [Operations!Next]_(Operations!vars)
  BY OperationsStep
<1> QED BY <1>1, <1>2, WithdrawalInvariant, PTL DEF Spec, KeepsPromise, Operations!Spec

=============================================================================
