-------------------------- MODULE DepositMatcherProof --------------------------
(***************************************************************************)
(* Proofs that the deposit matcher never leaves a join undone with its flag  *)
(* clear and never gives one leg to two deposits, for any number of deposits *)
(* and whatever the chains did.                                            *)
(***************************************************************************)
EXTENDS DepositMatcherInv, WellFoundedInduction, TLAPS

-----------------------------------------------------------------------------
(* Sets of naturals have a least element.                                  *)

\* The least element of a non-empty set of naturals.
LEMMA LeastNat ==
  ASSUME NEW S \in SUBSET Nat, S # {}
  PROVE  \E n \in S : \A m \in S : n <= m
<1>1. PICK x \in S : \A y \in S : ~(<<y, x>> \in OpToRel(<, Nat))
  BY NatLessThanWellFounded, WFMin
<1>2. \A y \in S : ~(y < x)
  BY <1>1 DEF OpToRel
<1> QED BY <1>2

\* The least element of a non-empty set of naturals.
LEMMA MinOfNats ==
  ASSUME NEW S \in SUBSET Nat, S # {}
  PROVE  Min(S) \in S /\ \A x \in S : Min(S) <= x
BY LeastNat DEF Min

-----------------------------------------------------------------------------
(* Lemmas about the queries.                                               *)

\* The assumptions on the constants, in the parts the proofs use.
LEMMA Constants ==
  /\ Deposits \subseteq Nat /\ None \notin Deposits
  /\ MaxCrashes \in Nat /\ MaxTimeouts \in Nat
  /\ Scripts \subseteq [Deposits -> Facts]
BY DepositMatcherAssumption

\* A message the inbox step picks is a candidate.
LEMMA FirstMessage ==
  ASSUME TypeOK, NEW d, Messages(d) # {}
  PROVE  Min(Messages(d)) \in Messages(d)
<1>1. Messages(d) \in SUBSET Nat
  BY Constants DEF TypeOK, Messages
<1> QED BY <1>1, MinOfNats

\* The message a Michelson credit is located by is its own.
LEMMA LocatedIsOwn ==
  ASSUME TypeOK, NEW c, Located(c) # {}
  PROVE  Min(Located(c)) = c /\ c \in messages
<1>1. Located(c) \in SUBSET Nat
  BY Constants DEF TypeOK, Located
<1>2. Min(Located(c)) \in Located(c)
  BY <1>1, MinOfNats
<1> QED BY <1>2 DEF Located

\* The queries of the steps, one by one.
LEMMA PendingRows ==
  /\ Pending("tezos_deposits") = calls \ bridged
  /\ Pending("inbox") = {d \in bridged : inboxOf[d] = None}
  /\ Pending("michelson_deposits") =
       {c \in credits \ Linked : coords[c] = None /\ Route(c) = "michelson"}
  /\ Pending("etherlink_deposits") = {c \in credits \ Linked : coords[c] # None}
  /\ Pending("etherlink_xtz_deposits") = {c \in credits \ Linked : Route(c) = "xtz"}
  /\ Pending("by_value") = {c \in credits \ Linked : Route(c) = "xtz"}
BY DEF Pending

\* Where the pass goes next.
LEMMA AfterStep ==
  /\ After("tezos_deposits") = "inbox"
  /\ After("inbox") = "michelson_deposits"
  /\ After("michelson_deposits") = "etherlink_deposits"
  /\ After("etherlink_deposits") = "etherlink_xtz_deposits"
  /\ After("etherlink_xtz_deposits") = "idle"
  /\ After("by_value") = "idle"
BY DEF After

-----------------------------------------------------------------------------
(* The invariant holds at the start and is kept by every action.           *)

LEMMA InitInv == Init => DepositInv
<1> SUFFICES ASSUME Init PROVE DepositInv
  OBVIOUS
<1>1. TypeOK
  <2>1. /\ coords \in [Deposits -> Deposits \cup {None}]
        /\ inboxOf \in [Deposits -> messages \cup {None}]
        /\ creditOf \in [Deposits -> credits \cup {None}]
        /\ status \in [Deposits -> Statuses]
    BY DEF Init, Statuses
  <2>2. crashes \in 0 .. MaxCrashes /\ timeouts \in 0 .. MaxTimeouts
    BY Constants DEF Init
  <2>3. \A d \in Deposits \ bridged :
          inboxOf[d] = None /\ creditOf[d] = None /\ status[d] = "none"
    BY DEF Init
  <2> QED BY <2>1, <2>2, <2>3 DEF Init, TypeOK
<1>2. WalkPending /\ CoordsStored /\ NoSharedLegs
  BY DEF Init, WalkPending, CoordsStored, NoSharedLegs
<1>3. FlagsCover
  BY DEF Init, FlagsCover, Covered, CoveredXtz, Steps
<1> QED BY <1>1, <1>2, <1>3 DEF DepositInv

\* The ready rows, with the queries unfolded.
ReadyRows ==
  /\ ReadyInbox = {d \in bridged : inboxOf[d] = None /\ Messages(d) # {}}
  /\ ReadyMichelson = {c \in credits \ Linked :
       coords[c] = None /\ Route(c) = "michelson" /\ Located(c) # {}}
  /\ ReadyCoords = {c \in credits \ Linked : coords[c] # None /\ AtCoords(c) # {}}
  /\ ReadyHash = {c \in credits \ Linked : Route(c) = "xtz" /\ ByHash(c) # {}}
  /\ ReadyValue = {c \in credits \ Linked : Route(c) = "xtz" /\ ByValue(c) # {}}

LEMMA ReadyRowsHold == ReadyRows /\ ReadyRows'
BY DEF ReadyRows, Pending, ReadyInbox, ReadyMichelson, ReadyCoords, ReadyHash, ReadyValue

\* Between passes nothing is walked, and a step whose flag is clear has no ready row.
Quiet ==
  /\ "tezos_deposits" \notin armed => calls \ bridged = {}
  /\ "inbox" \notin armed => ReadyInbox = {}
  /\ "michelson_deposits" \notin armed => ReadyMichelson = {}
  /\ "etherlink_deposits" \notin armed => ReadyCoords = {}
  /\ "etherlink_xtz_deposits" \notin armed => ReadyHash = {} /\ ReadyValue = {}

LEMMA IdleCover ==
  /\ WalkPending /\ FlagsCover /\ pc = "idle" => Quiet
  /\ Quiet' => FlagsCover'
BY DEF WalkPending, FlagsCover, Covered, CoveredXtz, Quiet

\* What the candidates of a row depend on.
LEMMA SameCandidates ==
  /\ UNCHANGED <<script, unclaimed>> => \A d : Messages(d)' = Messages(d)
  /\ UNCHANGED <<script, messages>> => \A c : Located(c)' = Located(c)
  /\ UNCHANGED <<bridged, inboxOf, creditOf>> => Open' = Open /\ Linked' = Linked
  /\ UNCHANGED <<coords, bridged, inboxOf, creditOf>> => \A c : AtCoords(c)' = AtCoords(c)
  /\ UNCHANGED <<script, bridged, inboxOf, creditOf>> =>
       \A c : ByHash(c)' = ByHash(c) /\ ByValue(c)' = ByValue(c)
<1>1. UNCHANGED <<script, unclaimed>> => \A d : Messages(d)' = Messages(d)
  BY DEF Messages, Key
<1>2. UNCHANGED <<script, messages>> => \A c : Located(c)' = Located(c)
  BY DEF Located, Route
<1>3. UNCHANGED <<bridged, inboxOf, creditOf>> => Open' = Open /\ Linked' = Linked
  BY DEF Open, Linked
<1>4. UNCHANGED <<coords, bridged, inboxOf, creditOf>> => \A c : AtCoords(c)' = AtCoords(c)
  BY <1>3 DEF AtCoords
<1>5. UNCHANGED <<script, bridged, inboxOf, creditOf>> => \A c : ByHash(c)' = ByHash(c)
  BY <1>3 DEF ByHash, ExpectedHash, CreditHash, Value, Route
<1>6. UNCHANGED <<script, bridged, inboxOf, creditOf>> => \A c : ByValue(c)' = ByValue(c)
  BY <1>3 DEF ByValue, InWindow, Value
<1> QED BY <1>1, <1>2, <1>3, <1>4, <1>5, <1>6

\* ... so that what changes neither leaves the ready rows alone.
LEMMA SameReady ==
  /\ UNCHANGED <<script, unclaimed, bridged, inboxOf>> => ReadyInbox' = ReadyInbox
  /\ UNCHANGED <<script, messages, credits, coords, bridged, inboxOf, creditOf>> =>
       ReadyMichelson' = ReadyMichelson
  /\ UNCHANGED <<credits, coords, bridged, inboxOf, creditOf>> => ReadyCoords' = ReadyCoords
  /\ UNCHANGED <<script, credits, bridged, inboxOf, creditOf>> =>
       ReadyHash' = ReadyHash /\ ReadyValue' = ReadyValue
<1>1. UNCHANGED <<script, unclaimed, bridged, inboxOf>> => ReadyInbox' = ReadyInbox
  BY SameCandidates, ReadyRowsHold DEF ReadyRows
<1>2. UNCHANGED <<script, messages, credits, coords, bridged, inboxOf, creditOf>> =>
        ReadyMichelson' = ReadyMichelson
  BY SameCandidates, ReadyRowsHold DEF ReadyRows, Route
<1>3. UNCHANGED <<credits, coords, bridged, inboxOf, creditOf>> => ReadyCoords' = ReadyCoords
  BY SameCandidates, ReadyRowsHold DEF ReadyRows
<1>4. UNCHANGED <<script, credits, bridged, inboxOf, creditOf>> =>
        ReadyHash' = ReadyHash /\ ReadyValue' = ReadyValue
  BY SameCandidates, ReadyRowsHold DEF ReadyRows, Route
<1> QED BY <1>1, <1>2, <1>3, <1>4

LEMMA RollupCallInv == ASSUME DepositInv, RollupCall PROVE DepositInv'
<1> USE DEF DepositInv
<1>1. TypeOK'
  BY DEF RollupCall, NextOf, TypeOK, Steps, keys, bridge, pass, bounds
<1>2. WalkPending' /\ CoordsStored' /\ NoSharedLegs'
  BY DEF RollupCall, WalkPending, CoordsStored, NoSharedLegs, keys, bridge, pass, bounds
<1>3. ReadyInbox' = ReadyInbox /\ ReadyMichelson' = ReadyMichelson
      /\ ReadyCoords' = ReadyCoords /\ ReadyHash' = ReadyHash /\ ReadyValue' = ReadyValue
  BY SameReady DEF RollupCall, keys, bridge
<1>4. Quiet'
  BY IdleCover, <1>3 DEF RollupCall, Quiet, bridge
<1> QED BY <1>1, <1>2, <1>4, IdleCover

\* A new message may complete an attachment or an operation hash, and arms both.
LEMMA InboxMessageInv == ASSUME DepositInv, InboxMessage PROVE DepositInv'
<1> USE DEF DepositInv
<1> PICK m \in Deposits : /\ NextOf(Deposits, messages, m)
                          /\ messages' = messages \cup {m}
                          /\ unclaimed' = unclaimed \cup {m}
  BY DEF InboxMessage
<1>1. TypeOK'
  BY DEF InboxMessage, TypeOK, Steps, bridge, pass, bounds
<1>2. WalkPending' /\ CoordsStored'
  BY DEF InboxMessage, WalkPending, CoordsStored, bridge, pass, bounds
<1>3. NoSharedLegs'
  <2>1. \A d \in bridged : inboxOf[d] # m
    BY Constants DEF NextOf, TypeOK
  <2> QED BY <2>1 DEF InboxMessage, NoSharedLegs, bridge
<1>4. ReadyCoords' = ReadyCoords /\ ReadyHash' = ReadyHash /\ ReadyValue' = ReadyValue
  BY SameReady DEF InboxMessage, bridge
<1>5. Quiet'
  BY IdleCover, <1>4 DEF InboxMessage, Quiet, bridge
<1> QED BY <1>1, <1>2, <1>3, <1>5, IdleCover

\* A new credit may complete the joins of its own route, and arms its step.
LEMMA DepositInvStep == ASSUME DepositInv, Deposit PROVE DepositInv'
<1> USE DEF DepositInv
<1> PICK c \in Deposits : /\ NextOf(Credited("coords"), credits, c)
                          /\ credits' = credits \cup {c}
                          /\ coords' = [coords EXCEPT ![c] = c]
  BY DEF Deposit
<1>1. TypeOK'
  <2>1. coords' \in [Deposits -> Deposits \cup {None}]
    BY DEF TypeOK
  <2> QED BY <2>1 DEF Deposit, TypeOK, Steps, bridge, pass, bounds
<1>2. WalkPending' /\ NoSharedLegs'
  BY DEF Deposit, WalkPending, NoSharedLegs, bridge, pass, bounds
<1>3. CoordsStored'
  BY DEF CoordsStored, TypeOK
<1>4. ReadyInbox' = ReadyInbox
  BY SameReady DEF Deposit, bridge
<1>5. ReadyMichelson' \subseteq ReadyMichelson
      /\ ReadyHash' \subseteq ReadyHash /\ ReadyValue' \subseteq ReadyValue
  <2>1. Route(c) = "coords" /\ \A d : Route(d)' = Route(d)
    BY DEF NextOf, Credited, Route, Deposit
  <2>2. c \in Deposits /\ \A d \in Deposits : d # c => coords'[d] = coords[d]
    BY DEF TypeOK
  <2> QED BY <2>1, <2>2, SameCandidates, ReadyRowsHold DEF ReadyRows, Deposit, TypeOK, bridge
<1>6. Quiet'
  BY IdleCover, <1>4, <1>5 DEF Deposit, Quiet, bridge
<1> QED BY <1>1, <1>2, <1>3, <1>6, IdleCover

LEMMA XtzDepositInv == ASSUME DepositInv, XtzDeposit PROVE DepositInv'
<1> USE DEF DepositInv
<1> PICK c \in Deposits : NextOf(Credited("xtz"), credits, c) /\ credits' = credits \cup {c}
  BY DEF XtzDeposit
<1>1. TypeOK'
  BY DEF XtzDeposit, TypeOK, Steps, keys, bridge, pass, bounds
<1>2. WalkPending' /\ NoSharedLegs' /\ CoordsStored'
  BY DEF XtzDeposit, WalkPending, NoSharedLegs, CoordsStored, keys, bridge, pass, bounds
<1>3. ReadyInbox' = ReadyInbox
  BY SameReady DEF XtzDeposit, keys, bridge
<1>4. ReadyMichelson' \subseteq ReadyMichelson /\ ReadyCoords' \subseteq ReadyCoords
  <2>1. Route(c) = "xtz" /\ c \notin credits /\ coords[c] = None
        /\ \A d : Route(d)' = Route(d)
    BY DEF NextOf, Credited, Route, CoordsStored, XtzDeposit
  <2> QED BY <2>1, SameCandidates, ReadyRowsHold DEF ReadyRows, XtzDeposit, keys, bridge
<1>5. Quiet'
  BY IdleCover, <1>3, <1>4 DEF XtzDeposit, Quiet, bridge
<1> QED BY <1>1, <1>2, <1>5, IdleCover

LEMMA MichelsonDepositInv == ASSUME DepositInv, MichelsonDeposit PROVE DepositInv'
<1> USE DEF DepositInv
<1> PICK c \in Deposits :
      NextOf(Credited("michelson"), credits, c) /\ credits' = credits \cup {c}
  BY DEF MichelsonDeposit
<1>1. TypeOK'
  BY DEF MichelsonDeposit, TypeOK, Steps, keys, bridge, pass, bounds
<1>2. WalkPending' /\ NoSharedLegs' /\ CoordsStored'
  BY DEF MichelsonDeposit, WalkPending, NoSharedLegs, CoordsStored, keys, bridge, pass, bounds
<1>3. ReadyInbox' = ReadyInbox
  BY SameReady DEF MichelsonDeposit, keys, bridge
<1>4. ReadyCoords' \subseteq ReadyCoords
      /\ ReadyHash' \subseteq ReadyHash /\ ReadyValue' \subseteq ReadyValue
  <2>1. Route(c) = "michelson" /\ c \notin credits /\ coords[c] = None
        /\ \A d : Route(d)' = Route(d)
    BY DEF NextOf, Credited, Route, CoordsStored, MichelsonDeposit
  <2> QED BY <2>1, SameCandidates, ReadyRowsHold DEF ReadyRows, MichelsonDeposit, keys, bridge
<1>5. Quiet'
  BY IdleCover, <1>3, <1>4 DEF MichelsonDeposit, Quiet, bridge
<1> QED BY <1>1, <1>2, <1>5, IdleCover

\* A cemented commitment touches statuses only.
LEMMA CementCommitmentInv == ASSUME DepositInv, CementCommitment PROVE DepositInv'
<1> USE DEF DepositInv
<1>1. TypeOK'
  <2>1. status' \in [Deposits -> Statuses]
    BY DEF CementCommitment, TypeOK, Statuses
  <2>2. \A d \in Deposits \ bridged : status'[d] = "none"
    BY DEF CementCommitment, TypeOK
  <2>3. timeouts' \in 0 .. MaxTimeouts
    BY Constants DEF CementCommitment, TypeOK
  <2> QED BY <2>1, <2>2, <2>3 DEF CementCommitment, TypeOK, legs, keys, pass
<1>2. WalkPending' /\ NoSharedLegs' /\ CoordsStored'
  BY DEF CementCommitment, WalkPending, NoSharedLegs, CoordsStored, legs, keys, pass
<1>3. ReadyInbox' = ReadyInbox /\ ReadyMichelson' = ReadyMichelson
      /\ ReadyCoords' = ReadyCoords /\ ReadyHash' = ReadyHash /\ ReadyValue' = ReadyValue
  BY SameReady DEF CementCommitment, legs, keys
<1>4. Quiet'
  BY IdleCover, <1>3 DEF CementCommitment, Quiet, legs
<1> QED BY <1>1, <1>2, <1>4, IdleCover

\* A restart sets every flag.
LEMMA CrashInv == ASSUME DepositInv, Crash PROVE DepositInv'
<1> USE DEF DepositInv
<1>1. TypeOK'
  <2>1. crashes' \in 0 .. MaxCrashes
    BY Constants DEF Crash, TypeOK
  <2> QED BY <2>1 DEF Crash, TypeOK, legs, keys, bridge, pass
<1>2. WalkPending' /\ NoSharedLegs' /\ CoordsStored'
  BY DEF Crash, WalkPending, NoSharedLegs, CoordsStored, legs, keys, bridge, pass
<1>3. Quiet'
  BY DEF Crash, Quiet, Steps
<1> QED BY <1>1, <1>2, <1>3, IdleCover

-----------------------------------------------------------------------------
(* The steps of a pass, and the moves between them.                        *)

\* Outside a walk each step is armed or has nothing ready.
LEMMA BetweenCover ==
  /\ WalkPending /\ FlagsCover /\ ~walking => Quiet
  /\ Quiet' => FlagsCover'
BY DEF WalkPending, FlagsCover, Covered, CoveredXtz, Quiet

\* A move that changes no row and no flag.
LEMMA SkipInv ==
  ASSUME DepositInv, ~walking, pc' \in Steps \cup {"idle"},
         UNCHANGED <<script, legs, keys, bridge, armed, walking, walk, bounds>>
  PROVE  DepositInv'
<1> USE DEF DepositInv
<1>1. TypeOK'
  BY DEF TypeOK, legs, keys, bridge, bounds
<1>2. WalkPending' /\ NoSharedLegs' /\ CoordsStored'
  BY DEF WalkPending, NoSharedLegs, CoordsStored, legs, keys, bridge, Steps
<1>3. ReadyInbox' = ReadyInbox /\ ReadyMichelson' = ReadyMichelson
      /\ ReadyCoords' = ReadyCoords /\ ReadyHash' = ReadyHash /\ ReadyValue' = ReadyValue
  BY SameReady DEF legs, keys, bridge
<1>4. Quiet'
  BY BetweenCover, <1>3 DEF Quiet, legs, bridge
<1> QED BY <1>1, <1>2, <1>4, BetweenCover

\* What is ready is among the rows the step reads.
LEMMA StartStepInv == ASSUME DepositInv, StartStep PROVE DepositInv'
<1> USE DEF DepositInv
<1>1. pc \in Steps /\ pc' = pc /\ walking' /\ walk' = Pending(pc) /\ ~walking
  BY DEF StartStep, TypeOK
<1>2. Pending(pc)' = Pending(pc)
  BY <1>1, SameCandidates DEF StartStep, Pending, legs, keys, bridge, Route
<1>3. TypeOK'
  <2>1. Pending(pc) \subseteq Deposits
    BY <1>1 DEF Pending, TypeOK
  <2> QED BY <1>1, <2>1 DEF StartStep, TypeOK, legs, keys, bridge, bounds
<1>4. WalkPending' /\ NoSharedLegs' /\ CoordsStored'
  BY <1>1, <1>2 DEF StartStep, WalkPending, NoSharedLegs, CoordsStored, legs, keys, bridge, Steps
<1>5. ReadyInbox' = ReadyInbox /\ ReadyMichelson' = ReadyMichelson
      /\ ReadyCoords' = ReadyCoords /\ ReadyHash' = ReadyHash /\ ReadyValue' = ReadyValue
  BY SameReady DEF StartStep, legs, keys, bridge
<1>6. /\ calls \ bridged = Pending("tezos_deposits")
      /\ ReadyInbox \subseteq Pending("inbox")
      /\ ReadyMichelson \subseteq Pending("michelson_deposits")
      /\ ReadyCoords \subseteq Pending("etherlink_deposits")
      /\ ReadyHash \subseteq Pending("etherlink_xtz_deposits")
  BY DEF Pending, ReadyInbox, ReadyMichelson, ReadyCoords, ReadyHash
<1>7. FlagsCover'
  <2>1. Quiet
    BY <1>1, BetweenCover
  <2>2. /\ armed' = armed \ {pc} /\ calls' = calls /\ bridged' = bridged
    BY DEF StartStep, legs, bridge
  <2> QED BY <1>1, <1>5, <1>6, <2>1, <2>2
          DEF FlagsCover, Covered, CoveredXtz, Quiet, Steps
<1> QED BY <1>3, <1>4, <1>7

\* A step whose rows are all visited has nothing ready; what the hashes left to the
\* second pass of the xtz step is among the rows it reads.
LEMMA EndStepInv == ASSUME DepositInv, EndStep PROVE DepositInv'
<1> USE DEF DepositInv
<1>1. walking /\ walk = {} /\ armed' = armed
  BY DEF EndStep
<1>2. ReadyInbox' = ReadyInbox /\ ReadyMichelson' = ReadyMichelson
      /\ ReadyCoords' = ReadyCoords /\ ReadyHash' = ReadyHash /\ ReadyValue' = ReadyValue
      /\ (calls \ bridged)' = calls \ bridged
  BY SameReady DEF EndStep, legs, keys, bridge
<1>3. NoSharedLegs' /\ CoordsStored'
  BY DEF EndStep, NoSharedLegs, CoordsStored, legs, keys, bridge
<1>4. CASE pc = "etherlink_xtz_deposits"
  <2>1. pc' = "by_value" /\ walking' /\ walk' = Pending("etherlink_xtz_deposits")
    BY <1>4 DEF EndStep
  <2>2. Pending("by_value")' = Pending("etherlink_xtz_deposits")
    BY SameCandidates DEF EndStep, Pending, legs, keys, bridge, Route
  <2>3. Pending("etherlink_xtz_deposits") \subseteq Deposits
    BY DEF Pending, TypeOK
  <2>4. TypeOK'
    BY <2>1, <2>3 DEF EndStep, TypeOK, legs, keys, bridge, bounds
  <2>5. WalkPending'
    BY <2>1, <2>2 DEF WalkPending
  <2>6. ReadyHash = {} \/ "etherlink_xtz_deposits" \in armed
    BY <1>1, <1>4 DEF FlagsCover, CoveredXtz
  <2>7. ReadyValue \subseteq Pending("etherlink_xtz_deposits")
    BY DEF ReadyValue
  <2>8. FlagsCover'
    BY <1>1, <1>2, <1>4, <2>1, <2>6, <2>7 DEF FlagsCover, Covered, CoveredXtz
  <2> QED BY <1>3, <2>4, <2>5, <2>8
<1>5. CASE pc # "etherlink_xtz_deposits"
  <2>1. pc' = After(pc) /\ walk' = {} /\ walking' = FALSE
    BY <1>5 DEF EndStep
  <2>2. After(pc) \in Steps \cup {"idle"}
    BY DEF After, Steps
  <2>3. TypeOK'
    BY <2>1, <2>2 DEF EndStep, TypeOK, legs, keys, bridge, bounds
  <2>4. WalkPending'
    BY <2>1, <2>2 DEF WalkPending, Steps
  <2>5. Quiet
    BY <1>1, <1>5 DEF FlagsCover, Covered, CoveredXtz, Quiet
  <2>6. Quiet'
    BY <1>1, <1>2, <2>5 DEF Quiet
  <2> QED BY <1>3, <2>3, <2>4, <2>6, BetweenCover
<1> QED BY <1>4, <1>5

-----------------------------------------------------------------------------
(* The visits.                                                             *)

\* Closing deposits, or opening none, makes no row of the later steps ready.
LEMMA FewerReady ==
  ASSUME UNCHANGED <<script, credits, coords, messages>>,
         Open' \subseteq Open, Linked \subseteq Linked',
         \A d \in Open' : inboxOf'[d] = inboxOf[d]
  PROVE  /\ ReadyMichelson' \subseteq ReadyMichelson
         /\ ReadyCoords' \subseteq ReadyCoords
         /\ ReadyHash' \subseteq ReadyHash /\ ReadyValue' \subseteq ReadyValue
<1>1. \A c : AtCoords(c)' \subseteq AtCoords(c)
  BY DEF AtCoords
<1>2. \A c : ByHash(c)' \subseteq ByHash(c)
  BY DEF ByHash, ExpectedHash, CreditHash, Value, Route
<1>3. \A c : ByValue(c)' \subseteq ByValue(c)
  BY DEF ByValue, InWindow, Value
<1>4. \A c : Located(c)' = Located(c)
  BY SameCandidates
<1>5. \A c : Route(c)' = Route(c)
  BY DEF Route
<1> QED BY <1>1, <1>2, <1>3, <1>4, <1>5, ReadyRowsHold DEF ReadyRows

\* A call gets its bridge row: nothing of it is open yet.
LEMMA CreateBridgeInv ==
  ASSUME DepositInv, NEW d \in Deposits, CreateBridge(d)
  PROVE  DepositInv'
<1> USE DEF DepositInv
<1>1. pc = "tezos_deposits" /\ walking /\ d \in walk /\ walk' = walk \ {d}
      /\ UNCHANGED <<script, legs, pc, walking, bounds>>
  BY DEF CreateBridge, Visit
<1>2. bridged' = bridged \cup {d} /\ armed' = armed \cup {"inbox"}
      /\ status' = [status EXCEPT ![d] = "created"]
      /\ UNCHANGED <<keys, inboxOf, creditOf>>
  BY DEF CreateBridge
<1>3. d \in calls \ bridged /\ inboxOf[d] = None /\ creditOf[d] = None
  BY <1>1 DEF WalkPending, Pending, TypeOK
<1>4. TypeOK'
  <2>1. status' \in [Deposits -> Statuses]
    BY <1>2 DEF TypeOK, Statuses
  <2>2. \A e \in Deposits \ bridged' : status'[e] = "none"
    BY <1>2 DEF TypeOK
  <2> QED BY <1>1, <1>2, <1>3, <2>1, <2>2 DEF TypeOK, Steps, legs, keys, bounds
<1>5. WalkPending' /\ CoordsStored'
  BY <1>1, <1>2 DEF WalkPending, CoordsStored, Pending, legs, keys
<1>6. NoSharedLegs'
  <2>1. inboxOf[d] \notin unclaimed
    BY <1>3, Constants DEF TypeOK
  <2> QED BY <1>2, <1>3, <2>1 DEF NoSharedLegs, keys
<1>7. Open' \subseteq Open /\ Linked \subseteq Linked'
  BY <1>2, <1>3 DEF Open, Linked
<1>8. /\ ReadyMichelson' \subseteq ReadyMichelson /\ ReadyCoords' \subseteq ReadyCoords
      /\ ReadyHash' \subseteq ReadyHash /\ ReadyValue' \subseteq ReadyValue
  BY <1>1, <1>2, <1>7, FewerReady DEF legs, keys
<1>9. (calls \ bridged)' \subseteq (calls \ bridged) \ {d}
  BY <1>1, <1>2 DEF legs
<1>10. FlagsCover'
  BY <1>1, <1>2, <1>8, <1>9 DEF FlagsCover, Covered, CoveredXtz
<1> QED BY <1>4, <1>5, <1>6, <1>10

\* An attachment opens a deposit, which arms every step that could close it.
LEMMA AttachInboxInv ==
  ASSUME DepositInv, NEW d \in Deposits, AttachInbox(d)
  PROVE  DepositInv'
<1> USE DEF DepositInv
<1> DEFINE m == Min(Messages(d))
<1>1. pc = "inbox" /\ walking /\ d \in walk /\ walk' = walk \ {d}
      /\ UNCHANGED <<script, legs, pc, walking, bounds>>
      /\ UNCHANGED <<coords, bridged, creditOf, status>>
  BY DEF AttachInbox, Visit
<1>2. d \in bridged /\ inboxOf[d] = None
  BY <1>1 DEF WalkPending, Pending
<1>3. CASE Messages(d) = {}
  <2>1. UNCHANGED <<unclaimed, inboxOf, armed>>
    BY <1>3 DEF AttachInbox
  <2>2. ReadyInbox' = ReadyInbox /\ ReadyMichelson' = ReadyMichelson
        /\ ReadyCoords' = ReadyCoords /\ ReadyHash' = ReadyHash /\ ReadyValue' = ReadyValue
    BY <1>1, <2>1, SameReady DEF legs
  <2>3. d \notin ReadyInbox
    BY <1>3 DEF ReadyInbox
  <2>4. TypeOK' /\ NoSharedLegs' /\ CoordsStored'
    BY <1>1, <2>1 DEF TypeOK, NoSharedLegs, CoordsStored, legs, bounds
  <2>5. WalkPending'
    BY <1>1, <2>1 DEF WalkPending, Pending
  <2>6. FlagsCover'
    BY <1>1, <2>1, <2>2, <2>3 DEF FlagsCover, Covered, CoveredXtz, legs
  <2> QED BY <2>4, <2>5, <2>6
<1>4. CASE Messages(d) # {}
  <2>1. /\ inboxOf' = [inboxOf EXCEPT ![d] = m] /\ unclaimed' = unclaimed \ {m}
        /\ armed' = armed \cup {"michelson_deposits", "etherlink_deposits",
                                 "etherlink_xtz_deposits"}
    BY <1>4 DEF AttachInbox
  <2>2. m \in unclaimed
    BY <1>4, FirstMessage DEF Messages
  <2> HIDE DEF m
  <2>3. m \in messages /\ \A e \in bridged : inboxOf[e] # m
    BY <2>2 DEF TypeOK, NoSharedLegs
  <2>4. TypeOK'
    <3>1. inboxOf' \in [Deposits -> messages \cup {None}]
      BY <2>1, <2>3 DEF TypeOK
    <3>2. \A e \in Deposits \ bridged : inboxOf'[e] = None
      BY <1>2, <2>1 DEF TypeOK
    <3> QED BY <1>1, <2>1, <3>1, <3>2 DEF TypeOK, Steps, legs, bounds
  <2>5. WalkPending' /\ CoordsStored'
    BY <1>1, <2>1 DEF WalkPending, CoordsStored, Pending, TypeOK, legs
  <2>6. NoSharedLegs'
    BY <1>1, <2>1, <2>3 DEF NoSharedLegs, TypeOK
  <2>7. ReadyInbox' \subseteq ReadyInbox \ {d}
    <3>1. \A e : Messages(e)' \subseteq Messages(e)
      BY <1>1, <2>1 DEF Messages, Key
    <3>2. inboxOf'[d] # None /\ \A e \in Deposits : e # d => inboxOf'[e] = inboxOf[e]
      BY <2>1, <2>3, Constants DEF TypeOK
    <3> QED BY <1>1, <3>1, <3>2, ReadyRowsHold DEF ReadyRows, TypeOK
  <2>8. FlagsCover'
    BY <1>1, <2>1, <2>7 DEF FlagsCover, Covered, CoveredXtz, legs
  <2> QED BY <2>4, <2>5, <2>6, <2>8
<1> QED BY <1>3, <1>4

\* Coordinates copied onto a credit arm the step that joins by them.
LEMMA CopyCoordsInv ==
  ASSUME DepositInv, NEW c \in Deposits, CopyCoords(c)
  PROVE  DepositInv'
<1> USE DEF DepositInv
<1>1. pc = "michelson_deposits" /\ walking /\ c \in walk /\ walk' = walk \ {c}
      /\ UNCHANGED <<script, legs, pc, walking, bounds, unclaimed, bridge>>
  BY DEF CopyCoords, VisitNext, Visit
<1>2. c \in credits /\ c \notin Linked /\ coords[c] = None /\ Route(c) = "michelson"
  BY <1>1 DEF WalkPending, Pending
<1>3. ReadyInbox' = ReadyInbox /\ ReadyHash' = ReadyHash /\ ReadyValue' = ReadyValue
  BY <1>1, SameReady DEF legs, bridge
<1>4. NoSharedLegs'
  BY <1>1 DEF NoSharedLegs, bridge
<1>5. CASE Located(c) = {}
  <2>1. UNCHANGED <<coords, armed>>
    BY <1>5 DEF CopyCoords
  <2>2. ReadyMichelson' = ReadyMichelson /\ ReadyCoords' = ReadyCoords
    BY <1>1, <2>1, SameReady DEF legs, bridge
  <2>3. c \notin ReadyMichelson
    BY <1>5 DEF ReadyMichelson
  <2>4. TypeOK' /\ CoordsStored'
    BY <1>1, <2>1 DEF TypeOK, CoordsStored, legs, bridge, bounds
  <2>5. WalkPending'
    BY <1>1, <2>1, SameCandidates DEF WalkPending, Pending, legs, bridge, Route
  <2>6. FlagsCover'
    BY <1>1, <1>3, <2>1, <2>2, <2>3 DEF FlagsCover, Covered, CoveredXtz, legs, bridge
  <2> QED BY <1>4, <2>4, <2>5, <2>6
<1>6. CASE Located(c) # {}
  <2>1. coords' = [coords EXCEPT ![c] = c] /\ armed' = armed \cup {"etherlink_deposits"}
        /\ c # None
    BY <1>6, LocatedIsOwn, Constants DEF CopyCoords
  <2>2. coords'[c] # None /\ \A e \in Deposits : e # c => coords'[e] = coords[e]
    BY <2>1 DEF TypeOK
  <2>3. ReadyMichelson' \subseteq ReadyMichelson \ {c}
    BY <1>1, <2>2, SameCandidates, ReadyRowsHold DEF ReadyRows, TypeOK, legs, bridge, Route
  <2>4. TypeOK'
    <3>1. coords' \in [Deposits -> Deposits \cup {None}]
      BY <2>1 DEF TypeOK
    <3> QED BY <1>1, <2>1, <3>1 DEF TypeOK, Steps, legs, bridge, bounds
  <2>5. CoordsStored'
    BY <1>1, <1>2, <2>1 DEF CoordsStored, legs
  <2>6. WalkPending'
    BY <1>1, <2>2, SameCandidates DEF WalkPending, Pending, TypeOK, legs, bridge, Route
  <2>7. FlagsCover'
    BY <1>1, <1>3, <2>1, <2>3 DEF FlagsCover, Covered, CoveredXtz, legs, bridge
  <2> QED BY <1>4, <2>4, <2>5, <2>6, <2>7
<1> QED BY <1>5, <1>6

\* Linking credit c to the open deposit d: both leave the rows that may still be joined.
LEMMA LinkKeeps ==
  ASSUME DepositInv, NEW c \in Deposits, NEW d \in Open, NEW outcome \in Outcomes,
         Finish(d, c, outcome), unclaimed' \subseteq unclaimed,
         pc \in {"etherlink_deposits", "etherlink_xtz_deposits", "by_value"},
         walking, c \in walk, walk' = walk \ {c},
         UNCHANGED <<script, legs, pc, walking, bounds, coords, armed>>
  PROVE  /\ TypeOK' /\ WalkPending' /\ CoordsStored' /\ NoSharedLegs'
         /\ (calls \ bridged)' = calls \ bridged
         /\ ReadyInbox' \subseteq ReadyInbox /\ ReadyMichelson' \subseteq ReadyMichelson
         /\ ReadyCoords' \subseteq ReadyCoords \ {c}
         /\ ReadyHash' \subseteq ReadyHash \ {c} /\ ReadyValue' \subseteq ReadyValue \ {c}
<1> USE DEF DepositInv
<1>1. /\ creditOf' = [creditOf EXCEPT ![d] = c] /\ status' = [status EXCEPT ![d] = outcome]
      /\ bridged' = bridged /\ inboxOf' = inboxOf
  BY DEF Finish
<1>2. d \in bridged /\ d \in Deposits /\ creditOf[d] = None
  BY DEF Open, TypeOK, legs
<1>3. c \in credits /\ c \notin Linked /\ c # None
  BY Constants DEF WalkPending, Pending
<1>4. creditOf'[d] = c /\ \A e \in Deposits : e # d => creditOf'[e] = creditOf[e]
  BY <1>1, <1>2 DEF TypeOK
<1>5. Linked \subseteq Linked' \cup {None} /\ Linked' \subseteq Linked \cup {c} /\ c \in Linked'
  BY <1>1, <1>2, <1>4 DEF Linked, TypeOK
<1>6. None \notin credits /\ credits' = credits
  BY Constants DEF TypeOK, legs
<1>7. Open' \subseteq Open
  BY <1>1, <1>3, <1>4, <1>2 DEF Open, TypeOK
<1>8. TypeOK'
  <2>1. creditOf' \in [Deposits -> credits \cup {None}] /\ status' \in [Deposits -> Statuses]
    BY <1>1, <1>3 DEF TypeOK, Statuses
  <2>2. \A e \in Deposits \ bridged : creditOf'[e] = None /\ status'[e] = "none"
    BY <1>1, <1>2 DEF TypeOK
  <2> QED BY <1>1, <2>1, <2>2 DEF TypeOK, legs, bounds
<1>9. CoordsStored'
  BY DEF CoordsStored, legs
<1>10. WalkPending'
  <2>1. walk \subseteq Pending(pc)
    BY DEF WalkPending
  <2>2. Pending(pc) \ {c} \subseteq Pending(pc)'
    BY <1>5, <1>6 DEF Pending, Route, legs
  <2> QED BY <2>1, <2>2 DEF WalkPending
<1>11. NoSharedLegs'
  <2>1. \A e \in bridged : creditOf[e] # c
    BY <1>3 DEF Linked
  <2>2. bridged \subseteq Deposits
    BY DEF TypeOK
  <2> QED BY <1>1, <1>4, <2>1, <2>2 DEF NoSharedLegs
<1>12. ReadyInbox' \subseteq ReadyInbox
  <2>1. \A e : Messages(e)' \subseteq Messages(e)
    BY DEF Messages, Key
  <2> QED BY <1>1, <2>1, ReadyRowsHold DEF ReadyRows
<1>13. \A e : Route(e)' = Route(e) /\ AtCoords(e)' \subseteq AtCoords(e)
             /\ ByHash(e)' \subseteq ByHash(e) /\ ByValue(e)' \subseteq ByValue(e)
             /\ Located(e)' = Located(e)
  <2>1. \A e : AtCoords(e)' \subseteq AtCoords(e)
    BY <1>1, <1>7 DEF AtCoords
  <2>2. \A e : ByHash(e)' \subseteq ByHash(e)
    BY <1>1, <1>7 DEF ByHash, ExpectedHash, CreditHash, Value, Route
  <2>3. \A e : ByValue(e)' \subseteq ByValue(e)
    BY <1>7 DEF ByValue, InWindow, Value
  <2>4. \A e : Located(e)' = Located(e)
    BY SameCandidates DEF legs
  <2> QED BY <2>1, <2>2, <2>3, <2>4 DEF Route
<1>14. (credits \ Linked)' \subseteq (credits \ Linked) \ {c}
  BY <1>5, <1>6
<1>15. /\ ReadyMichelson' \subseteq ReadyMichelson
       /\ ReadyCoords' \subseteq ReadyCoords \ {c}
       /\ ReadyHash' \subseteq ReadyHash \ {c} /\ ReadyValue' \subseteq ReadyValue \ {c}
  BY <1>13, <1>14, ReadyRowsHold DEF ReadyRows
<1>16. (calls \ bridged)' = calls \ bridged
  BY <1>1 DEF legs
<1> QED BY <1>8, <1>9, <1>10, <1>11, <1>12, <1>15, <1>16

\* A credit visited without a candidate leaves the walk, and nothing else changes.
LEMMA NoCandidate ==
  ASSUME DepositInv, NEW c \in Deposits,
         pc \in {"etherlink_deposits", "etherlink_xtz_deposits", "by_value"},
         walking, c \in walk, walk' = walk \ {c},
         UNCHANGED <<script, legs, pc, walking, bounds, keys, bridge, armed>>
  PROVE  /\ TypeOK' /\ WalkPending' /\ CoordsStored' /\ NoSharedLegs'
         /\ (calls \ bridged)' = calls \ bridged
         /\ ReadyInbox' = ReadyInbox /\ ReadyMichelson' = ReadyMichelson
         /\ ReadyCoords' = ReadyCoords
         /\ ReadyHash' = ReadyHash /\ ReadyValue' = ReadyValue
<1> USE DEF DepositInv
<1>1. TypeOK' /\ CoordsStored' /\ NoSharedLegs' /\ (calls \ bridged)' = calls \ bridged
  BY DEF TypeOK, CoordsStored, NoSharedLegs, legs, keys, bridge, bounds
<1>2. Pending(pc)' = Pending(pc)
  BY SameCandidates DEF Pending, legs, keys, bridge, Route
<1>3. WalkPending'
  BY <1>2 DEF WalkPending
<1>4. ReadyInbox' = ReadyInbox /\ ReadyMichelson' = ReadyMichelson
      /\ ReadyCoords' = ReadyCoords /\ ReadyHash' = ReadyHash /\ ReadyValue' = ReadyValue
  BY SameReady DEF legs, keys, bridge
<1> QED BY <1>1, <1>3, <1>4

\* The outcome of a credit is an outcome.
LEMMA OutcomeType == ASSUME TypeOK, NEW c \in Deposits PROVE script[c].outcome \in Outcomes
BY Constants DEF TypeOK, Facts

LEMMA LinkByCoordsInv ==
  ASSUME DepositInv, NEW c \in Deposits, LinkByCoords(c)
  PROVE  DepositInv'
<1> USE DEF DepositInv
<1>1. pc = "etherlink_deposits" /\ walking /\ c \in walk /\ walk' = walk \ {c}
      /\ UNCHANGED <<script, legs, pc, walking, bounds, keys, armed>>
  BY DEF LinkByCoords, VisitNext, Visit
<1>2. CASE AtCoords(c) = {}
  <2>1. UNCHANGED bridge /\ c \notin ReadyCoords
    BY <1>2 DEF LinkByCoords, ReadyCoords
  <2> QED BY <1>1, <2>1, NoCandidate DEF FlagsCover, Covered, CoveredXtz
<1>3. CASE AtCoords(c) # {}
  <2>1. PICK d \in AtCoords(c) : Finish(d, c, script[c].outcome)
    BY <1>3 DEF LinkByCoords
  <2>2. d \in Open /\ unclaimed' \subseteq unclaimed
    BY <1>1 DEF AtCoords, keys
  <2>3. script[c].outcome \in Outcomes /\ coords' = coords
    BY <1>1, OutcomeType DEF keys
  <2> HIDE DEF DepositInv
  <2>4. /\ TypeOK' /\ WalkPending' /\ CoordsStored' /\ NoSharedLegs'
         /\ (calls \ bridged)' = calls \ bridged
         /\ ReadyInbox' \subseteq ReadyInbox /\ ReadyMichelson' \subseteq ReadyMichelson
         /\ ReadyCoords' \subseteq ReadyCoords \ {c}
         /\ ReadyHash' \subseteq ReadyHash \ {c} /\ ReadyValue' \subseteq ReadyValue \ {c}
    BY <1>1, <2>1, <2>2, <2>3, LinkKeeps
  <2>5. FlagsCover'
    BY <1>1, <2>4 DEF DepositInv, FlagsCover, Covered, CoveredXtz
  <2> QED BY <2>4, <2>5 DEF DepositInv
<1> QED BY <1>2, <1>3

LEMMA LinkByHashInv ==
  ASSUME DepositInv, NEW c \in Deposits, LinkByHash(c)
  PROVE  DepositInv'
<1> USE DEF DepositInv
<1>1. pc = "etherlink_xtz_deposits" /\ walking /\ c \in walk /\ walk' = walk \ {c}
      /\ UNCHANGED <<script, legs, pc, walking, bounds, coords, armed>>
  BY DEF LinkByHash, VisitNext, Visit
<1>2. CASE ByHash(c) = {}
  <2>1. UNCHANGED <<keys, bridge>> /\ c \notin ReadyHash
    BY <1>1, <1>2 DEF LinkByHash, ReadyHash, keys
  <2> QED BY <1>1, <2>1, NoCandidate DEF FlagsCover, Covered, CoveredXtz
<1>3. CASE ByHash(c) # {}
  <2>1. PICK d \in Earliest(ByHash(c)) :
          Finish(d, c, "finished") /\ unclaimed' = unclaimed \ {inboxOf[d]}
    BY <1>3 DEF LinkByHash
  <2>2. d \in Open /\ unclaimed' \subseteq unclaimed /\ "finished" \in Outcomes
    BY <2>1 DEF Earliest, ByHash, Outcomes
  <2> HIDE DEF DepositInv
  <2>3. /\ TypeOK' /\ WalkPending' /\ CoordsStored' /\ NoSharedLegs'
         /\ (calls \ bridged)' = calls \ bridged
         /\ ReadyInbox' \subseteq ReadyInbox /\ ReadyMichelson' \subseteq ReadyMichelson
         /\ ReadyCoords' \subseteq ReadyCoords \ {c}
         /\ ReadyHash' \subseteq ReadyHash \ {c} /\ ReadyValue' \subseteq ReadyValue \ {c}
    BY <1>1, <2>1, <2>2, LinkKeeps
  <2>4. FlagsCover'
    BY <1>1, <2>3 DEF DepositInv, FlagsCover, Covered, CoveredXtz
  <2> QED BY <2>3, <2>4 DEF DepositInv
<1> QED BY <1>2, <1>3

LEMMA LinkByValueInv ==
  ASSUME DepositInv, NEW c \in Deposits, LinkByValue(c)
  PROVE  DepositInv'
<1> USE DEF DepositInv
<1>1. pc = "by_value" /\ walking /\ c \in walk /\ walk' = walk \ {c}
      /\ UNCHANGED <<script, legs, pc, walking, bounds, coords, armed>>
  BY DEF LinkByValue, VisitNext, Visit
<1>2. CASE ByValue(c) = {}
  <2>1. UNCHANGED <<keys, bridge>> /\ c \notin ReadyValue
    BY <1>1, <1>2 DEF LinkByValue, ReadyValue, keys
  <2> QED BY <1>1, <2>1, NoCandidate DEF FlagsCover, Covered, CoveredXtz
<1>3. CASE ByValue(c) # {}
  <2>1. PICK d \in Earliest(ByValue(c)) :
          Finish(d, c, "finished") /\ unclaimed' = unclaimed \ {inboxOf[d]}
    BY <1>3 DEF LinkByValue
  <2>2. d \in Open /\ unclaimed' \subseteq unclaimed /\ "finished" \in Outcomes
    BY <2>1 DEF Earliest, ByValue, Outcomes
  <2> HIDE DEF DepositInv
  <2>3. /\ TypeOK' /\ WalkPending' /\ CoordsStored' /\ NoSharedLegs'
         /\ (calls \ bridged)' = calls \ bridged
         /\ ReadyInbox' \subseteq ReadyInbox /\ ReadyMichelson' \subseteq ReadyMichelson
         /\ ReadyCoords' \subseteq ReadyCoords \ {c}
         /\ ReadyHash' \subseteq ReadyHash \ {c} /\ ReadyValue' \subseteq ReadyValue \ {c}
    BY <1>1, <2>1, <2>2, LinkKeeps
  <2>4. FlagsCover'
    BY <1>1, <2>3 DEF DepositInv, FlagsCover, Covered, CoveredXtz
  <2> QED BY <2>3, <2>4 DEF DepositInv
<1> QED BY <1>2, <1>3

-----------------------------------------------------------------------------
(* The theorems.                                                           *)

LEMMA StepInv == ASSUME DepositInv, [Next]_vars PROVE DepositInv'
<1>1. CASE Index
  BY <1>1, RollupCallInv, InboxMessageInv, DepositInvStep, XtzDepositInv, MichelsonDepositInv
     DEF Index
<1>2. CASE StartPass
  <2>1. ~walking /\ pc' \in Steps \cup {"idle"}
        /\ UNCHANGED <<script, legs, keys, bridge, armed, walking, walk, bounds>>
    BY <1>2 DEF StartPass, DepositInv, WalkPending, Steps
  <2> QED BY <2>1, SkipInv
<1>3. CASE SkipStep
  <2>1. ~walking /\ pc' \in Steps \cup {"idle"}
        /\ UNCHANGED <<script, legs, keys, bridge, armed, walking, walk, bounds>>
    BY <1>3 DEF SkipStep, After, Steps
  <2> QED BY <2>1, SkipInv
<1>4. CASE StartStep
  BY <1>4, StartStepInv
<1>5. CASE EndStep
  BY <1>5, EndStepInv
<1>6. CASE VisitRow
  BY <1>6, CreateBridgeInv, AttachInboxInv, CopyCoordsInv, LinkByCoordsInv, LinkByHashInv,
     LinkByValueInv DEF VisitRow
<1>7. CASE CementCommitment
  BY <1>7, CementCommitmentInv
<1>8. CASE Crash
  BY <1>8, CrashInv
<1>9. CASE UNCHANGED vars
  <2>1. TypeOK' /\ CoordsStored' /\ NoSharedLegs'
    BY <1>9 DEF DepositInv, TypeOK, CoordsStored, NoSharedLegs,
       vars, legs, keys, bridge, pass, bounds
  <2>2. Pending(pc)' = Pending(pc)
    BY <1>9, SameCandidates DEF Pending, vars, legs, keys, bridge, pass, Route
  <2>3. WalkPending'
    BY <1>9, <2>2 DEF DepositInv, WalkPending, vars, pass
  <2>4. ReadyInbox' = ReadyInbox /\ ReadyMichelson' = ReadyMichelson
        /\ ReadyCoords' = ReadyCoords /\ ReadyHash' = ReadyHash /\ ReadyValue' = ReadyValue
    BY <1>9, SameReady DEF vars, legs, keys, bridge
  <2>5. FlagsCover'
    BY <1>9, <2>4 DEF DepositInv, FlagsCover, Covered, CoveredXtz,
       vars, legs, bridge, pass
  <2> QED BY <2>1, <2>3, <2>5 DEF DepositInv
<1> QED BY <1>1, <1>2, <1>3, <1>4, <1>5, <1>6, <1>7, <1>8, <1>9 DEF Next, PassStep

\* At every row of every pass, the flags and the rows still to be visited cover every
\* join the tables allow, and no leg serves two deposits.
THEOREM DepositInvariant == Spec => []DepositInv
<1>1. Init => DepositInv
  BY InitInv
<1>2. DepositInv /\ [Next]_vars => DepositInv'
  BY StepInv
<1> QED BY <1>1, <1>2, PTL DEF Spec

\* Every variable keeps its type.
THEOREM TypeCorrect == Spec => []TypeOK
<1>1. DepositInv => TypeOK
  BY DEF DepositInv
<1> QED BY <1>1, DepositInvariant, PTL

\* No inbox message and no L2 credit serves two deposits, whatever the order of the legs.
THEOREM LegsNotShared == Spec => []NoSharedLegs
<1>1. DepositInv => NoSharedLegs
  BY DEF DepositInv
<1> QED BY <1>1, DepositInvariant, PTL

\* Between passes a join the rows allow has its flag set: the matcher, which looks at the
\* flags alone, forgets none, through whatever order of legs, steps and restarts.
THEOREM FlagsSuffice == Spec => []Settled
<1>1. DepositInv => Settled
  <2> SUFFICES ASSUME DepositInv, pc = "idle" PROVE Settled
    BY DEF Settled
  <2>1. Quiet
    BY IdleCover DEF DepositInv
  <2> QED BY <2>1 DEF Quiet, Settled, ReadyInbox, ReadyMichelson, ReadyCoords,
             ReadyHash, ReadyValue
<1> QED BY <1>1, DepositInvariant, PTL

-----------------------------------------------------------------------------
(* Closed operations.                                                      *)

\* What a step may not do to a closed operation.
KeepsClosed ==
  \A d \in Deposits : creditOf[d] # None => creditOf'[d] = creditOf[d] /\ status'[d] = status[d]

LEMMA FinishKeeps ==
  ASSUME TypeOK, ClosedStatus, NEW c \in Deposits, NEW d \in Open, NEW outcome \in Outcomes,
         Finish(d, c, outcome)
  PROVE  KeepsClosed /\ ClosedStatus'
<1>1. d \in Deposits /\ creditOf[d] = None
  BY DEF Open, TypeOK
<1>2. /\ creditOf'[d] = c /\ status'[d] = outcome
      /\ \A e \in Deposits : e # d => creditOf'[e] = creditOf[e] /\ status'[e] = status[e]
  BY <1>1 DEF Finish, TypeOK
<1> QED BY <1>1, <1>2 DEF KeepsClosed, ClosedStatus

LEMMA StepKeepsClosed ==
  ASSUME DepositInv, ClosedStatus, [Next]_vars
  PROVE  KeepsClosed /\ ClosedStatus'
<1> USE DEF DepositInv
<1>1. CASE UNCHANGED <<creditOf, status>>
  BY <1>1 DEF KeepsClosed, ClosedStatus
<1>2. CASE Index \/ StartPass \/ SkipStep \/ StartStep \/ EndStep \/ Crash \/ UNCHANGED vars
  <2>1. UNCHANGED bridge
    BY <1>2 DEF Index, RollupCall, InboxMessage, Deposit, XtzDeposit, MichelsonDeposit,
       StartPass, SkipStep, StartStep, EndStep, Crash, vars
  <2> QED BY <1>1, <2>1 DEF bridge
<1>3. CASE CementCommitment
  <2>1. creditOf' = creditOf /\ \A d \in Deposits : status[d] # "created" => status'[d] = status[d]
    BY <1>3 DEF CementCommitment
  <2>2. "created" \notin Outcomes
    BY DEF Outcomes
  <2> QED BY <2>1, <2>2 DEF KeepsClosed, ClosedStatus
<1>4. CASE VisitRow
  <2>1. PICK r \in Deposits : \/ CreateBridge(r) \/ AttachInbox(r) \/ CopyCoords(r)
                              \/ LinkByCoords(r) \/ LinkByHash(r) \/ LinkByValue(r)
    BY <1>4 DEF VisitRow
  <2>2. CASE CreateBridge(r)
    <3>1. r \notin bridged
      BY <2>2 DEF CreateBridge, Visit, WalkPending, Pending
    <3>2. creditOf[r] = None /\ creditOf' = creditOf
          /\ \A e \in Deposits : e # r => status'[e] = status[e]
      BY <2>2, <3>1 DEF CreateBridge, TypeOK
    <3> QED BY <3>2 DEF KeepsClosed, ClosedStatus
  <2>3. CASE AttachInbox(r) \/ CopyCoords(r)
    BY <1>1, <2>3 DEF AttachInbox, CopyCoords, bridge
  <2>4. CASE LinkByCoords(r)
    <3>1. CASE AtCoords(r) = {}
      BY <1>1, <2>4, <3>1 DEF LinkByCoords, bridge
    <3>2. CASE AtCoords(r) # {}
      <4>1. PICK d \in AtCoords(r) : Finish(d, r, script[r].outcome)
        BY <2>4, <3>2 DEF LinkByCoords
      <4>2. d \in Open /\ script[r].outcome \in Outcomes
        BY OutcomeType DEF AtCoords
      <4> QED BY <4>1, <4>2, FinishKeeps
    <3> QED BY <3>1, <3>2
  <2>5. CASE LinkByHash(r)
    <3>1. CASE ByHash(r) = {}
      BY <1>1, <2>5, <3>1 DEF LinkByHash, bridge
    <3>2. CASE ByHash(r) # {}
      <4>1. PICK d \in Earliest(ByHash(r)) : Finish(d, r, "finished")
        BY <2>5, <3>2 DEF LinkByHash
      <4>2. d \in Open /\ "finished" \in Outcomes
        BY DEF Earliest, ByHash, Outcomes
      <4> QED BY <4>1, <4>2, FinishKeeps
    <3> QED BY <3>1, <3>2
  <2>6. CASE LinkByValue(r)
    <3>1. CASE ByValue(r) = {}
      BY <1>1, <2>6, <3>1 DEF LinkByValue, bridge
    <3>2. CASE ByValue(r) # {}
      <4>1. PICK d \in Earliest(ByValue(r)) : Finish(d, r, "finished")
        BY <2>6, <3>2 DEF LinkByValue
      <4>2. d \in Open /\ "finished" \in Outcomes
        BY DEF Earliest, ByValue, Outcomes
      <4> QED BY <4>1, <4>2, FinishKeeps
    <3> QED BY <3>1, <3>2
  <2> QED BY <2>1, <2>2, <2>3, <2>4, <2>5, <2>6
<1> QED BY <1>2, <1>3, <1>4 DEF Next, PassStep

\* Neither a commitment nor a later pass touches an operation that has its credit.
THEOREM ClosedKept == Spec => ClosedStaysClosed
<1>1. Init => ClosedStatus
  BY DEF Init, ClosedStatus
<1>2. DepositInv /\ ClosedStatus /\ [Next]_vars => ClosedStatus' /\ [KeepsClosed]_vars
  BY StepKeepsClosed
<1>3. ClosedStaysClosed <=> [][KeepsClosed]_vars
  BY DEF ClosedStaysClosed, KeepsClosed
<1> QED BY <1>1, <1>2, <1>3, DepositInvariant, PTL DEF Spec

-----------------------------------------------------------------------------
(* The promise of BridgeOperations.                                        *)

\* The open operations the commitments have timed out.
TimedOut == {d \in bridged : status[d] = "inbox_matching_timeout"}

\* A leg handed to an operation by one of the joins closes it.
LEMMA FinishCloses ==
  ASSUME DepositInv, NEW c \in Deposits, NEW d \in Open, NEW outcome \in Outcomes,
         Finish(d, c, outcome), c \in credits \ Linked, UNCHANGED <<messages, credits>>
  PROVE  Operations!Close(d, c)
<1>1. d \in bridged /\ creditOf[d] = None /\ inboxOf[d] # None
  BY DEF Open
<1>2. TimedOut' = TimedOut \ {d}
  <2>1. status'[d] = outcome /\ outcome # "inbox_matching_timeout"
        /\ \A e \in Deposits : e # d => status'[e] = status[e]
    BY <1>1 DEF Finish, DepositInv, TypeOK, Outcomes
  <2>2. bridged' = bridged /\ bridged \subseteq Deposits
    BY DEF Finish, DepositInv, TypeOK
  <2> QED BY <2>1, <2>2 DEF TimedOut
<1> QED BY <1>1, <1>2 DEF Finish, Operations!Close, Operations!Closed, Operations!Spent, Linked,
           TimedOut

LEMMA OperationsStep ==
  ASSUME DepositInv, ClosedStatus, [Next]_vars
  PROVE  [Operations!Next]_(Operations!vars)
<1> USE DEF DepositInv
<1>1. CASE UNCHANGED <<messages, credits, bridge>>
  BY <1>1 DEF Operations!vars, bridge
<1>2. CASE RollupCall \/ StartPass \/ SkipStep \/ StartStep \/ EndStep \/ Crash \/ UNCHANGED vars
  BY <1>1, <1>2 DEF RollupCall, StartPass, SkipStep, StartStep, EndStep, Crash, vars, legs
<1>3. CASE InboxMessage \/ Deposit \/ XtzDeposit \/ MichelsonDeposit
  <2>1. /\ messages \subseteq messages' /\ messages' \subseteq Deposits
        /\ credits \subseteq credits' /\ credits' \subseteq Deposits
        /\ UNCHANGED bridge
    BY <1>3 DEF InboxMessage, Deposit, XtzDeposit, MichelsonDeposit, TypeOK
  <2> QED BY <2>1 DEF Operations!Next, Operations!Store, bridge
<1>4. CASE CementCommitment
  <2>0. PICK late \in SUBSET Deposits :
          late = {d \in Deposits : status[d] = "created" /\ status'[d] # "created"}
    OBVIOUS
  <2>1. /\ UNCHANGED <<messages, credits, bridged, inboxOf, creditOf>>
        /\ \A d \in Deposits : IF d \in late THEN status'[d] = "inbox_matching_timeout"
                                             ELSE status'[d] = status[d]
    BY <1>4, <2>0 DEF CementCommitment, legs
  <2>2. late \subseteq bridged /\ \A d \in late : creditOf[d] = None
    BY <2>0 DEF TypeOK, ClosedStatus, Outcomes
  <2>3. TimedOut' = TimedOut \cup late
    BY <2>1, <2>2 DEF TimedOut, TypeOK
  <2>4. Operations!Expire(late)
    BY <2>1, <2>2, <2>3 DEF Operations!Expire, Operations!Closed, TimedOut
  <2> QED BY <2>4 DEF Operations!Next
<1>5. CASE VisitRow
  <2>1. PICK r \in Deposits : \/ CreateBridge(r) \/ AttachInbox(r) \/ CopyCoords(r)
                              \/ LinkByCoords(r) \/ LinkByHash(r) \/ LinkByValue(r)
    BY <1>5 DEF VisitRow
  <2>2. CASE CreateBridge(r)
    <3>1. r \notin bridged
      BY <2>2 DEF CreateBridge, Visit, WalkPending, Pending
    <3>2. bridged' = bridged \cup {r} /\ status'[r] = "created"
          /\ \A e \in Deposits : e # r => status'[e] = status[e]
      BY <2>2 DEF CreateBridge, TypeOK
    <3>3. TimedOut' = TimedOut
      BY <3>1, <3>2 DEF TimedOut, TypeOK
    <3>4. Operations!Open(r)
      BY <2>2, <3>1, <3>2, <3>3 DEF CreateBridge, Visit, legs, Operations!Open, TimedOut
    <3> QED BY <3>4 DEF Operations!Next
  <2>3. CASE AttachInbox(r) /\ Messages(r) = {}
    BY <1>1, <2>3 DEF AttachInbox, Visit, bridge, legs
  <2>4. CASE AttachInbox(r) /\ Messages(r) # {}
    <3> DEFINE m == Min(Messages(r))
    <3>1. m \in unclaimed /\ m \in messages /\ m \in Deposits
      BY <2>4, FirstMessage DEF Messages, TypeOK
    <3>2. r \in bridged /\ inboxOf[r] = None
      BY <2>4 DEF AttachInbox, Visit, WalkPending, Pending
    <3>3. \A d \in bridged : inboxOf[d] # m
      BY <3>1 DEF NoSharedLegs
    <3>4. inboxOf' = [inboxOf EXCEPT ![r] = m]
          /\ UNCHANGED <<messages, credits, bridged, creditOf, status>>
      BY <2>4 DEF AttachInbox, Visit, legs
    <3>5. Operations!Attach(r, m)
      BY <3>1, <3>2, <3>3, <3>4 DEF Operations!Attach, Operations!Held
    <3> QED BY <3>1, <3>5 DEF Operations!Next
  <2>5. CASE CopyCoords(r)
    BY <1>1, <2>5 DEF CopyCoords, VisitNext, Visit, legs
  <2>6. CASE LinkByCoords(r) \/ LinkByHash(r) \/ LinkByValue(r)
    <3>1. r \in credits \ Linked /\ UNCHANGED <<messages, credits>>
      BY <2>6 DEF LinkByCoords, LinkByHash, LinkByValue, VisitNext, Visit, legs,
         WalkPending, Pending
    <3>2. CASE UNCHANGED bridge
      BY <1>1, <3>1, <3>2
    <3>3. CASE \E d \in Open, outcome \in Outcomes : Finish(d, r, outcome)
      <4>1. PICK d \in Open, outcome \in Outcomes : Finish(d, r, outcome)
        BY <3>3
      <4>2. Operations!Close(d, r)
        BY <3>1, <4>1, FinishCloses
      <4> QED BY <4>1, <4>2 DEF Operations!Next, Open, TypeOK
    <3>4. script[r].outcome \in Outcomes /\ "finished" \in Outcomes
      BY OutcomeType DEF Outcomes
    <3> QED BY <2>6, <3>2, <3>3, <3>4 DEF LinkByCoords, LinkByHash, LinkByValue,
               AtCoords, ByHash, ByValue, Earliest
  <2> QED BY <2>1, <2>2, <2>3, <2>4, <2>5, <2>6
<1> QED BY <1>2, <1>3, <1>4, <1>5 DEF Next, Index, PassStep

\* The deposit steps implement the abstract operations: through every order of legs,
\* passes, restarts and commitments a leg serves one deposit, a deposit keeps what it has,
\* and one that timed out is closed late or not at all.
THEOREM ImplementsOperations == Spec => KeepsPromise
<1>1. Init => Operations!Init
  <2> SUFFICES ASSUME Init PROVE Operations!Init
    OBVIOUS
  <2>1. bridged = {} /\ TimedOut = {}
    BY DEF Init, TimedOut
  <2> QED BY <2>1 DEF Init, Operations!Init, TimedOut
<1>2. Init => ClosedStatus
  BY DEF Init, ClosedStatus
<1>3. DepositInv /\ ClosedStatus /\ [Next]_vars => ClosedStatus' /\ [Operations!Next]_(Operations!vars)
  BY StepKeepsClosed, OperationsStep
<1> QED BY <1>1, <1>2, <1>3, DepositInvariant, PTL DEF Spec, KeepsPromise, Operations!Spec

=============================================================================
