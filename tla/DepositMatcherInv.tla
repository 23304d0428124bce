-------------------------- MODULE DepositMatcherInv --------------------------
(* The inductive invariant of DepositMatcher.  Settled and NoSharedLegs speak  *)
(* of the states between passes; what carries them through a pass is that the *)
(* rows still to be visited cover whatever the rows in the tables allow.      *)
EXTENDS DepositMatcher

\* The rows of each step that have a candidate now.
ReadyInbox     == {d \in Pending("inbox") : Messages(d) # {}}
ReadyMichelson == {c \in Pending("michelson_deposits") : Located(c) # {}}
ReadyCoords    == {c \in Pending("etherlink_deposits") : AtCoords(c) # {}}
ReadyHash      == {c \in Pending("etherlink_xtz_deposits") : ByHash(c) # {}}
ReadyValue     == {c \in Pending("etherlink_xtz_deposits") : ByValue(c) # {}}

\* Step s is armed, or what it could do is among the rows it is about to visit.
Covered(s, ready) ==
  \/ s \in armed
  \/ ready = {}
  \/ walking /\ pc = s /\ ready \subseteq walk

\* The xtz step may leave to its second pass what the hashes do not name.
CoveredXtz ==
  \/ "etherlink_xtz_deposits" \in armed
  \/ ReadyHash = {} /\ ReadyValue = {}
  \/ walking /\ pc = "etherlink_xtz_deposits" /\ ReadyHash \subseteq walk
  \/ walking /\ pc = "by_value" /\ ReadyHash = {} /\ ReadyValue \subseteq walk

\* A walk visits rows its query still selects, and nothing is walked between steps.
WalkPending ==
  /\ pc = "idle" => ~walking
  /\ pc = "by_value" => walking
  /\ IF walking THEN walk \subseteq Pending(pc) ELSE walk = {}

\* Coordinates belong to stored credits.
CoordsStored == \A c \in Deposits \ credits : coords[c] = None

FlagsCover ==
  /\ Covered("tezos_deposits", calls \ bridged)
  /\ Covered("inbox", ReadyInbox)
  /\ Covered("michelson_deposits", ReadyMichelson)
  /\ Covered("etherlink_deposits", ReadyCoords)
  /\ CoveredXtz

\* The inductive invariant: at every row of every pass the flags and the walk together
\* cover all the joins the tables allow, and no leg serves two deposits.
DepositInv == TypeOK /\ WalkPending /\ CoordsStored /\ NoSharedLegs /\ FlagsCover

\* An operation that has its credit has the status of an outcome.
ClosedStatus == \A d \in Deposits : creditOf[d] # None => status[d] \in Outcomes

-----------------------------------------------------------------------------
(* Why a credit closes its own deposit.                                    *)

\* Every EVM XTZ deposit is credited, a credit of an older formula comes within the
\* window, and the formula changed between two levels: where pairing by value is sound.
CreditsComplete ==
  \A d \in Deposits : Route(d) = "xtz" =>
    /\ script[d].credited
    /\ ~script[d].named => InWindow(d, d)
    /\ \A e \in Deposits : Value(e) = Value(d) /\ script[e].level = script[d].level
                             => script[e].named = script[d].named

\* Coordinates are those of the credit's own message.
CoordsOwn == \A c \in Deposits : coords[c] \in {None, c}

\* Each stream is indexed without gaps.
StreamsInOrder ==
  \A d, e \in Deposits : e < d =>
    /\ d \in calls => e \in calls
    /\ d \in messages => e \in messages
    /\ Route(e) = "xtz" /\ script[e].credited /\ Route(d) = "xtz" =>
         (d \in credits => e \in credits)

\* A message that is no candidate any more is attached, a deposit has a message of its
\* hash and level, and no message is attached whose L1 call is still to come.
ClaimsExact ==
  /\ \A m \in messages \ unclaimed : \E d \in bridged : inboxOf[d] = m
  /\ \A d \in bridged : inboxOf[d] # None =>
       Key(inboxOf[d]) = Key(d) /\ inboxOf[d] \in calls

\* A pass clears the flags of its steps in order, and none it has passed is set again.
StepsDone ==
  /\ pc \notin {"idle", "tezos_deposits"} \/ (pc = "tezos_deposits" /\ walking)
       => "tezos_deposits" \notin armed
  /\ pc \notin {"idle", "tezos_deposits", "inbox"} \/ (pc = "inbox" /\ walking)
       => "inbox" \notin armed
  /\ pc = "by_value" \/ (pc = "etherlink_xtz_deposits" /\ walking)
       => "etherlink_xtz_deposits" \notin armed

\* The inductive invariant behind OwnCredits, on top of DepositInv.
CreditsInv ==
  /\ CoordsOwn /\ StreamsInOrder /\ IsFiniteSet(calls) /\ ClaimsExact /\ StepsDone
  /\ CreditsComplete => OwnCredits

\* At every row of every pass the flags cover the joins, no leg serves two deposits, and
\* each credit has closed its own: the two inductive invariants together.
MatcherInv == DepositInv /\ CreditsInv

=============================================================================
