---------------------- MODULE DepositMatcherCreditsProof ----------------------
(***************************************************************************)
(* Why a credit closes its own deposit.  The hash of a named credit may be  *)
(* overlooked, when its deposit has no message yet, and the value pass then *)
(* takes any open deposit of the same value; that it never does, and that   *)
(* it takes for a credit of an older formula a deposit of the same level,   *)
(* rests on counting: the messages of one key suffice for its deposits, and *)
(* the deposits of one value and level for its credits.                    *)
(***************************************************************************)
EXTENDS DepositMatcherProof, FiniteSetTheorems

-----------------------------------------------------------------------------
(* Counting.                                                               *)

\* A finite set does not fit into itself without one of its elements.
LEMMA NoRoom ==
  ASSUME NEW S, IsFiniteSet(S), NEW out \in S,
         NEW f, \A x \in S : f[x] \in S \ {out},
         \A x, y \in S : x # y => f[x] # f[y]
  PROVE  FALSE
<1> DEFINE T == S \ {out}
           g == [x \in S |-> f[x]]
<1>1. g \in [S -> T] /\ \A x, y \in S : x # y => g[x] # g[y]
  OBVIOUS
<1>2. IsFiniteSet(T) /\ Cardinality(T) = Cardinality(S) - 1
  BY FS_RemoveElement
<1>3. Cardinality(S) \in Nat
  BY FS_CardinalityType
<1>4. Cardinality(T) < Cardinality(S)
  BY <1>2, <1>3
<1> HIDE DEF g, T
<1>5. \E x, y \in S : x # y /\ g[x] = g[y]
  BY <1>1, <1>2, <1>4, FS_PigeonHole
<1> QED BY <1>1, <1>5

\* Nor is it covered by the values of a function on it without one of its elements.
LEMMA NoCover ==
  ASSUME NEW S, IsFiniteSet(S), NEW out \in S,
         NEW f, \A y \in S : \E x \in S \ {out} : f[x] = y
  PROVE  FALSE
<1> DEFINE g == [y \in S |-> CHOOSE x \in S \ {out} : f[x] = y]
<1>1. \A y \in S : g[y] \in S \ {out} /\ f[g[y]] = y
  OBVIOUS
<1>2. \A x, y \in S : x # y => g[x] # g[y]
  BY <1>1
<1> HIDE DEF g
<1> QED BY <1>1, <1>2, NoRoom

\* What the parameters, the levels and the numbers of deposits say of each other.
LEMMA ScriptFacts ==
  ASSUME TypeOK, NEW d \in Deposits, NEW e \in Deposits
  PROVE  /\ d \in Nat /\ d # None /\ script[d].level \in Nat /\ script[d].at \in Nat
         /\ Gap \in Nat
         /\ d < e => script[d].level <= script[e].level
         /\ Key(d) = Key(e) => Value(d) = Value(e) /\ script[d].level = script[e].level
         /\ Value(d) = Value(e) => Route(d) = Route(e)
         /\ Value(d) # None
<1>1. script \in Scripts
  BY DEF TypeOK
<1>2. script \in [Deposits -> Facts]
  BY <1>1, Constants
<1>3. /\ d < e => script[d].level <= script[e].level
      /\ script[d].hash = script[e].hash => script[d].value = script[e].value
      /\ script[d].value = script[e].value => script[d].route = script[e].route
  BY <1>1, DepositMatcherAssumption
<1> QED BY <1>2, <1>3, Constants, DepositMatcherAssumption DEF Key, Value, Route, Facts

-----------------------------------------------------------------------------
(* Streams, coordinates and flags.                                         *)

\* The chains have done what they have done.
LEMMA ScriptFixed == ASSUME [Next]_vars PROVE script' = script
BY DEF Next, Index, PassStep, VisitRow, vars, RollupCall, InboxMessage, Deposit, XtzDeposit,
   MichelsonDeposit, CementCommitment, Crash, StartPass, SkipStep, StartStep, EndStep,
   CreateBridge, AttachInbox, CopyCoords, LinkByCoords, LinkByHash, LinkByValue, VisitNext, Visit

\* The legs are stored by the handlers alone.
LEMMA LegsFixed ==
  ASSUME [Next]_vars, ~Index
  PROVE  UNCHANGED legs
BY DEF Next, PassStep, VisitRow, vars, CementCommitment, Crash, StartPass, SkipStep, StartStep,
   EndStep, CreateBridge, AttachInbox, CopyCoords, LinkByCoords, LinkByHash, LinkByValue,
   VisitNext, Visit

\* Each handler stores the next leg of its stream.
LEMMA StreamsStep ==
  ASSUME TypeOK, StreamsInOrder, IsFiniteSet(calls), [Next]_vars
  PROVE  StreamsInOrder' /\ IsFiniteSet(calls')
<1>0. script' = script
  BY ScriptFixed
<1>1. CASE UNCHANGED legs
  BY <1>0, <1>1 DEF StreamsInOrder, legs, Route
<1>2. CASE RollupCall
  <2>1. PICK d \in Deposits : NextOf(Deposits, calls, d) /\ calls' = calls \cup {d}
    BY <1>2 DEF RollupCall
  <2>2. \A e \in Deposits : e < d => e \in calls
    BY <2>1, Constants DEF NextOf
  <2>3. IsFiniteSet(calls')
    BY <2>1, FS_AddElement
  <2> QED BY <1>0, <1>2, <2>1, <2>2, <2>3 DEF StreamsInOrder, RollupCall, Route
<1>3. CASE InboxMessage
  <2>1. PICK d \in Deposits : NextOf(Deposits, messages, d) /\ messages' = messages \cup {d}
    BY <1>3 DEF InboxMessage
  <2>2. \A e \in Deposits : e < d => e \in messages
    BY <2>1, Constants DEF NextOf
  <2> QED BY <1>0, <1>3, <2>1, <2>2 DEF StreamsInOrder, InboxMessage, Route
<1>4. CASE Deposit \/ MichelsonDeposit
  <2>1. PICK c \in Deposits : Route(c) # "xtz" /\ credits' = credits \cup {c}
    BY <1>4 DEF Deposit, MichelsonDeposit, NextOf, Credited
  <2> QED BY <1>0, <1>4, <2>1 DEF StreamsInOrder, Deposit, MichelsonDeposit, Route
<1>5. CASE XtzDeposit
  <2>1. PICK c \in Deposits :
          NextOf(Credited("xtz"), credits, c) /\ credits' = credits \cup {c}
    BY <1>5 DEF XtzDeposit
  <2>2. \A e \in Deposits : e < c /\ Route(e) = "xtz" /\ script[e].credited => e \in credits
    BY <2>1, Constants DEF NextOf, Credited
  <2> QED BY <1>0, <1>5, <2>1, <2>2 DEF StreamsInOrder, XtzDeposit, Route
<1> QED BY <1>1, <1>2, <1>3, <1>4, <1>5, LegsFixed DEF Index

\* Coordinates are copied from the credit's own message.
LEMMA CoordsStep ==
  ASSUME TypeOK, CoordsOwn, [Next]_vars
  PROVE  CoordsOwn'
<1>1. CASE UNCHANGED coords
  BY <1>1 DEF CoordsOwn
<1>2. CASE Deposit
  BY <1>2 DEF Deposit, CoordsOwn, TypeOK
<1>3. ASSUME NEW c \in Deposits, CopyCoords(c) PROVE CoordsOwn'
  <2>1. coords' = coords \/ coords' = [coords EXCEPT ![c] = c]
    BY <1>3, LocatedIsOwn DEF CopyCoords
  <2> QED BY <2>1 DEF CoordsOwn, TypeOK
<1> QED BY <1>1, <1>2, <1>3
    DEF Next, Index, PassStep, VisitRow, vars, keys, RollupCall, InboxMessage, XtzDeposit,
        MichelsonDeposit, CementCommitment, Crash, StartPass, SkipStep, StartStep, EndStep,
        CreateBridge, AttachInbox, LinkByCoords, LinkByHash, LinkByValue

\* A pass moves through its steps in order.
LEMMA DoneStep ==
  ASSUME TypeOK, WalkPending, StepsDone, [Next]_vars
  PROVE  StepsDone'
<1> USE DEF StepsDone, WalkPending
<1>1. CASE Index \/ CementCommitment \/ Crash
  BY <1>1 DEF Index, RollupCall, InboxMessage, Deposit, XtzDeposit, MichelsonDeposit,
     CementCommitment, Crash, pass
<1>2. CASE StartPass
  BY <1>2 DEF StartPass
<1>3. CASE SkipStep
  BY <1>3, AfterStep DEF SkipStep, Steps
<1>4. CASE StartStep
  BY <1>4 DEF StartStep, Steps, TypeOK
<1>5. CASE EndStep
  BY <1>5, AfterStep DEF EndStep, Steps, TypeOK
<1>6. CASE VisitRow
  BY <1>6 DEF VisitRow, CreateBridge, AttachInbox, CopyCoords, LinkByCoords, LinkByHash,
     LinkByValue, VisitNext, Visit
<1>7. CASE UNCHANGED vars
  BY <1>7 DEF vars, pass
<1> QED BY <1>1, <1>2, <1>3, <1>4, <1>5, <1>6, <1>7 DEF Next, PassStep

-----------------------------------------------------------------------------
(* Messages.                                                               *)

\* The deposits that share the key of d.
Alike(d) == {e \in Deposits : Key(e) = Key(d)}

\* The inbox step never takes a message whose own call is still to come: the calls of the
\* key would be more than the messages below it.
LEMMA MessageCalled ==
  ASSUME TypeOK, WalkPending, StreamsInOrder, ClaimsExact, IsFiniteSet(calls),
         NEW d \in Deposits, AttachInbox(d), Messages(d) # {}
  PROVE  Min(Messages(d)) \in calls
<1> DEFINE m == Min(Messages(d))
           S == Alike(d) \cap calls
<1>1. m \in unclaimed /\ m \in messages /\ m \in Deposits /\ \A x \in Messages(d) : m <= x
  <2>1. Messages(d) \in SUBSET Nat
    BY Constants DEF TypeOK, Messages
  <2> QED BY <2>1, MinOfNats DEF TypeOK, Messages
<1>2. d \in bridged /\ inboxOf[d] = None /\ d \in S
  BY DEF AttachInbox, Visit, WalkPending, Pending, TypeOK, Alike
<1>3. IsFiniteSet(S)
  BY FS_Intersection
<1> HIDE DEF m
<1> SUFFICES ASSUME m \notin calls PROVE FALSE
  BY DEF m
<1>4. ASSUME NEW x \in S PROVE \E e \in S \ {d} : inboxOf[e] = x
  <2>1. x \in Deposits /\ x < m
    BY <1>1, Constants DEF StreamsInOrder, Alike
  <2>2. x \in messages /\ x \notin unclaimed
    BY <1>1, <2>1, Constants DEF StreamsInOrder, Messages, Alike
  <2>3. PICK e \in bridged : inboxOf[e] = x
    BY <2>2 DEF ClaimsExact
  <2>4. e \in S \ {d}
    BY <1>2, <2>1, <2>3, Constants DEF ClaimsExact, Alike, TypeOK
  <2> QED BY <2>3, <2>4
<1> HIDE DEF S
<1> QED BY <1>2, <1>3, <1>4, NoCover

LEMMA ClaimsStep ==
  ASSUME DepositInv, StreamsInOrder, IsFiniteSet(calls), ClaimsExact, [Next]_vars
  PROVE  ClaimsExact'
<1> USE DEF DepositInv
<1>0. script' = script /\ calls \subseteq calls'
  BY ScriptFixed, LegsFixed DEF legs, Index, RollupCall, InboxMessage, Deposit, XtzDeposit,
     MichelsonDeposit
<1>1. CASE UNCHANGED <<messages, unclaimed, bridged, inboxOf>>
  BY <1>0, <1>1 DEF ClaimsExact, Key
<1>2. CASE InboxMessage
  BY <1>0, <1>2 DEF InboxMessage, ClaimsExact, Key, bridge
<1>3. ASSUME NEW d \in Deposits, CreateBridge(d) PROVE ClaimsExact'
  <2>1. inboxOf[d] = None /\ bridged' = bridged \cup {d}
        /\ UNCHANGED <<messages, unclaimed, inboxOf>>
    BY <1>3 DEF CreateBridge, Visit, WalkPending, Pending, TypeOK, legs, keys
  <2> QED BY <1>0, <2>1 DEF ClaimsExact, Key
<1>4. ASSUME NEW d \in Deposits, AttachInbox(d) PROVE ClaimsExact'
  <2>1. d \in bridged /\ inboxOf[d] = None /\ UNCHANGED <<messages, bridged>>
    BY <1>4 DEF AttachInbox, Visit, WalkPending, Pending, legs
  <2>2. CASE Messages(d) = {}
    BY <1>1, <1>4, <2>1, <2>2 DEF AttachInbox
  <2>3. CASE Messages(d) # {}
    <3> DEFINE m == Min(Messages(d))
    <3>1. m \in calls /\ m \in Messages(d)
      BY <1>4, <2>3, MessageCalled, FirstMessage
    <3>2. inboxOf' = [inboxOf EXCEPT ![d] = m] /\ unclaimed' = unclaimed \ {m}
      BY <1>4, <2>3 DEF AttachInbox
    <3> HIDE DEF m
    <3>3. inboxOf'[d] = m /\ \A e \in Deposits : e # d => inboxOf'[e] = inboxOf[e]
      BY <3>2 DEF TypeOK
    <3>4. \A x \in messages' \ unclaimed' : \E e \in bridged' : inboxOf'[e] = x
      <4>1. ASSUME NEW x \in messages, x \notin unclaimed, x # None
            PROVE  \E e \in bridged' : inboxOf'[e] = x
        <5>1. PICK e \in bridged : inboxOf[e] = x
          BY <4>1 DEF ClaimsExact
        <5> QED BY <2>1, <3>3, <4>1, <5>1 DEF TypeOK
      <4> QED BY <2>1, <3>2, <3>3, <4>1, Constants DEF TypeOK
    <3>5. \A e \in bridged : inboxOf'[e] # None =>
            Key(inboxOf'[e]) = Key(e) /\ inboxOf'[e] \in calls
      BY <3>1, <3>3 DEF ClaimsExact, Messages, TypeOK
    <3> QED BY <1>0, <2>1, <3>4, <3>5 DEF ClaimsExact, Key
  <2> QED BY <2>2, <2>3
<1>5. ASSUME NEW c \in Deposits, LinkByHash(c) \/ LinkByValue(c) PROVE ClaimsExact'
  <2>1. CASE UNCHANGED <<unclaimed, bridge>>
    BY <1>1, <1>5, <2>1 DEF LinkByHash, LinkByValue, VisitNext, Visit, bridge, legs
  <2>2. CASE \E d \in Open : Finish(d, c, "finished") /\ unclaimed' = unclaimed \ {inboxOf[d]}
    <3>1. PICK d \in Open : Finish(d, c, "finished") /\ unclaimed' = unclaimed \ {inboxOf[d]}
      BY <2>2
    <3>2. d \in bridged /\ UNCHANGED <<messages, bridged, inboxOf>>
      BY <1>5, <3>1 DEF Open, Finish, LinkByHash, LinkByValue, VisitNext, Visit, legs
    <3> QED BY <1>0, <3>1, <3>2 DEF ClaimsExact, Key
  <2> QED BY <1>5, <2>1, <2>2 DEF LinkByHash, LinkByValue, ByHash, ByValue, Earliest
<1>6. ASSUME NEW c \in Deposits, CopyCoords(c) \/ LinkByCoords(c) PROVE ClaimsExact'
  <2>1. UNCHANGED <<messages, unclaimed, bridged, inboxOf>>
    BY <1>6 DEF CopyCoords, LinkByCoords, Finish, VisitNext, Visit, bridge, legs, keys
  <2> QED BY <1>1, <2>1
<1>7. CASE RollupCall \/ Deposit \/ XtzDeposit \/ MichelsonDeposit \/ CementCommitment
           \/ Crash \/ StartPass \/ SkipStep \/ StartStep \/ EndStep \/ UNCHANGED vars
  BY <1>1, <1>7 DEF RollupCall, Deposit, XtzDeposit, MichelsonDeposit, CementCommitment, Crash,
     StartPass, SkipStep, StartStep, EndStep, vars, legs, keys, bridge
<1> QED BY <1>2, <1>3, <1>4, <1>5, <1>6, <1>7 DEF Next, Index, PassStep, VisitRow

-----------------------------------------------------------------------------
(* Credits.                                                                *)

\* A hash names the deposit whose message is the credit's own.
LEMMA HashNames ==
  ASSUME DepositInv, ClaimsExact, NEW c \in Deposits, NEW d \in Open
  PROVE  /\ d \in ByHash(c) => script[c].named /\ inboxOf[d] = c
         /\ script[c].named /\ Route(c) = "xtz" /\ inboxOf[d] = c => d \in ByHash(c)
         /\ inboxOf[d] = c => Value(c) = Value(d) /\ script[c].level = script[d].level
<1>1. d \in bridged /\ d \in Deposits /\ inboxOf[d] # None /\ c # None
  BY Constants DEF Open, DepositInv, TypeOK
<1>2. inboxOf[d] = c => Value(c) = Value(d) /\ script[c].level = script[d].level
  BY <1>1, ScriptFacts DEF ClaimsExact, DepositInv
<1>3. Value(d) = Value(c) => Route(d) = Route(c)
  BY <1>1, ScriptFacts DEF DepositInv
<1>4. Value(d) # None
  BY <1>1, ScriptFacts DEF DepositInv
<1>5. d \in ByHash(c) => script[c].named /\ inboxOf[d] = c
  BY <1>1, <1>4 DEF ByHash, ExpectedHash, CreditHash
<1>6. script[c].named /\ Route(c) = "xtz" /\ inboxOf[d] = c => d \in ByHash(c)
  BY <1>1, <1>2, <1>3 DEF ByHash, ExpectedHash, CreditHash
<1> QED BY <1>2, <1>5, <1>6

\* A row of the value pass is visited, with everything else in place.
ValueVisit(c) ==
  /\ DepositInv /\ CreditsInv /\ CreditsComplete
  /\ pc = "by_value" /\ walking /\ c \in walk /\ \A r \in walk : c <= r

\* By then the calls have their rows, what could be attached is attached, and what the
\* hashes name is linked.
LEMMA BeforeValue ==
  ASSUME NEW c \in Deposits, ValueVisit(c)
  PROVE  /\ calls = bridged
         /\ \A d \in bridged : inboxOf[d] = None => Messages(d) = {}
         /\ \A e \in credits \ Linked : Route(e) = "xtz" => ByHash(e) = {}
         /\ \A e \in credits \ Linked :
              Route(e) = "xtz" /\ ByValue(e) # {} => e \in walk
         /\ c \in credits \ Linked /\ Route(c) = "xtz"
<1> USE DEF ValueVisit, DepositInv, CreditsInv
<1>1. calls \ bridged = {} /\ ReadyInbox = {}
  BY DEF FlagsCover, Covered, StepsDone
<1>2. ReadyHash = {} /\ ReadyValue \subseteq walk
  BY DEF FlagsCover, CoveredXtz, StepsDone
<1>3. c \in credits \ Linked /\ Route(c) = "xtz"
  BY DEF WalkPending, Pending
<1> QED BY <1>1, <1>2, <1>3, ReadyRowsHold DEF ReadyRows, TypeOK

\* Every message whose own call is indexed is attached: were it free, the deposits of its
\* key would all be attached to the others.
LEMMA AllClaimed ==
  ASSUME NEW c \in Deposits, ValueVisit(c), NEW m \in calls \cap messages
  PROVE  \E d \in bridged : inboxOf[d] = m
<1> USE DEF ValueVisit, DepositInv, CreditsInv
<1> DEFINE S == Alike(m) \cap calls
<1> SUFFICES ASSUME m \in unclaimed PROVE FALSE
  BY DEF ClaimsExact
<1>1. IsFiniteSet(S) /\ m \in S
  BY FS_Intersection DEF Alike, TypeOK
<1>2. ASSUME NEW x \in S PROVE x \in bridged /\ inboxOf[x] \in S \ {m}
  <2>1. x \in bridged /\ x \in Deposits /\ Key(x) = Key(m)
    BY BeforeValue DEF Alike
  <2>2. m \in Messages(x)
    BY <2>1 DEF Messages
  <2>3. inboxOf[x] # None
    BY <2>1, <2>2, BeforeValue
  <2>4. inboxOf[x] # m
    BY <2>1 DEF NoSharedLegs
  <2> QED BY <2>1, <2>3, <2>4 DEF ClaimsExact, Alike, TypeOK
<1>3. \A x, y \in S : x # y => inboxOf[x] # inboxOf[y]
  BY <1>2, Constants DEF NoSharedLegs, Alike
<1> HIDE DEF S
<1> QED BY <1>1, <1>2, <1>3, NoRoom

\* The deposits of the value and the level of d.
Peers(d) == {e \in Deposits : Value(e) = Value(d) /\ script[e].level = script[d].level}

\* No deposit of the value of c and of a lower level is open: as many credits as its level
\* has deposits of this value came before c, and each has closed one of them.
LEMMA LowerClosed ==
  ASSUME NEW c \in Deposits, ValueVisit(c), NEW d \in Open, Value(d) = Value(c),
         script[d].level < script[c].level
  PROVE  FALSE
<1> USE DEF ValueVisit, DepositInv, CreditsInv
<1>1. d \in bridged /\ d \in Deposits /\ creditOf[d] = None /\ inboxOf[d] \in Deposits
  BY DEF Open, TypeOK
<1>2. c \in credits \ Linked /\ Route(c) = "xtz"
  BY BeforeValue
<1>3. ASSUME NEW e \in Peers(d)
      PROVE  e \in credits /\ e < c /\ Route(e) = "xtz" /\ e \in Deposits
  <2>1. e \in Deposits /\ Value(e) = Value(c) /\ script[e].level < script[c].level
    BY DEF Peers
  <2>2. Route(e) = "xtz"
    BY <1>2, <2>1, ScriptFacts
  <2>3. e < c
    BY <2>1, ScriptFacts
  <2> QED BY <1>2, <2>1, <2>2, <2>3 DEF StreamsInOrder, CreditsComplete
<1>4. d \in Peers(d)
  BY <1>1 DEF Peers
<1>5. CASE script[d].named
  <2> DEFINE m == inboxOf[d]
  <2>1. Key(m) = Key(d) /\ m \in Peers(d)
    BY <1>1, ScriptFacts DEF ClaimsExact, Peers
  <2>2. script[m].named
    BY <1>1, <1>3, <1>4, <1>5, <2>1 DEF CreditsComplete, Peers
  <2>3. d \in ByHash(m)
    BY <1>1, <1>3, <2>1, <2>2, HashNames
  <2>4. m \in Linked
    BY <1>3, <2>1, <2>3, BeforeValue
  <2>5. PICK e \in bridged : creditOf[e] = m
    BY <2>4 DEF Linked
  <2>6. inboxOf[e] = m
    BY <1>1, <2>2, <2>5, Constants DEF OwnCredits
  <2>7. e = d
    BY <1>1, <2>6, Constants DEF NoSharedLegs
  <2> QED BY <1>1, <2>5, <2>7, Constants
<1>6. CASE ~script[d].named
  <2>1. ASSUME NEW e \in Peers(d) PROVE \E x \in Peers(d) \ {d} : creditOf[x] = e
    <3>1. ~script[e].named
      BY <1>1, <1>3, <1>4, <1>6 DEF CreditsComplete, Peers
    <3>2. InWindow(e, e) /\ Value(e) = Value(d) /\ script[e].level = script[d].level
      BY <1>3, <3>1 DEF CreditsComplete, Peers
    <3>3. d \in ByValue(e)
      BY <3>2 DEF ByValue, InWindow
    <3>4. e \notin walk
      BY <1>3, ScriptFacts
    <3>5. e \in Linked
      BY <1>3, <3>3, <3>4, BeforeValue
    <3>6. PICK x \in bridged : creditOf[x] = e
      BY <3>5 DEF Linked
    <3>7. x \in Peers(d) \ {d}
      BY <1>1, <1>3, <3>2, <3>6, Constants DEF OwnCredits, Peers, TypeOK
    <3> QED BY <3>6, <3>7
  <2>2. IsFiniteSet(Peers(d))
    <3>1. Peers(d) \in SUBSET Nat /\ c \in Nat
      BY <1>3, Constants
    <3>2. \A e \in Peers(d) : e <= c
      BY <1>3, <3>1
    <3> QED BY <3>1, <3>2, FS_BoundedSetOfNaturals
  <2> QED BY <1>4, <2>1, <2>2, NoCover
<1> QED BY <1>5, <1>6

\* A named credit never takes a deposit by its value.
LEMMA NamedNotByValue ==
  ASSUME NEW c \in Deposits, ValueVisit(c), script[c].named
  PROVE  ByValue(c) = {}
<1> USE DEF ValueVisit, DepositInv, CreditsInv
<1> SUFFICES ASSUME NEW d \in ByValue(c) PROVE FALSE
  OBVIOUS
<1> DEFINE m == inboxOf[d]
<1>1. /\ d \in Open /\ d \in bridged /\ d \in Deposits /\ creditOf[d] = None
      /\ m \in Deposits /\ m \in messages /\ Value(d) = Value(c) /\ m # None
  BY DEF ByValue, Open, TypeOK
<1>2. c \in credits \ Linked /\ Route(c) = "xtz" /\ c # None
  BY BeforeValue, Constants
<1>3. Key(m) = Key(d) /\ m \in calls /\ Value(m) = Value(d) /\ script[m].level = script[d].level
  BY <1>1, ScriptFacts DEF ClaimsExact
<1>4. Route(m) = "xtz"
  BY <1>1, <1>2, <1>3, ScriptFacts
<1>5. m # c
  BY <1>1, <1>2, HashNames, BeforeValue
<1>6. CASE m < c
  <2>1. script[m].level <= script[c].level /\ m \in credits
    BY <1>1, <1>2, <1>4, <1>6, ScriptFacts DEF StreamsInOrder, CreditsComplete
  <2>2. script[m].level = script[c].level
    BY <1>1, <1>3, <2>1, ScriptFacts, LowerClosed
  <2>3. script[m].named
    BY <1>1, <1>2, <1>3, <2>2 DEF CreditsComplete
  <2>4. m \in Linked
    BY <1>1, <1>4, <2>1, <2>3, HashNames, BeforeValue
  <2>5. PICK e \in bridged : creditOf[e] = m
    BY <2>4 DEF Linked
  <2>6. inboxOf[e] = m
    BY <1>1, <2>3, <2>5 DEF OwnCredits
  <2>7. e = d
    BY <1>1, <2>6 DEF NoSharedLegs
  <2> QED BY <1>1, <2>5, <2>7
<1>7. CASE c < m
  <2>1. c \in calls \cap messages
    BY <1>1, <1>3, <1>7 DEF StreamsInOrder
  <2>2. PICK e \in bridged : inboxOf[e] = c
    BY <2>1, AllClaimed
  <2>3. e \in Deposits /\ Key(c) = Key(e)
    BY <1>2, <2>2 DEF ClaimsExact, TypeOK
  <2>4. CASE creditOf[e] = None
    BY <1>2, <2>2, <2>4, HashNames, BeforeValue DEF Open
  <2>5. CASE creditOf[e] # None
    <3> DEFINE x == creditOf[e]
    <3>1. Value(x) = Value(e) /\ script[x].level = script[e].level /\ x \in Deposits
      BY <2>2, <2>5 DEF OwnCredits, TypeOK
    <3>2. Value(x) = Value(c) /\ script[x].level = script[c].level
      BY <2>3, <3>1, ScriptFacts
    <3>3. script[x].named
      BY <1>2, <3>1, <3>2 DEF CreditsComplete
    <3>4. x = c
      BY <2>2, <2>5, <3>3 DEF OwnCredits
    <3> QED BY <1>2, <2>2, <3>4 DEF Linked
  <2> QED BY <2>4, <2>5
<1> QED BY <1>1, <1>5, <1>6, <1>7, ScriptFacts

\* A credit of an older formula takes a deposit of its own level: none of a lower one is
\* open, and were the earliest of a higher one, every deposit of its own value and level
\* would be closed, by one of the other credits of them.
LEMMA OlderByLevel ==
  ASSUME NEW c \in Deposits, ValueVisit(c), ~script[c].named, NEW d \in Earliest(ByValue(c))
  PROVE  script[d].level = script[c].level
<1> USE DEF ValueVisit, DepositInv, CreditsInv
<1> DEFINE m == inboxOf[d]
<1>1. /\ d \in Open /\ d \in bridged /\ d \in Deposits /\ m \in Deposits /\ m \in messages
      /\ Value(d) = Value(c) /\ \A e \in ByValue(c) : script[d].level <= script[e].level
  BY DEF Earliest, ByValue, Open, TypeOK
<1>2. c \in credits \ Linked /\ Route(c) = "xtz" /\ InWindow(c, c)
  BY BeforeValue DEF CreditsComplete
<1> SUFFICES ASSUME script[c].level < script[d].level PROVE FALSE
  BY <1>1, LowerClosed, ScriptFacts
<1>3. script[m].level = script[d].level /\ m \in calls
  BY <1>1, ScriptFacts DEF ClaimsExact
<1>4. ASSUME NEW e \in Deposits, script[e].level = script[c].level
      PROVE  e < m /\ e \in calls /\ e \in messages /\ e \in bridged
  <2>1. e < m
    BY <1>1, <1>3, <1>4, ScriptFacts
  <2> QED BY <1>1, <1>3, <2>1, BeforeValue DEF StreamsInOrder
<1>5. ASSUME NEW e \in Deposits, script[e].level = script[c].level, inboxOf[e] = None
      PROVE  FALSE
  <2> DEFINE S == Alike(e)
  <2>1. ASSUME NEW x \in S PROVE \E y \in S \ {e} : inboxOf[y] = x
    <3>1. x \in Deposits /\ Key(x) = Key(e) /\ script[x].level = script[c].level
      BY <1>5, ScriptFacts DEF Alike
    <3>2. PICK y \in bridged : inboxOf[y] = x
      BY <1>4, <3>1, AllClaimed
    <3>3. y \in Deposits /\ x # None
      BY <3>1, <3>2, Constants DEF TypeOK
    <3>4. Key(y) = Key(x) /\ y # e
      BY <1>5, <3>2, <3>3 DEF ClaimsExact
    <3> QED BY <3>1, <3>2, <3>3, <3>4 DEF Alike
  <2>2. IsFiniteSet(S) /\ e \in S
    <3>1. S \subseteq calls
      BY <1>4, <1>5, ScriptFacts DEF Alike
    <3> QED BY <3>1, FS_Subset DEF Alike
  <2> HIDE DEF S
  <2> QED BY <2>1, <2>2, NoCover
<1>6. ASSUME NEW e \in Peers(c)
      PROVE  e \in bridged /\ creditOf[e] \in Peers(c) \ {c} /\ creditOf[e] # None
  <2>1. e \in Deposits /\ Value(e) = Value(c) /\ script[e].level = script[c].level
    BY DEF Peers
  <2>2. e \in bridged /\ inboxOf[e] # None
    BY <1>4, <1>5, <2>1
  <2>3. e \notin ByValue(c)
    BY <1>1, <2>1, ScriptFacts
  <2>4. creditOf[e] # None
    BY <1>2, <2>1, <2>2, <2>3 DEF ByValue, Open, InWindow
  <2>5. creditOf[e] \in Deposits /\ creditOf[e] # c
    BY <1>2, <2>1, <2>2, <2>4 DEF Linked, TypeOK
  <2> QED BY <2>1, <2>2, <2>4, <2>5 DEF OwnCredits, Peers
<1>7. \A x, y \in Peers(c) : x # y => creditOf[x] # creditOf[y]
  BY <1>6 DEF NoSharedLegs
<1>8. IsFiniteSet(Peers(c)) /\ c \in Peers(c)
  <2>1. Peers(c) \subseteq calls
    BY <1>4 DEF Peers
  <2> QED BY <2>1, FS_Subset DEF Peers
<1> QED BY <1>6, <1>7, <1>8, NoRoom

\* What every step keeps of a closed deposit that it does not close.
LEMMA OwnStep ==
  ASSUME DepositInv, CreditsInv, CreditsComplete, [Next]_vars
  PROVE  OwnCredits'
<1> USE DEF DepositInv, CreditsInv
<1>0. script' = script
  BY ScriptFixed
<1>1. CASE UNCHANGED <<bridged, inboxOf, creditOf>>
  BY <1>0, <1>1 DEF OwnCredits, Value, Route
<1>2. ASSUME NEW r \in Deposits, CreateBridge(r) PROVE OwnCredits'
  <2>1. creditOf[r] = None /\ bridged' = bridged \cup {r} /\ UNCHANGED <<inboxOf, creditOf>>
    BY <1>2 DEF CreateBridge, Visit, WalkPending, Pending, TypeOK
  <2> QED BY <1>0, <2>1 DEF OwnCredits, Value, Route
<1>3. ASSUME NEW r \in Deposits, AttachInbox(r) PROVE OwnCredits'
  <2>1. inboxOf[r] = None /\ UNCHANGED <<bridged, creditOf>>
    BY <1>3 DEF AttachInbox, Visit, WalkPending, Pending
  <2>2. \A e \in Deposits : e # r => inboxOf'[e] = inboxOf[e]
    BY <1>3 DEF AttachInbox, TypeOK
  <2> QED BY <1>0, <2>1, <2>2 DEF OwnCredits, Value, Route, TypeOK
<1>4. ASSUME NEW d \in Open, NEW c \in Deposits, NEW o, Finish(d, c, o),
             Value(c) = Value(d), script[c].level = script[d].level,
             (Route(c) = "xtz" => script[c].named) => c = inboxOf[d]
      PROVE  OwnCredits'
  <2>1. d \in Deposits /\ UNCHANGED <<bridged, inboxOf>>
        /\ creditOf' = [creditOf EXCEPT ![d] = c]
    BY <1>4 DEF Open, Finish, TypeOK
  <2>2. creditOf'[d] = c /\ \A e \in Deposits : e # d => creditOf'[e] = creditOf[e]
    BY <2>1 DEF TypeOK
  <2> QED BY <1>0, <1>4, <2>1, <2>2 DEF OwnCredits, Value, Route, TypeOK
<1>5. ASSUME NEW c \in Deposits, LinkByCoords(c) PROVE OwnCredits'
  <2>1. CASE AtCoords(c) = {}
    BY <1>1, <1>5, <2>1 DEF LinkByCoords, bridge
  <2>2. CASE AtCoords(c) # {}
    <3>1. PICK d \in AtCoords(c) : Finish(d, c, script[c].outcome)
      BY <1>5, <2>2 DEF LinkByCoords
    <3>2. coords[c] = c
      BY <1>5 DEF LinkByCoords, VisitNext, Visit, WalkPending, Pending, CoordsOwn
    <3>3. d \in Open /\ inboxOf[d] = c
      BY <3>1, <3>2 DEF AtCoords
    <3> QED BY <1>4, <3>1, <3>3, HashNames
  <2> QED BY <2>1, <2>2
<1>6. ASSUME NEW c \in Deposits, LinkByHash(c) PROVE OwnCredits'
  <2>1. CASE ByHash(c) = {}
    BY <1>1, <1>6, <2>1 DEF LinkByHash, bridge
  <2>2. CASE ByHash(c) # {}
    <3>1. PICK d \in Earliest(ByHash(c)) : Finish(d, c, "finished")
      BY <1>6, <2>2 DEF LinkByHash
    <3>2. d \in ByHash(c) /\ d \in Open
      BY <3>1 DEF Earliest, ByHash
    <3> QED BY <1>4, <3>1, <3>2, HashNames
  <2> QED BY <2>1, <2>2
<1>7. ASSUME NEW c \in Deposits, LinkByValue(c) PROVE OwnCredits'
  <2>1. CASE ByValue(c) = {}
    BY <1>1, <1>7, <2>1 DEF LinkByValue, bridge
  <2>2. CASE ByValue(c) # {}
    <3>1. PICK d \in Earliest(ByValue(c)) : Finish(d, c, "finished")
      BY <1>7, <2>2 DEF LinkByValue
    <3>2. ValueVisit(c)
      BY <1>7 DEF LinkByValue, VisitNext, Visit, ValueVisit
    <3>3. ~script[c].named /\ script[d].level = script[c].level
      BY <2>2, <3>1, <3>2, NamedNotByValue, OlderByLevel
    <3>4. d \in Open /\ Value(d) = Value(c) /\ Route(c) = "xtz"
      BY <3>1, <3>2, BeforeValue DEF Earliest, ByValue
    <3> QED BY <1>4, <3>1, <3>3, <3>4
  <2> QED BY <2>1, <2>2
<1>8. CASE VisitRow
  <2>1. ASSUME NEW c \in Deposits, CopyCoords(c) PROVE OwnCredits'
    BY <1>1, <2>1 DEF CopyCoords, bridge
  <2> QED BY <1>2, <1>3, <1>5, <1>6, <1>7, <1>8, <2>1 DEF VisitRow
<1>9. CASE Index \/ CementCommitment \/ Crash \/ StartPass \/ SkipStep \/ StartStep \/ EndStep
           \/ UNCHANGED vars
  BY <1>1, <1>9 DEF Index, RollupCall, InboxMessage, Deposit, XtzDeposit, MichelsonDeposit,
     CementCommitment, Crash, StartPass, SkipStep, StartStep, EndStep, vars, bridge
<1> QED BY <1>8, <1>9 DEF Next, PassStep

\* No leg, no row: nothing to be wrong about.
LEMMA CreditsInit == Init => CreditsInv
<1> SUFFICES ASSUME Init PROVE CreditsInv
  OBVIOUS
<1>1. CoordsOwn /\ StreamsInOrder /\ ClaimsExact /\ OwnCredits
  BY DEF Init, CoordsOwn, StreamsInOrder, ClaimsExact, OwnCredits
<1>2. IsFiniteSet(calls) /\ StepsDone
  BY FS_EmptySet DEF Init, StepsDone
<1> QED BY <1>1, <1>2 DEF CreditsInv

\* Each row of each pass keeps the invariant of the credits.
LEMMA CreditsStep == DepositInv /\ CreditsInv /\ [Next]_vars => CreditsInv'
<1> SUFFICES ASSUME DepositInv, CreditsInv, [Next]_vars PROVE CreditsInv'
  OBVIOUS
<1>1. CoordsOwn' /\ StreamsInOrder' /\ IsFiniteSet(calls')
  BY CoordsStep, StreamsStep DEF DepositInv, CreditsInv
<1>2. ClaimsExact' /\ StepsDone'
  BY ClaimsStep, DoneStep DEF DepositInv, CreditsInv
<1>3. CreditsComplete' => OwnCredits'
  <2>1. CreditsComplete' => CreditsComplete
    BY ScriptFixed DEF CreditsComplete, Route, Value, InWindow
  <2> QED BY <2>1, OwnStep
<1> QED BY <1>1, <1>2, <1>3 DEF CreditsInv

\* ... and so does every behaviour.
LEMMA CreditsInvariant == Spec => []CreditsInv
<1>1. Spec => []DepositInv
  BY DepositInvariant
<1> QED BY <1>1, CreditsInit, CreditsStep, PTL DEF Spec

\* What the chains do is fixed from the start.
LEMMA CompleteStays == CreditsComplete /\ [Next]_vars => CreditsComplete'
BY ScriptFixed DEF CreditsComplete, Route, Value, InWindow

\* What the value pass links is a credit of the older formula.
LEMMA ValueStep ==
  ASSUME DepositInv, CreditsInv, CreditsComplete, [Next]_vars, pc = "by_value",
         NEW c \in Deposits, NEW d \in Deposits, creditOf'[d] = c, creditOf[d] # c
  PROVE  ~script[c].named
<1>1. creditOf' # creditOf
  OBVIOUS
<1>2. PICK r \in Deposits : LinkByValue(r)
  BY <1>1 DEF Next, Index, PassStep, VisitRow, RollupCall, InboxMessage, Deposit, XtzDeposit,
     MichelsonDeposit, CementCommitment, Crash, StartPass, SkipStep, StartStep, EndStep, vars,
     bridge, CreateBridge, AttachInbox, CopyCoords, LinkByCoords, LinkByHash, VisitNext, Visit
<1>3. ValueVisit(r)
  BY <1>2 DEF LinkByValue, VisitNext, Visit, ValueVisit
<1>4. ~script[r].named
  BY <1>1, <1>2, <1>3, NamedNotByValue DEF LinkByValue, bridge
<1>5. c = r
  <2>1. PICK e \in Deposits : creditOf' = [creditOf EXCEPT ![e] = r]
    BY <1>1, <1>2 DEF LinkByValue, bridge, Finish, Earliest, ByValue, Open, DepositInv, TypeOK
  <2> QED BY <2>1 DEF DepositInv, TypeOK
<1> QED BY <1>4, <1>5

\* The inductive invariant of the matcher: what a pass has done and has still to visit,
\* and why the credits it has given belong.
THEOREM MatcherInvariant == Spec => []MatcherInv
<1>1. DepositInv /\ CreditsInv => MatcherInv
  BY DEF MatcherInv
<1> QED BY <1>1, DepositInvariant, CreditsInvariant, PTL

-----------------------------------------------------------------------------
(* The hypothesis of the two theorems is about what the chains did and not about what    *)
(* the indexer made of it; every script of the run Cascade has it.                       *)

\* Where every EVM XTZ deposit is credited, credits of the older formula come within the
\* window and the formula changed between two levels, check_pending_etherlink_deposits
\* and both passes of check_pending_etherlink_xtz_deposits give a credit to its own
\* deposit: OwnCredits, for any number of deposits, in whatever order the legs come.
THEOREM CreditsOwned == Spec /\ CreditsComplete => []OwnCredits
<1>1. CreditsInv /\ CreditsComplete => OwnCredits
  BY DEF CreditsInv
<1> QED BY <1>1, CompleteStays, CreditsInvariant, PTL DEF Spec

\* There the value pass joins credits of the older formula only, as its log line says
\* (bridge_matcher.py): it takes a deposit that is never credited, or late, to break that.
THEOREM ValuePassForOlder == Spec /\ CreditsComplete => ValueOnlyForOlder
<1>1. DepositInv /\ CreditsInv /\ CreditsComplete /\ [Next]_vars =>
        [pc = "by_value" =>
           \A c \in Deposits : (\E d \in Deposits : creditOf'[d] = c /\ creditOf[d] # c)
                                => ~script[c].named]_vars
  BY ValueStep
<1> QED BY <1>1, CompleteStays, CreditsInvariant, DepositInvariant, PTL
        DEF Spec, ValueOnlyForOlder

=============================================================================
