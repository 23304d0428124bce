---------------------------- MODULE CommitmentsProof ----------------------------
(* The windows of the commitment handler fit those of L1, for every period,      *)
(* window, limit and list of operations.                                         *)
EXTENDS Commitments, TLAPS

LEMMA Constants ==
  /\ Operations \subseteq Nat /\ Origination \in Nat /\ Period \in Nat \ {0}
  /\ ChallengeWindow \in Nat /\ ActiveLevels \in Nat /\ Limit \in Nat
  /\ Delay \in 0 .. 4 /\ MaxCommitments \in Nat /\ MaxHead \in Nat
BY CommitmentsAssumption

LEMMA Levels ==
  ASSUME script \in Scripts
  PROVE  \A o \in Operations : Level(o) \in Nat /\ Level(o) > Origination
<1>1. script \in [Operations -> Facts]
  BY CommitmentsAssumption
<1> QED BY <1>1, CommitmentsAssumption DEF Level, Facts

\* Later commitments speak for later levels, a period apart.
LEMMA InboxGrows ==
  ASSUME NEW i \in Nat, NEW j \in Nat
  PROVE  /\ Inbox(i) \in Nat /\ Inbox(i + 1) = Inbox(i) + Period
         /\ i <= j => Inbox(i) <= Inbox(j)
<1>1. i * Period \in Nat /\ j * Period \in Nat
  BY Constants
<1>2. (i + 1) * Period = i * Period + Period
  BY Constants
<1>3. ASSUME i <= j PROVE i * Period <= j * Period
  <2>1. (j - i) \in Nat
    BY <1>3
  <2>2. (j - i) * Period >= 0
    BY <2>1, Constants
  <2>3. (j - i) * Period = j * Period - i * Period
    BY Constants
  <2> QED BY <1>1, <2>2, <2>3
<1> QED BY <1>1, <1>2, <1>3, Constants DEF Inbox

\* The level estimated for the covering commitment is the least inbox level of a
\* commitment that is not below the message: it is none that ends before the message,
\* and none below it reaches the message.
LEMMA CoveringLevel ==
  ASSUME NEW level \in Nat, NEW k \in Nat
  PROVE  LET covering == level + ((Origination - level) % Period) IN
         /\ covering \in Int
         /\ Inbox(k) >= level => Inbox(k) >= covering
         /\ Inbox(k) < level => Inbox(k) + Period <= covering
<1> DEFINE d == (Origination - level) % Period
           q == (Origination - level) \div Period
<1>1. /\ d \in Int /\ q \in Int /\ 0 <= d /\ d < Period
      /\ Origination - level = Period * q + d
  BY Constants
<1>2. Inbox(k) - level = Period * (k + q) + d
  <2>1. Inbox(k) - level = k * Period + (Origination - level)
    BY Constants DEF Inbox
  <2>2. Period * (k + q) = k * Period + Period * q
    BY <1>1, Constants
  <2> HIDE DEF d, q
  <2>3. k * Period \in Int /\ Period * q \in Int /\ Period * (k + q) \in Int
    BY <1>1, Constants
  <2> QED BY <1>1, <2>1, <2>2, <2>3, Constants
<1> HIDE DEF d, q
<1>3. PICK x \in Int : x = Period * (k + q)
  BY <1>1, Constants
<1>4. Inbox(k) \in Nat /\ Inbox(k) - level = x + d
  BY <1>2, <1>3, InboxGrows
<1>5. (k + q >= 0 => x >= 0) /\ (k + q <= -1 => x <= -Period)
  <2>1. ASSUME k + q >= 0 PROVE x >= 0
    BY <1>1, <1>3, <2>1, Constants
  <2>2. ASSUME k + q <= -1 PROVE x <= -Period
    <3>1. Period * (k + q) = Period * (k + q + 1) - Period
      BY <1>1, Constants
    <3>2. Period * (k + q + 1) <= 0
      BY <1>1, <2>2, Constants
    <3>3. Period * (k + q + 1) \in Int
      BY <1>1, Constants
    <3> QED BY <1>3, <3>1, <3>2, <3>3, Constants
  <2> QED BY <2>1, <2>2
<1>6. k + q \in Int
  BY <1>1
<1>7. Inbox(k) >= level => Inbox(k) >= level + d
  BY <1>1, <1>4, <1>5, <1>6, Constants
<1>8. Inbox(k) < level => Inbox(k) + Period <= level + d
  BY <1>1, <1>4, <1>5, <1>6, Constants
<1> QED BY <1>1, <1>7, <1>8 DEF d

-----------------------------------------------------------------------------
(* The invariant.                                                          *)

\* L1 has had the time to cement what it has cemented, and not much more.
CementedInTime ==
  /\ cemented > 0 => head >= Inbox(cemented) + 1 + ChallengeWindow
  /\ cemented < MaxCommitments => head <= Inbox(cemented + 1) + 1 + ChallengeWindow + Delay

\* An operation is opened after its level, and a message attached is one that was sent.
OpenedInTime ==
  /\ \A o \in Operations : o \in opened => Level(o) <= head
  /\ \A o \in Operations : o \notin opened => status[o] = "none"
  /\ \A w \in attached : script[w].sent

CommitmentsInv ==
  TypeOK /\ CementedInTime /\ OpenedInTime /\ SealedByCommitment /\ ClosedForCause

LEMMA InitInv == Init => CommitmentsInv
<1> SUFFICES ASSUME Init PROVE CommitmentsInv
  OBVIOUS
<1>1. TypeOK
  <2>1. status \in [Operations -> Statuses] /\ commitment \in [Operations -> Nat]
    BY DEF Init, Statuses
  <2>2. head \in Nat /\ cemented \in Nat /\ node \in 0 .. cemented /\ indexed \in 0 .. cemented
    BY Constants DEF Init
  <2> QED BY <2>1, <2>2 DEF Init, TypeOK
<1>2. CementedInTime
  <2>1. 0 + 1 = 1 /\ Inbox(1) = Inbox(0) + Period /\ Inbox(0) = Origination
    BY InboxGrows, Constants DEF Inbox
  <2> QED BY <2>1, Constants DEF Init, CementedInTime
<1>3. OpenedInTime /\ SealedByCommitment /\ ClosedForCause
  BY DEF Init, OpenedInTime, SealedByCommitment, ClosedForCause
<1> QED BY <1>1, <1>2, <1>3 DEF CommitmentsInv

\* Nothing that has left the window, for some cemented commitment, is asked a proof for.
LEMMA RefusedNotDue ==
  ASSUME CommitmentsInv, NEW k \in 0 .. cemented, NEW w \in Withdrawal, Refused(k, w), k > 0
  PROVE  w \notin Due(indexed + 1)
<1>1. Level(w) \in Nat /\ Inbox(k) \in Nat /\ Inbox(cemented) \in Nat /\ head \in Nat
  BY Levels, InboxGrows DEF CommitmentsInv, TypeOK, Withdrawal
<1>2. head >= Inbox(k) + 1 + ChallengeWindow
  <2>1. Inbox(k) <= Inbox(cemented)
    BY InboxGrows DEF CommitmentsInv, TypeOK
  <2> QED BY <1>1, <2>1, Constants DEF CommitmentsInv, CementedInTime, TypeOK
<1> QED BY <1>1, <1>2, Constants DEF Due, Refused

\* What the next commitment does: it seals, expires and times out disjoint sets.
LEMMA CementCases ==
  ASSUME CommitmentsInv, indexed < cemented, NEW proven \in Answers(indexed + 1)
  PROVE  LET k == indexed + 1 IN
         /\ k \in 1 .. cemented
         /\ \A o \in Operations :
              /\ o \in proven => /\ o \in attached \ finished /\ Covers(node, o) /\ o \in Withdrawal
                                 /\ o \notin Expire(k) /\ o \notin TimeOut(k) /\ ~Refused(indexed, o)
              /\ o \in Expire(k) => /\ o \in attached /\ Refused(k, o) /\ status[o] \in Open
                                    /\ o \notin TimeOut(k)
              /\ o \in TimeOut(k) => /\ o \in Deposit /\ Inbox(k) >= Level(o)
                                     /\ status[o] \in Open
<1> DEFINE k == indexed + 1
<1>1. k \in 1 .. cemented /\ indexed \in 0 .. cemented /\ k > 0
  BY DEF CommitmentsInv, TypeOK
<1>2. attached \subseteq Withdrawal /\ Withdrawal \subseteq Operations
  BY DEF CommitmentsInv, TypeOK, Withdrawal
<1>3. proven \subseteq {w \in Due(k) : Covers(node, w)}
  BY DEF Answers
<1>4. \A o \in Operations : o \in Expire(k) => o \in attached /\ Refused(k, o) /\ status[o] \in Open
  BY DEF Expire, Oldest, Refused
<1>5. \A o \in Operations :
        o \in TimeOut(k) => o \in Deposit /\ Inbox(k) >= Level(o) /\ status[o] \in Open
  <2>1. Inbox(k) \in Nat /\ script \in Scripts
    BY <1>1, InboxGrows DEF CommitmentsInv, TypeOK
  <2> QED BY <2>1, Levels, Constants DEF TimeOut, Oldest
<1>6. \A o \in Operations :
        o \in proven => /\ o \in attached \ finished /\ Covers(node, o) /\ o \in Withdrawal
                        /\ o \notin Expire(k) /\ o \notin TimeOut(k) /\ ~Refused(indexed, o)
  <2> SUFFICES ASSUME NEW o \in Operations, o \in proven
               PROVE  /\ o \in attached \ finished /\ Covers(node, o) /\ o \in Withdrawal
                      /\ o \notin Expire(k) /\ o \notin TimeOut(k) /\ ~Refused(indexed, o)
    OBVIOUS
  <2>1. o \in Due(k) /\ o \in attached \ finished /\ Covers(node, o) /\ o \in Withdrawal
    BY <1>2, <1>3 DEF Due
  <2>2. ~Refused(k, o)
    BY <1>1, <2>1, RefusedNotDue
  <2>3. ~Refused(indexed, o)
    <3>1. Inbox(indexed) <= Inbox(k) /\ Inbox(indexed) \in Nat /\ Inbox(k) \in Nat
      BY <1>1, InboxGrows
    <3>2. Level(o) \in Nat
      BY Levels DEF CommitmentsInv, TypeOK
    <3> QED BY <2>2, <3>1, <3>2, Constants DEF Refused
  <2> QED BY <1>4, <1>5, <2>1, <2>2, <2>3 DEF Deposit
<1> QED BY <1>1, <1>2, <1>4, <1>5, <1>6 DEF Deposit

LEMMA OnCementCommitmentInv ==
  ASSUME CommitmentsInv, OnCementCommitment
  PROVE  /\ CommitmentsInv'
         /\ \A o \in Operations : status[o] \notin Open \cup {"none"} => status'[o] \notin Open
<1> DEFINE k == indexed + 1
<1>1. PICK proven \in Answers(k) :
        /\ Stored(k, proven)
        /\ status' = [o \in Operations |-> CASE o \in proven     -> "sealed"
                                             [] o \in Expire(k)  -> "expired"
                                             [] o \in TimeOut(k) -> "timeout"
                                             [] OTHER            -> status[o]]
        /\ commitment' = [o \in Operations |-> IF o \in proven THEN node ELSE commitment[o]]
  BY DEF OnCementCommitment
<1>2. /\ ~crashed /\ indexed < cemented /\ indexed' = k
      /\ UNCHANGED <<script, chains, operations, crashed>>
  BY DEF OnCementCommitment
<1>3. /\ k \in 1 .. cemented
      /\ \A o \in Operations :
           /\ o \in proven => /\ o \in attached \ finished /\ Covers(node, o) /\ o \in Withdrawal
                              /\ o \notin Expire(k) /\ o \notin TimeOut(k) /\ ~Refused(indexed, o)
           /\ o \in Expire(k) => /\ o \in attached /\ Refused(k, o) /\ status[o] \in Open
                                 /\ o \notin TimeOut(k)
           /\ o \in TimeOut(k) => /\ o \in Deposit /\ Inbox(k) >= Level(o)
                                  /\ status[o] \in Open
  BY <1>2, CementCases
<1>4. \A o \in Operations :
        \/ o \in proven /\ status'[o] = "sealed" /\ commitment'[o] = node
        \/ o \notin proven /\ o \in Expire(k) /\ status'[o] = "expired"
        \/ o \notin proven /\ o \in TimeOut(k) /\ status'[o] = "timeout"
        \/ /\ o \notin proven /\ o \notin Expire(k) /\ o \notin TimeOut(k)
           /\ status'[o] = status[o] /\ commitment'[o] = commitment[o]
  BY <1>1, <1>3
<1> HIDE DEF k
<1>5. k \in Nat /\ indexed \in Nat /\ indexed <= k /\ Inbox(indexed) <= Inbox(k)
      /\ Inbox(indexed) \in Nat /\ Inbox(k) \in Nat
  BY <1>3, InboxGrows DEF k, CommitmentsInv, TypeOK
<1>6. /\ \A o : Level(o)' = Level(o)
      /\ \A i, o : Covers(i, o)' = Covers(i, o) /\ Refused(i, o)' = Refused(i, o)
      /\ Withdrawal' = Withdrawal /\ Deposit' = Deposit
  BY <1>2 DEF Level, Covers, Refused, Withdrawal, Deposit
<1>7. \A o \in Operations : Level(o) \in Nat
  BY Levels DEF CommitmentsInv, TypeOK
<1>8. proven # {} => node \in 1 .. k
  <2>1. \A o \in proven : o \in Operations
    BY DEF Answers, Due, CommitmentsInv, TypeOK, Withdrawal
  <2> QED BY <1>1, <1>3, <1>5, <2>1 DEF Stored, Covers, CommitmentsInv, TypeOK
<1>9. TypeOK'
  <2>1. status' \in [Operations -> Statuses]
    <3>1. DOMAIN status' = Operations /\ status' = [o \in Operations |-> status'[o]]
      BY <1>1
    <3>2. \A o \in Operations : status'[o] \in Statuses
      BY <1>4 DEF CommitmentsInv, TypeOK, Statuses, Open
    <3> QED BY <3>1, <3>2
  <2>2. commitment' \in [Operations -> Nat]
    BY <1>1 DEF CommitmentsInv, TypeOK
  <2>3. indexed' \in 0 .. cemented'
    BY <1>2, <1>3 DEF chains, k
  <2> QED BY <1>2, <1>6, <2>1, <2>2, <2>3 DEF CommitmentsInv, TypeOK, chains, operations
<1>10. CementedInTime'
  BY <1>2 DEF CommitmentsInv, CementedInTime, chains
<1>11. OpenedInTime'
  <2>1. \A o \in Operations : o \notin opened => status'[o] = "none"
    BY <1>3, <1>4 DEF CommitmentsInv, OpenedInTime, TypeOK, Open
  <2> QED BY <1>2, <1>6, <2>1 DEF CommitmentsInv, OpenedInTime, chains, operations
<1>12. SealedByCommitment'
  <2> SUFFICES ASSUME NEW w \in Operations, status'[w] = "sealed"
               PROVE  w \in attached /\ commitment'[w] \in 1 .. k /\ Covers(commitment'[w], w)
    BY <1>2, <1>6 DEF SealedByCommitment, operations, k
  <2>1. CASE w \in proven
    BY <1>3, <1>4, <1>8, <2>1
  <2>2. CASE w \notin proven
    BY <1>4, <1>5, <2>2 DEF CommitmentsInv, SealedByCommitment
  <2> QED BY <2>1, <2>2
<1>13. ClosedForCause'
  <2> SUFFICES ASSUME NEW o \in Operations
               PROVE  /\ status'[o] = "timeout" => o \in Deposit /\ Inbox(k) >= Level(o)
                      /\ status'[o] = "expired" => o \in attached /\ Refused(k, o)
                      /\ status'[o] = "finished" <=> o \in finished
    BY <1>2, <1>6 DEF ClosedForCause, operations, k
  <2>1. status[o] \in Open => o \notin finished
    BY DEF Open, CommitmentsInv, ClosedForCause
  <2>2. Refused(indexed, o) => Refused(k, o)
    BY <1>5, <1>7, Constants DEF Refused
  <2> QED BY <1>3, <1>4, <1>5, <1>7, <2>1, <2>2 DEF CommitmentsInv, ClosedForCause
<1>14. \A o \in Operations : status[o] \notin Open \cup {"none"} => status'[o] \notin Open
  <2> SUFFICES ASSUME NEW o \in Operations, status[o] \notin Open \cup {"none"}
               PROVE  status'[o] \notin Open
    OBVIOUS
  <2>1. status[o] \in {"expired", "timeout", "finished"}
    BY DEF CommitmentsInv, TypeOK, Statuses
  <2>2. o \notin proven
    <3>1. status[o] = "expired" => Refused(indexed, o)
      BY DEF CommitmentsInv, ClosedForCause
    <3>2. status[o] = "timeout" => o \notin Withdrawal
      BY DEF CommitmentsInv, ClosedForCause, Deposit
    <3>3. status[o] = "finished" => o \in finished
      BY DEF CommitmentsInv, ClosedForCause
    <3> QED BY <1>3, <2>1, <3>1, <3>2, <3>3
  <2> QED BY <1>4, <2>1, <2>2 DEF Open
<1> QED BY <1>9, <1>10, <1>11, <1>12, <1>13, <1>14 DEF CommitmentsInv

\* Steps that touch neither the rows of the operations nor the commitments of the index.
LEMMA ChainsInv ==
  ASSUME CommitmentsInv, TypeOK', CementedInTime', head <= head',
         UNCHANGED <<script, indexed, operations, status, commitment>>
  PROVE  CommitmentsInv'
<1>1. /\ \A o : Level(o)' = Level(o)
      /\ \A i, o : Covers(i, o)' = Covers(i, o) /\ Refused(i, o)' = Refused(i, o)
      /\ Withdrawal' = Withdrawal /\ Deposit' = Deposit
  BY DEF Level, Covers, Refused, Withdrawal, Deposit
<1>2. OpenedInTime'
  <2>1. head \in Nat /\ head' \in Nat /\ \A o \in Operations : Level(o) \in Nat
    BY Levels DEF CommitmentsInv, TypeOK
  <2> QED BY <1>1, <2>1 DEF CommitmentsInv, OpenedInTime, operations
<1>3. SealedByCommitment' /\ ClosedForCause'
  BY <1>1 DEF CommitmentsInv, SealedByCommitment, ClosedForCause, operations
<1> QED BY <1>2, <1>3 DEF CommitmentsInv

LEMMA TickInv == ASSUME CommitmentsInv, Tick PROVE CommitmentsInv'
<1> USE DEF CommitmentsInv, TypeOK
<1>1. head' = head + 1 /\ head <= head' /\ head' \in Nat
      /\ UNCHANGED <<script, cemented, node, executed, indexed, operations, status, commitment,
                     crashed>>
  BY DEF Tick
<1>2. TypeOK'
  BY <1>1 DEF operations, Withdrawal
<1>3. CementedInTime'
  <2>1. Inbox(cemented) \in Nat /\ Inbox(cemented + 1) \in Nat
    BY InboxGrows
  <2> QED BY <1>1, <2>1, Constants DEF Tick, CementedInTime
<1> QED BY <1>1, <1>2, <1>3, ChainsInv

LEMMA CementInv == ASSUME CommitmentsInv, Cement PROVE CommitmentsInv'
<1> USE DEF CommitmentsInv, TypeOK
<1>1. cemented' = cemented + 1 /\ head' = head /\ cemented' \in Nat
      /\ UNCHANGED <<script, head, node, executed, indexed, operations, status, commitment,
                     crashed>>
  BY DEF Cement
<1>2. TypeOK'
  BY <1>1 DEF operations, Withdrawal
<1>3. CementedInTime'
  <2>1. Inbox(cemented + 1) \in Nat /\ Inbox(cemented + 2) = Inbox(cemented + 1) + Period
    <3>1. cemented + 1 \in Nat /\ (cemented + 1) + 1 = cemented + 2
      OBVIOUS
    <3> QED BY <3>1, InboxGrows
  <2>2. cemented < MaxCommitments /\ head <= Inbox(cemented + 1) + 1 + ChallengeWindow + Delay
        /\ head >= Inbox(cemented + 1) + 1 + ChallengeWindow
    BY DEF Cement, CementedInTime
  <2>3. cemented' + 1 = cemented + 2
    BY <1>1
  <2> QED BY <1>1, <2>1, <2>2, <2>3, Constants DEF CementedInTime
<1> QED BY <1>1, <1>2, <1>3, ChainsInv

LEMMA QuietInv ==
  ASSUME CommitmentsInv,
         Refresh \/ ExecuteOutboxMessage \/ DieOnCement \/ Restart \/ UNCHANGED vars
  PROVE  CommitmentsInv'
<1> USE DEF CommitmentsInv, TypeOK
<1>1. head' = head /\ cemented' = cemented
      /\ UNCHANGED <<script, indexed, operations, status, commitment>>
  BY DEF Refresh, ExecuteOutboxMessage, DieOnCement, Restart, vars, chains
<1>2. node' \in 0 .. cemented' /\ executed' \subseteq Withdrawal' /\ crashed' \in BOOLEAN
  <2>1. CASE Refresh
    BY <2>1 DEF Refresh, Withdrawal
  <2>2. CASE ExecuteOutboxMessage
    BY <2>2 DEF ExecuteOutboxMessage, Withdrawal
  <2>3. CASE DieOnCement \/ Restart \/ UNCHANGED vars
    BY <2>3 DEF DieOnCement, Restart, vars, chains, Withdrawal
  <2> QED BY <2>1, <2>2, <2>3
<1>3. TypeOK'
  BY <1>1, <1>2 DEF operations, Withdrawal
<1>4. CementedInTime' /\ head <= head'
  BY <1>1 DEF CementedInTime
<1> QED BY <1>1, <1>3, <1>4, ChainsInv

\* The steps of the matcher: one operation is opened, gets its message or is finished.
LEMMA MatcherInv ==
  ASSUME CommitmentsInv, OpenOperation \/ Attach \/ Finish PROVE CommitmentsInv'
<1> USE DEF CommitmentsInv, TypeOK
<1>1. UNCHANGED <<script, chains, indexed, commitment, crashed>>
  BY DEF OpenOperation, Attach, Finish
<1>2. /\ \A o : Level(o)' = Level(o)
      /\ \A i, o : Covers(i, o)' = Covers(i, o) /\ Refused(i, o)' = Refused(i, o)
      /\ Withdrawal' = Withdrawal /\ Deposit' = Deposit
  BY <1>1 DEF Level, Covers, Refused, Withdrawal, Deposit
<1>3. CementedInTime'
  BY <1>1 DEF CementedInTime, chains
<1>4. CASE OpenOperation
  <2>1. PICK o \in Operations \ opened :
          /\ Level(o) <= head /\ opened' = opened \cup {o}
          /\ status' = [status EXCEPT ![o] = "created"]
    BY <1>4 DEF OpenOperation
  <2>2. UNCHANGED <<attached, finished>>
    BY <1>4 DEF OpenOperation
  <2>3. TypeOK'
    <3>1. status' \in [Operations -> Statuses]
      BY <2>1 DEF Statuses, Open
    <3> QED BY <1>1, <1>2, <2>1, <2>2, <3>1 DEF chains
  <2>4. status'[o] = "created" /\ \A p \in Operations : p # o => status'[p] = status[p]
    BY <2>1
  <2>5. OpenedInTime'
    BY <1>1, <1>2, <2>1, <2>2, <2>4 DEF OpenedInTime, chains
  <2>6. SealedByCommitment' /\ ClosedForCause'
    BY <1>1, <1>2, <2>1, <2>2, <2>4 DEF SealedByCommitment, ClosedForCause
  <2> QED BY <1>3, <2>3, <2>5, <2>6
<1>5. CASE Attach
  <2>1. PICK w \in (opened \cap Withdrawal) \ attached :
          script[w].sent /\ attached' = attached \cup {w}
    BY <1>5 DEF Attach
  <2>2. UNCHANGED <<opened, finished, status>>
    BY <1>5 DEF Attach
  <2>3. TypeOK'
    BY <1>1, <1>2, <2>1, <2>2 DEF chains
  <2>4. OpenedInTime' /\ SealedByCommitment' /\ ClosedForCause'
    BY <1>1, <1>2, <2>1, <2>2
    DEF OpenedInTime, SealedByCommitment, ClosedForCause, chains
  <2> QED BY <1>3, <2>3, <2>4
<1>6. CASE Finish
  <2>1. PICK o \in opened \ finished :
          finished' = finished \cup {o} /\ status' = [status EXCEPT ![o] = "finished"]
    BY <1>6 DEF Finish
  <2>2. UNCHANGED <<opened, attached>> /\ o \in Operations
    BY <1>6 DEF Finish
  <2>3. TypeOK'
    <3>1. status' \in [Operations -> Statuses]
      BY <2>1 DEF Statuses
    <3> QED BY <1>1, <1>2, <2>1, <2>2, <3>1 DEF chains
  <2>4. status'[o] = "finished" /\ \A p \in Operations : p # o => status'[p] = status[p]
    BY <2>1, <2>2
  <2>5. OpenedInTime'
    BY <1>1, <1>2, <2>1, <2>2, <2>4 DEF OpenedInTime, chains
  <2>6. SealedByCommitment' /\ ClosedForCause'
    BY <1>1, <1>2, <2>1, <2>2, <2>4 DEF SealedByCommitment, ClosedForCause
  <2> QED BY <1>3, <2>3, <2>5, <2>6
<1> QED BY <1>4, <1>5, <1>6

LEMMA StepInv == ASSUME CommitmentsInv, [Next]_vars PROVE CommitmentsInv'
BY TickInv, CementInv, QuietInv, MatcherInv, OnCementCommitmentInv DEF Next, Handle

\* Every seal, expiry and timeout has its cause, at every length and order of the chain,
\* the node, the index and the matcher.
THEOREM CommitmentsInvariant == Spec => []CommitmentsInv
<1>1. CommitmentsInv /\ [Next]_vars => CommitmentsInv'
  BY StepInv
<1> QED BY <1>1, InitInv, PTL DEF Spec

\* Every variable has its type.
THEOREM TypeCorrect == Spec => []TypeOK
<1>1. CommitmentsInv => TypeOK
  BY DEF CommitmentsInv
<1> QED BY <1>1, CommitmentsInvariant, PTL

\* A sealed withdrawal has a stored commitment that speaks for its message.
THEOREM SealsBacked == Spec => []SealedByCommitment
<1>1. CommitmentsInv => SealedByCommitment
  BY DEF CommitmentsInv
<1> QED BY <1>1, CommitmentsInvariant, PTL

\* A timeout, an expiry and a finish are each backed by a stored commitment or a leg.
THEOREM ClosesBacked == Spec => []ClosedForCause
<1>1. CommitmentsInv => ClosedForCause
  BY DEF CommitmentsInv
<1> QED BY <1>1, CommitmentsInvariant, PTL

\* The count that lets the handler skip the proofs hides nothing that one is asked for.
THEOREM CountSound == Spec => []CountIsSound
<1>1. ASSUME CommitmentsInv, indexed < cemented, Awaiting(indexed + 1) = {}
      PROVE  Due(indexed + 1) = {}
  <2> SUFFICES ASSUME NEW w \in Due(indexed + 1) PROVE FALSE
    OBVIOUS
  <2>1. w \in attached \ finished /\ w \in Withdrawal /\ w \in opened /\ w \in Operations
    BY <1>1 DEF Due, CommitmentsInv, TypeOK, Withdrawal
  <2>2. script[w].sent /\ Level(w) <= head
    BY <1>1, <2>1 DEF CommitmentsInv, OpenedInTime
  <2>3. ~Refused(indexed + 1, w)
    <3>1. indexed + 1 \in 0 .. cemented /\ indexed + 1 > 0
      BY <1>1 DEF CommitmentsInv, TypeOK
    <3> QED BY <1>1, <2>1, <3>1, RefusedNotDue
  <2>4. Level(w) > Inbox(indexed + 1) - ActiveLevels
    <3>1. Level(w) \in Nat /\ Inbox(indexed + 1) \in Nat
      BY <1>1, <2>1, Levels, InboxGrows DEF CommitmentsInv, TypeOK
    <3> QED BY <2>3, <3>1, Constants DEF Refused
  <2> QED BY <1>1, <2>1, <2>2, <2>4 DEF Awaiting
<1>2. CommitmentsInv => CountIsSound
  BY <1>1 DEF CountIsSound
<1> QED BY <1>2, CommitmentsInvariant, PTL

\* Every message is cemented by the level it is estimated for, and not much before.
THEOREM EstimateSound == Spec => []EstimateHolds
<1>1. ASSUME CommitmentsInv, NEW w \in Withdrawal
      PROVE  /\ head > Estimate(Level(w)) /\ Inbox(MaxCommitments) >= Level(w)
                  => Covers(cemented, w)
             /\ Covers(cemented, w) => Estimate(Level(w)) <= head + Period + 3
  <2> DEFINE covering == Level(w) + ((Origination - Level(w)) % Period)
             rounding == (Period - (ChallengeWindow % Period)) % Period
  <2>1. w \in Operations /\ Level(w) \in Nat /\ Level(w) > Origination
    BY <1>1, Levels DEF Withdrawal, CommitmentsInv, TypeOK
  <2>2. cemented \in Nat /\ head \in Nat /\ Inbox(cemented) \in Nat
        /\ Inbox(cemented + 1) = Inbox(cemented) + Period
    BY <1>1, InboxGrows DEF CommitmentsInv, TypeOK
  <2>3. /\ covering \in Int
        /\ Inbox(cemented) >= Level(w) => Inbox(cemented) >= covering
        /\ Inbox(cemented) < Level(w) => Inbox(cemented) + Period <= covering
    BY <2>1, <2>2, CoveringLevel
  <2>4. rounding \in Int /\ 0 <= rounding /\ rounding <= Period - 1
    BY Constants
  <2>5. Estimate(Level(w)) = covering + ChallengeWindow + rounding + 5
    BY DEF Estimate
  <2> HIDE DEF covering, rounding
  <2>6. ASSUME head > Estimate(Level(w)), Inbox(MaxCommitments) >= Level(w)
        PROVE  Covers(cemented, w)
    <3>1. CASE Inbox(cemented) < Level(w)
      <4>1. CASE cemented < MaxCommitments
        <5>1. head <= Inbox(cemented + 1) + 1 + ChallengeWindow + Delay
          BY <1>1, <4>1 DEF CommitmentsInv, CementedInTime
        <5> QED BY <2>2, <2>3, <2>4, <2>5, <2>6, <3>1, <5>1, Constants
      <4>2. CASE cemented >= MaxCommitments
        <5>1. Inbox(MaxCommitments) <= Inbox(cemented) /\ Inbox(MaxCommitments) \in Nat
          BY <2>2, <4>2, InboxGrows, Constants
        <5> QED BY <2>1, <2>2, <2>6, <3>1, <5>1
      <4> QED BY <2>2, <4>1, <4>2, Constants
    <3>2. CASE Inbox(cemented) >= Level(w)
      <4>1. cemented # 0
        BY <2>1, <3>2, Constants DEF Inbox
      <4> QED BY <2>2, <3>2, <4>1 DEF Covers
    <3> QED BY <2>1, <2>2, <3>1, <3>2
  <2>7. ASSUME Covers(cemented, w) PROVE Estimate(Level(w)) <= head + Period + 3
    <3>1. head >= Inbox(cemented) + 1 + ChallengeWindow /\ Inbox(cemented) >= covering
      BY <1>1, <2>3, <2>7 DEF Covers, CommitmentsInv, CementedInTime
    <3> QED BY <2>2, <2>3, <2>4, <2>5, <3>1, Constants
  <2> QED BY <2>6, <2>7
<1>2. CommitmentsInv => EstimateHolds
  BY <1>1 DEF EstimateHolds
<1> QED BY <1>2, CommitmentsInvariant, PTL

-----------------------------------------------------------------------------
(* What no step does to an operation that is closed.                       *)

\* An expiry is final: L1 executes nothing the handler has given up.
KeepsRefused == \A w \in Operations : status[w] = "expired" /\ w \notin executed => w \notin executed'

THEOREM ExpiryFinal == Spec => ExpiredForGood
<1>1. ASSUME CommitmentsInv, [Next]_vars PROVE KeepsRefused
  <2>1. CASE ExecuteOutboxMessage
    <3>1. PICK v \in Withdrawal : ~Refused(cemented, v) /\ executed' = executed \cup {v}
      BY <2>1 DEF ExecuteOutboxMessage
    <3>2. ASSUME status[v] = "expired" PROVE FALSE
      <4>1. Refused(indexed, v)
        BY <1>1, <3>2 DEF CommitmentsInv, ClosedForCause, Withdrawal
      <4>2. Inbox(indexed) <= Inbox(cemented) /\ Inbox(indexed) \in Nat /\ Inbox(cemented) \in Nat
        BY <1>1, InboxGrows DEF CommitmentsInv, TypeOK
      <4>3. Level(v) \in Nat
        BY <1>1, Levels DEF CommitmentsInv, TypeOK, Withdrawal
      <4> QED BY <3>1, <4>1, <4>2, <4>3, Constants DEF Refused
    <3> QED BY <3>1, <3>2 DEF KeepsRefused
  <2>2. CASE executed' = executed
    BY <2>2 DEF KeepsRefused
  <2>3. executed' = executed \/ ExecuteOutboxMessage
    BY <1>1 DEF Next, Tick, Cement, Refresh, OpenOperation, Attach, Finish, Handle,
       OnCementCommitment, DieOnCement, Restart, vars, chains
  <2> QED BY <2>1, <2>2, <2>3
<1>2. CommitmentsInv /\ [Next]_vars => [KeepsRefused]_vars
  BY <1>1
<1>3. ExpiredForGood <=> [][KeepsRefused]_vars
  BY DEF ExpiredForGood, KeepsRefused
<1> QED BY <1>2, <1>3, CommitmentsInvariant, PTL DEF Spec

\* update_proof seals without a look at the status, and yet opens nothing that is closed.
KeepsClosed == \A o \in Operations : status[o] \notin Open \cup {"none"} => status'[o] \notin Open

THEOREM ClosedForGood == Spec => NeverReopened
<1>1. ASSUME CommitmentsInv, [Next]_vars PROVE KeepsClosed
  <2>1. CASE OnCementCommitment
    BY <1>1, <2>1, OnCementCommitmentInv DEF KeepsClosed
  <2>2. CASE OpenOperation
    <3>1. PICK o \in Operations \ opened : status' = [status EXCEPT ![o] = "created"]
      BY <2>2 DEF OpenOperation
    <3>2. status[o] = "none" /\ \A p \in Operations : p # o => status'[p] = status[p]
      BY <1>1, <3>1 DEF CommitmentsInv, OpenedInTime, TypeOK
    <3> QED BY <3>2 DEF KeepsClosed, Open
  <2>3. CASE Finish
    <3>1. PICK o \in opened : status' = [status EXCEPT ![o] = "finished"]
      BY <2>3 DEF Finish
    <3>2. \A p \in Operations : status'[p] \in {"finished", status[p]}
      BY <1>1, <3>1 DEF CommitmentsInv, TypeOK
    <3> QED BY <3>2 DEF KeepsClosed, Open
  <2>4. CASE status' = status
    BY <2>4 DEF KeepsClosed
  <2>5. status' = status \/ OnCementCommitment \/ OpenOperation \/ Finish
    BY <1>1 DEF Next, Tick, Cement, Refresh, ExecuteOutboxMessage, Attach, Handle, DieOnCement,
       Restart, vars
  <2> QED BY <2>1, <2>2, <2>3, <2>4, <2>5
<1>2. CommitmentsInv /\ [Next]_vars => [KeepsClosed]_vars
  BY <1>1
<1>3. NeverReopened <=> [][KeepsClosed]_vars
  BY DEF NeverReopened, KeepsClosed
<1> QED BY <1>2, <1>3, CommitmentsInvariant, PTL DEF Spec

=============================================================================
