---------------------- MODULE RollupMessageIndexProof ----------------------
(***************************************************************************)
(* Proofs that the inbox index of RollupMessageIndex is safe for every value *)
(* of its constants, when rollbacks stay within one process lifetime.       *)
(***************************************************************************)
EXTENDS RollupMessageIndexInv, JournalProof, FiniteSetTheorems, WellFoundedInduction

-----------------------------------------------------------------------------
(* Sets of naturals have a least element, and bounded ones a greatest.      *)

\* The least element of a non-empty set of naturals.
LEMMA LeastNat ==
  ASSUME NEW S \in SUBSET Nat, S # {}
  PROVE  \E n \in S : \A m \in S : n <= m
<1>1. PICK x \in S : \A y \in S : ~(<<y, x>> \in OpToRel(<, Nat))
  BY NatLessThanWellFounded, WFMin
<1>2. \A y \in S : ~(y < x)
  BY <1>1 DEF OpToRel
<1> QED BY <1>2

\* The least element of a non-empty set of naturals.
LEMMA MinOfNats ==
  ASSUME NEW S \in SUBSET Nat, S # {}
  PROVE  Min(S) \in S /\ \A x \in S : Min(S) <= x
BY LeastNat DEF Min

\* The greatest element of a non-empty bounded set of naturals.
LEMMA MaxOfNats ==
  ASSUME NEW S \in SUBSET Nat, S # {}, NEW b \in Nat, \A x \in S : x <= b
  PROVE  Max(S) \in S /\ \A x \in S : x <= Max(S)
<1>1. PICK u \in {c \in Nat : \A x \in S : x <= c} :
        \A d \in {c \in Nat : \A x \in S : x <= c} : u <= d
  BY LeastNat
<1>2. u \in S
  <2> SUFFICES ASSUME u \notin S PROVE FALSE
    OBVIOUS
  <2>0. u \in Nat /\ \A x \in S : x \in Nat /\ x <= u /\ x # u
    BY <1>1
  <2>1. \A x \in S : x <= u - 1
    BY <2>0
  <2>2. u - 1 \in Nat
    <3>1. PICK x \in S : TRUE
      OBVIOUS
    <3> QED BY <2>0, <2>1, <3>1
  <2> QED BY <1>1, <2>0, <2>1, <2>2
<1> QED BY <1>1, <1>2 DEF Max
-----------------------------------------------------------------------------
(* Lemmas about the window and the pages.                                  *)

\* The window floor is the id below the first message of the window.
LEMMA Floor ==
  ASSUME TypeOK, WindowOpen
  PROVE  /\ WindowFloor \in 0 .. Len(inbox) - 1
         /\ inbox[WindowFloor + 1].level >= FirstLevel
         /\ \A i \in DOMAIN inbox : inbox[i].level >= FirstLevel => WindowFloor + 1 <= i
<1> DEFINE S == {i \in DOMAIN inbox : inbox[i].level >= FirstLevel}
<1>0. DOMAIN inbox = 1 .. Len(inbox) /\ Len(inbox) \in Nat
  BY LenProperties DEF TypeOK, TypeWorld, TypeJournal
<1>1. S \in SUBSET Nat /\ S # {}
  <2>1. S \subseteq DOMAIN inbox /\ S # {}
    BY DEF WindowOpen
  <2> HIDE DEF S
  <2> QED BY <1>0, <2>1
<1>2. Min(S) \in S /\ \A x \in S : Min(S) <= x
  BY <1>1, MinOfNats
<1>3. WindowFloor = Min(S) - 1
  BY DEF WindowFloor
<1> HIDE DEF S
<1>4. WindowFloor + 1 = Min(S) /\ Min(S) \in 1 .. Len(inbox)
  BY <1>0, <1>1, <1>2, <1>3 DEF S
<1>5. \A i \in DOMAIN inbox : inbox[i].level >= FirstLevel => Min(S) <= i
  BY <1>2 DEF S
<1>6. inbox[Min(S)].level >= FirstLevel
  BY <1>2 DEF S
<1>7. WindowFloor \in 0 .. Len(inbox) - 1
  BY <1>0, <1>1, <1>2, <1>3, <1>4
<1> QED BY <1>4, <1>5, <1>6, <1>7

\* The tables as they are now are safe.
LEMMA SafeNow ==
  ASSUME TypeOK, JournalSafe
  PROVE  SafeTables(Ids, inboxRows, queue \cup meta, outboxRows)
<1>1. Len(journal) \in Nat /\ Len(journal) \in base .. Len(journal)
  BY DEF TypeOK, TypeJournal
<1>2. \A now, table : Reverted(journal, table, now, Len(journal)) = now
  BY <1>1, RevertNothing
<1> QED BY <1>1, <1>2 DEF JournalSafe, SafeAt, Ids

\* What _inbox_cursor reads: the greatest id, or the window floor.
LEMMA CursorRead ==
  ASSUME TypeOK, Closed, JournalSafe, pc = "page"
  PROVE  /\ DbCursor \in 0 .. Len(inbox)
         /\ \A j \in Ids : j <= DbCursor
         /\ Ids = {} => DbCursor = WindowFloor
         /\ Ids # {} => DbCursor \in Ids
<1>1. Len(inbox) \in Nat /\ Ids \in SUBSET Nat
  BY DEF TypeOK, TypeWorld, TypeTables, Ids
<1>2. \A j \in Ids : j <= Len(inbox)
  BY SafeNow DEF SafeTables
<1>3. WindowFloor \in 0 .. Len(inbox)
  BY Floor, <1>1 DEF Closed
<1>4. CASE Ids = {}
  BY <1>3, <1>4 DEF DbCursor
<1>5. CASE Ids # {}
  <2>1. Max(Ids) \in Ids /\ \A j \in Ids : j <= Max(Ids)
    BY <1>1, <1>2, <1>5, MaxOfNats
  <2>2. DbCursor = Max(Ids)
    BY <1>5 DEF DbCursor
  <2>3. Max(Ids) \in Nat /\ Max(Ids) <= Len(inbox)
    BY <1>1, <1>2, <2>1
  <2> QED BY <1>1, <1>5, <2>1, <2>2, <2>3
<1> QED BY <1>4, <1>5

\* What _walk_inbox_page leaves in memory: the transfers and the levels between
\* the cursor read and the cursor reached.
LEMMA WalkRead ==
  ASSUME TypeOK, Closed, JournalSafe, WalkPage
  PROVE  /\ cursor' \in 0 .. Len(inbox) /\ cursor' \in Nat /\ DbCursor <= cursor'
         /\ inboxBatch' = {i \in DOMAIN inbox : Own(i) /\ DbCursor < i /\ i <= cursor'}
         /\ inboxBatch' \subseteq Nat
         /\ \A i \in DOMAIN inbox :
              External(i) /\ DbCursor < i /\ i <= cursor' /\ Origination <= inbox[i].level
                => inbox[i].level \in levels'
         /\ levels \subseteq levels' /\ levels' \subseteq Nat /\ staged' \subseteq Nat
<1> DEFINE page    == Page(DbCursor)
           own     == {i \in page : Own(i)}
           ext     == {i \in page : External(i)}
           learned == SinceOrigination({inbox[i].level : i \in ext})
           reached == {DbCursor} \cup {i \in page : Own(i) \/ External(i)}
<1>1. /\ inboxBatch' = own /\ levels' = levels \cup learned
      /\ staged' = staged \cup learned /\ cursor' = Max(reached) /\ pc = "page"
  BY DEF WalkPage, Reached
<1>2. /\ DOMAIN inbox = 1 .. Len(inbox) /\ Len(inbox) \in Nat
      /\ \A i \in DOMAIN inbox : inbox[i].level \in Nat
  <2>1. inbox \in Seq([kind : Kinds \cup {"external"}, level : Nat])
    BY DEF TypeOK, TypeWorld
  <2>2. DOMAIN inbox = 1 .. Len(inbox) /\ Len(inbox) \in Nat
    BY <2>1, LenProperties
  <2>3. \A i \in 1 .. Len(inbox) : inbox[i] \in [kind : Kinds \cup {"external"}, level : Nat]
    BY <2>1, ElementOfSeq
  <2> QED BY <2>2, <2>3
<1>3. DbCursor \in 0 .. Len(inbox)
  BY <1>1, CursorRead
<1>4. page = {i \in DOMAIN inbox : DbCursor < i /\ i <= DbCursor + PageLimit}
  BY DEF Page
<1>5. /\ reached \in SUBSET Nat /\ reached # {}
      /\ \A i \in reached : i <= Len(inbox) /\ i >= DbCursor
  BY <1>2, <1>3, <1>4
<1>6. cursor' \in reached /\ \A i \in reached : i <= cursor'
  <2> HIDE DEF reached
  <2> QED BY <1>1, <1>2, <1>5, MaxOfNats
<1>7. cursor' \in 0 .. Len(inbox) /\ DbCursor <= cursor' /\ cursor' \in Nat
  BY <1>2, <1>3, <1>5, <1>6
<1>8. cursor' = DbCursor \/ cursor' <= DbCursor + PageLimit
  BY <1>4, <1>6
<1>9. \A i \in DOMAIN inbox : DbCursor < i /\ i <= cursor' => i \in page
  <2> HIDE DEF page
  <2> QED BY <1>2, <1>3, <1>4, <1>7, <1>8, ConstantsAssumption DEF ConstantsAssumption
<1>10. own = {i \in DOMAIN inbox : Own(i) /\ DbCursor < i /\ i <= cursor'}
  BY <1>4, <1>6, <1>9
<1>11. \A i \in DOMAIN inbox :
         External(i) /\ DbCursor < i /\ i <= cursor' /\ Origination <= inbox[i].level
           => inbox[i].level \in learned
  BY <1>9, <1>2, ConstantsAssumption DEF ConstantsAssumption, SinceOrigination
<1>12. learned \subseteq Nat /\ own \subseteq Nat
  BY <1>2, <1>4 DEF SinceOrigination
<1> HIDE DEF own, learned
<1> QED BY <1>1, <1>7, <1>10, <1>11, <1>12 DEF TypeOK, TypeMemory

-----------------------------------------------------------------------------
(* Type correctness.                                                       *)

\* A statement adds at most one entry to the journal.
LEMMA JournalledType ==
  ASSUME TypeOK, NEW t \in Tables, NEW op \in Ops, NEW keys \in SUBSET Nat
  PROVE  /\ Journalled(t, op, keys) \in Seq(Entries(Nat, Tables, Nat))
         /\ Len(journal) <= Len(Journalled(t, op, keys))
<1> DEFINE e == [head |-> head, table |-> t, op |-> op, keys |-> keys]
<1>1. journal \in Seq(Entries(Nat, Tables, Nat)) /\ Len(journal) \in Nat
  BY DEF TypeOK, TypeJournal, Entries, Ops
<1>2. e \in Entries(Nat, Tables, Nat)
  BY DEF TypeOK, TypeWorld, Entries, Ops
<1>3. /\ Append(journal, e) \in Seq(Entries(Nat, Tables, Nat))
      /\ Len(Append(journal, e)) = Len(journal) + 1
  BY <1>1, <1>2, AppendProperties
<1> QED BY <1>1, <1>3 DEF Journalled

\* Reverted tables have the type of the tables.
LEMMA RevertTablesType ==
  ASSUME TypeOK, NEW n \in 0 .. Len(journal), RevertTables(n)
  PROVE  /\ inboxRows' \subseteq Nat /\ sentinels' \subseteq Nat
         /\ queue' \subseteq Nat /\ outboxRows' \subseteq Nat
         /\ journal' \in Seq(Entries(Nat, Tables, Nat)) /\ Len(journal') = n
<1>1. /\ journal \in Seq(Entries(Nat, Tables, Nat)) /\ Len(journal) \in Nat
      /\ n \in Nat /\ n <= Len(journal)
  BY DEF TypeOK, TypeJournal, Entries, Ops
<1>2. \A t : \A now \in SUBSET Nat : Reverted(journal, t, now, n) \in SUBSET Nat
  BY <1>1, RevertedType
<1>3. \A i \in 1 .. n : journal[i] \in Entries(Nat, Tables, Nat)
  BY <1>1, ElementOfSeq
<1>4. /\ SubSeq(journal, 1, n) \in Seq(Entries(Nat, Tables, Nat))
      /\ Len(SubSeq(journal, 1, n)) = n
  BY <1>1, <1>3, SubSeqProperties
<1> QED BY <1>2, <1>4 DEF TypeOK, TypeTables, RevertTables

\* How many entries a rollback keeps.
LEMMA Kept ==
  ASSUME TypeOK, NEW to
  PROVE  Cardinality({i \in DOMAIN journal : journal[i].head <= to}) \in 0 .. Len(journal)
<1> DEFINE S == {i \in DOMAIN journal : journal[i].head <= to}
<1>1. Len(journal) \in Nat /\ S \in SUBSET (1 .. Len(journal))
  BY LenProperties DEF TypeOK, TypeWorld, TypeJournal
<1> HIDE DEF S
<1>2. /\ IsFiniteSet(1 .. Len(journal))
      /\ Cardinality(1 .. Len(journal)) = Len(journal)
  BY <1>1, FS_Interval
<1>3. Cardinality(S) \in Nat /\ Cardinality(S) <= Len(journal)
  BY <1>1, <1>2, FS_Subset, FS_CardinalityType
<1> QED BY <1>1, <1>3 DEF S

\* Every step keeps the types.
LEMMA TypeStep ==
  ASSUME TypeOK, Closed, JournalSafe, Control, [Next]_vars
  PROVE  TypeOK'
<1> USE DEF world, tables, owed, batches, session, history
<1>1. TypeWorld'
  <2>1. CASE HeadBlock BY <2>1 DEF HeadBlock, TypeOK, TypeWorld
  <2>2. ASSUME NEW to \in 0 .. MaxHead, Rollback(to) PROVE TypeWorld'
    BY <2>2 DEF Rollback, TypeOK, TypeWorld
  <2>3. ASSUME NEW kind \in Kinds, NEW level \in 1 .. MaxLevel, Publish(kind, level)
        PROVE  TypeWorld'
    BY <2>3 DEF Publish, TypeOK, TypeWorld
  <2>4. CASE NodeApply BY <2>4 DEF NodeApply, TypeOK, TypeWorld
  <2>5. CASE UNCHANGED <<world, head>> BY <2>5 DEF TypeOK, TypeWorld
  <2> QED BY <2>1, <2>2, <2>3, <2>4, <2>5
      DEF Next, PassStep, vars, PrepareWiped, PrepareResumed, DropKey, DropBelowOrigination,
          SaveInsert, SaveDelete, StartDrain, FetchOutbox, StoreOutbox, EmptyPage, WalkPage,
          StoreInbox, KeepSentinel, DeleteSentinel, CreateSentinel, RunMatcher, Crash
<1>2. TypeTables'
  <2> USE DEF TypeOK, TypeTables
  <2>1. CASE PrepareWiped BY <2>1 DEF PrepareWiped
  <2>2. CASE DropKey BY <2>2 DEF DropKey
  <2>3. CASE DropBelowOrigination BY <2>3 DEF DropBelowOrigination, SinceOrigination
  <2>4. CASE SaveInsert BY <2>4 DEF SaveInsert, TypeMemory
  <2>5. CASE SaveDelete BY <2>5 DEF SaveDelete
  <2>6. CASE StoreOutbox BY <2>6 DEF StoreOutbox, TypeMemory
  <2>7. CASE StoreInbox BY <2>7 DEF StoreInbox, TypeMemory
  <2>8. CASE DeleteSentinel BY <2>8 DEF DeleteSentinel
  <2>9. CASE CreateSentinel BY <2>9 DEF CreateSentinel, TypeMemory
  <2>10. ASSUME NEW to \in 0 .. MaxHead, Rollback(to) PROVE TypeTables'
    BY <2>10, Kept, RevertTablesType DEF Rollback
  <2>11. CASE Crash
    <3>1. \A n \in {mark, Len(journal)} : n \in 0 .. Len(journal)
      BY LenProperties DEF TypeJournal
    <3> QED BY <2>11, <3>1, RevertTablesType DEF Crash
  <2>12. CASE UNCHANGED tables BY <2>12
  <2> QED BY <2>1, <2>2, <2>3, <2>4, <2>5, <2>6, <2>7, <2>8, <2>9, <2>10, <2>11, <2>12
      DEF Next, PassStep, vars, PrepareResumed, StartDrain, FetchOutbox, EmptyPage, WalkPage,
          KeepSentinel, HeadBlock, RunMatcher, Publish, NodeApply
<1>3. TypeJournal'
  <2>1. ASSUME NEW t \in Tables, NEW op \in Ops, NEW keys \in SUBSET Nat,
               journal' = Journalled(t, op, keys), UNCHANGED <<mark, base>>
        PROVE  TypeJournal'
    <3>1. /\ journal' \in Seq(Entries(Nat, Tables, Nat))
          /\ Len(journal) <= Len(journal')
      BY <2>1, JournalledType
    <3>2. Len(journal) \in Nat /\ Len(journal') \in Nat
      BY <3>1, LenProperties DEF TypeOK, TypeJournal
    <3>3. mark' \in 0 .. Len(journal') /\ base' \in 0 .. Len(journal')
      BY <2>1, <3>1, <3>2 DEF TypeOK, TypeJournal
    <3> QED BY <3>1, <3>3 DEF TypeJournal, Entries, Ops
  <2>2. ASSUME NEW n \in 0 .. Len(journal), RevertTables(n),
               base' \in 0 .. n, mark' \in 0 .. n
        PROVE  TypeJournal'
    BY <2>2, RevertTablesType DEF TypeJournal, Entries, Ops
  <2> USE DEF TypeOK
  <2>3. CASE SaveInsert BY <2>3, <2>1 DEF SaveInsert, TypeMemory, Tables, Ops
  <2>4. CASE SaveDelete BY <2>4, <2>1 DEF SaveDelete, TypeTables, Tables, Ops
  <2>5. CASE StoreOutbox BY <2>5, <2>1 DEF StoreOutbox, TypeMemory, Tables, Ops
  <2>6. CASE StoreInbox BY <2>6, <2>1 DEF StoreInbox, TypeMemory, Tables, Ops
  <2>7. CASE DeleteSentinel BY <2>7, <2>1 DEF DeleteSentinel, TypeTables, Tables, Ops
  <2>8. CASE CreateSentinel BY <2>8, <2>1 DEF CreateSentinel, TypeMemory, Tables, Ops
  <2>9. CASE HeadBlock BY <2>9, LenProperties DEF HeadBlock, TypeJournal
  <2>10. ASSUME NEW to \in 0 .. MaxHead, Rollback(to) PROVE TypeJournal'
    <3> DEFINE n == Cardinality({i \in DOMAIN journal : journal[i].head <= to})
    <3>1. n \in 0 .. Len(journal)
      BY Kept
    <3> HIDE DEF n
    <3>2. RevertTables(n) /\ base' = (IF n < base THEN n ELSE base) /\ mark' = n
      BY <2>10 DEF Rollback, n
    <3>3. base' \in 0 .. n /\ mark' \in 0 .. n
      BY <3>1, <3>2 DEF TypeJournal
    <3> QED BY <2>2, <3>1, <3>2, <3>3
  <2>11. CASE Crash
    <3>1. \A n \in {mark, Len(journal)} : n \in 0 .. Len(journal) /\ n \in 0 .. n
      BY LenProperties DEF TypeJournal
    <3> QED BY <2>2, <2>11, <3>1 DEF Crash
  <2>12. CASE UNCHANGED <<journal, mark, base>> BY <2>12 DEF TypeJournal
  <2> QED BY <2>3, <2>4, <2>5, <2>6, <2>7, <2>8, <2>9, <2>10, <2>11, <2>12
      DEF Next, PassStep, vars, PrepareWiped, PrepareResumed, DropKey, DropBelowOrigination,
          StartDrain, FetchOutbox, EmptyPage, WalkPage, KeepSentinel, RunMatcher, Publish,
          NodeApply
<1>4. TypeMemory'
  <2> USE DEF TypeOK, TypeMemory
  <2>1. CASE PrepareResumed BY <2>1 DEF PrepareResumed, TypeTables
  <2>2. CASE DropKey BY <2>2 DEF DropKey, TypeTables
  <2>3. CASE DropBelowOrigination BY <2>3 DEF DropBelowOrigination, SinceOrigination
  <2>4. CASE SaveDelete BY <2>4 DEF SaveDelete
  <2>5. CASE StartDrain BY <2>5 DEF StartDrain, TypeTables, TypeWorld
  <2>6. CASE FetchOutbox
    <3>1. PICK l \in levels :
            /\ levels' = (levels \ {l}) \cup Continuation(l)
            /\ staged' = (staged \ {l}) \cup Continuation(l)
            /\ outboxBatch' = outboxBatch \cup ({l} \cap Hashable)
      BY <2>6 DEF FetchOutbox
    <3>2. l \in Nat /\ Continuation(l) \subseteq Nat
      BY DEF Continuation
    <3> QED BY <2>6, <3>1, <3>2 DEF FetchOutbox
  <2>7. CASE StoreOutbox BY <2>7 DEF StoreOutbox
  <2>8. CASE EmptyPage
    <3>1. DbCursor \in Nat
      BY <2>8, CursorRead, LenProperties DEF EmptyPage, TypeWorld
    <3> QED BY <2>8, <3>1 DEF EmptyPage
  <2>9. CASE WalkPage
    <3>1. /\ cursor' \in Nat /\ inboxBatch' \subseteq Nat
          /\ levels' \subseteq Nat /\ staged' \subseteq Nat
      BY <2>9, WalkRead
    <3> QED BY <2>9, <3>1 DEF WalkPage
  <2>10. CASE StoreInbox BY <2>10 DEF StoreInbox
  <2>11. CASE KeepSentinel BY <2>11 DEF KeepSentinel, EndPass
  <2>12. CASE CreateSentinel BY <2>12 DEF CreateSentinel, EndPass
  <2>13. CASE RunMatcher BY <2>13 DEF RunMatcher
  <2>14. CASE Crash BY <2>14 DEF Crash
  <2>15. CASE UNCHANGED <<status, owed, batches, cursor, ceiling, committed, armed>> BY <2>15
  <2> QED BY <2>1, <2>2, <2>3, <2>4, <2>5, <2>6, <2>7, <2>8, <2>9, <2>10, <2>11, <2>12, <2>13,
             <2>14, <2>15
      DEF Next, PassStep, vars, PrepareWiped, SaveInsert, DeleteSentinel, HeadBlock, Rollback,
          Publish, NodeApply
<1>5. TypeControl'
  <2> USE DEF TypeOK, TypeControl
  <2>1. CASE PrepareWiped \/ PrepareResumed \/ DropKey \/ DropBelowOrigination
    BY <2>1 DEF PrepareWiped, PrepareResumed, DropKey, DropBelowOrigination
  <2>2. CASE SaveInsert \/ SaveDelete
    BY <2>2 DEF SaveInsert, SaveDelete, AfterSave, Control, Saving
  <2>3. CASE StartDrain \/ FetchOutbox \/ StoreOutbox
    BY <2>3 DEF StartDrain, FetchOutbox, StoreOutbox
  <2>4. CASE EmptyPage \/ WalkPage \/ StoreInbox
    BY <2>4 DEF EmptyPage, WalkPage, StoreInbox
  <2>5. CASE KeepSentinel \/ DeleteSentinel \/ CreateSentinel
    BY <2>5 DEF KeepSentinel, DeleteSentinel, CreateSentinel, EndPass
  <2>6. CASE HeadBlock \/ Crash BY <2>6 DEF HeadBlock, Crash
  <2>7. CASE UNCHANGED <<pc, stage>> BY <2>7
  <2> QED BY <2>1, <2>2, <2>3, <2>4, <2>5, <2>6, <2>7
      DEF Next, PassStep, vars, RunMatcher, Rollback, Publish, NodeApply
<1>6. TypeHistory'
  <2> USE DEF TypeOK, TypeHistory
  <2>1. CASE RunMatcher BY <2>1 DEF RunMatcher, TypeTables
  <2>2. ASSUME NEW to \in 0 .. MaxHead, Rollback(to) PROVE TypeHistory'
    BY <2>2 DEF Rollback, StillOffered
  <2>3. CASE Crash BY <2>3 DEF Crash, StillOffered
  <2>4. CASE UNCHANGED history BY <2>4
  <2> QED BY <2>1, <2>2, <2>3, <2>4
      DEF Next, PassStep, vars, PrepareWiped, PrepareResumed, DropKey, DropBelowOrigination,
          SaveInsert, SaveDelete, StartDrain, FetchOutbox, StoreOutbox, EmptyPage, WalkPage,
          StoreInbox, KeepSentinel, DeleteSentinel, CreateSentinel, HeadBlock, Publish, NodeApply
<1> QED BY <1>1, <1>2, <1>3, <1>4, <1>5, <1>6 DEF TypeOK

-----------------------------------------------------------------------------
(* The control flow of the process.                                        *)

\* Every step keeps the control flow consistent.
LEMMA ControlStep ==
  ASSUME TypeOK, Control, [Next]_vars
  PROVE  Control'
<1> USE DEF Control, Saving, TypeOK, TypeControl
<1>1. CASE PrepareWiped \/ PrepareResumed
  BY <1>1 DEF PrepareWiped, PrepareResumed
<1>2. CASE DropKey BY <1>2 DEF DropKey
<1>3. CASE DropBelowOrigination BY <1>3 DEF DropBelowOrigination
<1>4. CASE SaveInsert BY <1>4 DEF SaveInsert
<1>5. CASE SaveDelete BY <1>5 DEF SaveDelete, AfterSave
<1>6. CASE StartDrain \/ StoreOutbox
  BY <1>6 DEF StartDrain, StoreOutbox
<1>7. CASE EmptyPage BY <1>7 DEF EmptyPage
<1>8. CASE WalkPage BY <1>8 DEF WalkPage
<1>9. CASE StoreInbox BY <1>9 DEF StoreInbox
<1>10. CASE KeepSentinel BY <1>10 DEF KeepSentinel, EndPass
<1>11. CASE DeleteSentinel BY <1>11 DEF DeleteSentinel
<1>12. CASE CreateSentinel BY <1>12 DEF CreateSentinel, EndPass
<1>13. CASE HeadBlock BY <1>13 DEF HeadBlock
<1>14. CASE Crash BY <1>14 DEF Crash
<1>15. CASE UNCHANGED <<pc, stage, status>> BY <1>15
<1> QED BY <1>1, <1>2, <1>3, <1>4, <1>5, <1>6, <1>7, <1>8, <1>9, <1>10, <1>11, <1>12, <1>13,
           <1>14, <1>15
    DEF Next, PassStep, vars, FetchOutbox, RunMatcher, Rollback, Publish, NodeApply

\* The journal of the session.
LEMMA SessionStep ==
  ASSUME TypeOK, Control, Session, [Next]_vars
  PROVE  Session'
<1> USE DEF Session, InTransaction
<1>0. mark \in Nat /\ base \in Nat /\ Len(journal) \in Nat /\ base <= Len(journal)
  BY LenProperties DEF TypeOK, TypeJournal
<1>1. ASSUME NEW t, NEW op, NEW keys, journal' = Journalled(t, op, keys),
             UNCHANGED <<status, mark, base>>,
             status = "realtime" => pc # "idle"
      PROVE  Session'
  BY <1>1 DEF Journalled
<1>2. CASE SaveInsert \/ SaveDelete
  BY <1>1, <1>2 DEF SaveInsert, SaveDelete, session
<1>3. CASE StoreOutbox \/ StoreInbox
  BY <1>1, <1>3 DEF StoreOutbox, StoreInbox, session
<1>4. CASE DeleteSentinel \/ CreateSentinel
  BY <1>1, <1>4 DEF DeleteSentinel, CreateSentinel, session
<1>5. CASE HeadBlock
  BY <1>0, <1>5 DEF HeadBlock
<1>6. ASSUME NEW to \in 0 .. MaxHead, Rollback(to) PROVE Session'
  BY <1>6 DEF Rollback, Control
<1>7. CASE Crash
  <2>1. base' = Len(journal')
    <3> DEFINE n == IF InTransaction THEN mark ELSE Len(journal)
    <3>1. n \in 0 .. Len(journal)
      BY <1>0 DEF TypeOK, TypeJournal
    <3> HIDE DEF n
    <3>2. RevertTables(n) /\ base' = n
      BY <1>7 DEF Crash, n
    <3> QED BY <3>1, <3>2, RevertTablesType
  <2> QED BY <1>7, <2>1 DEF Crash
<1>8. CASE EmptyPage BY <1>8 DEF EmptyPage, session
<1>9. CASE UNCHANGED <<status, journal, session>> /\ (pc = "idle" => pc' = "idle")
  BY <1>9 DEF session
<1>10. CASE DropKey \/ DropBelowOrigination
  BY <1>10 DEF DropKey, DropBelowOrigination, session, Control
<1> QED BY <1>2, <1>3, <1>4, <1>5, <1>6, <1>7, <1>8, <1>9, <1>10
    DEF Next, PassStep, vars, PrepareWiped, PrepareResumed, StartDrain, FetchOutbox, WalkPage,
        KeepSentinel, RunMatcher, Publish, NodeApply, session

\* Nothing happens before the window opens.
LEMMA ClosedStep ==
  ASSUME TypeOK, Control, Closed, [Next]_vars
  PROVE  Closed'
<1> SUFFICES ASSUME ~WindowOpen' PROVE pc' = "prepare" /\ Ids' = {}
  BY DEF Closed
<1>1. ~WindowOpen
  <2>1. ASSUME NEW kind \in Kinds, NEW level \in 1 .. MaxLevel, Publish(kind, level)
        PROVE  ~WindowOpen
    <3>1. inbox \in Seq([kind : Kinds \cup {"external"}, level : Nat])
      BY DEF TypeOK, TypeWorld
    <3>2. [kind |-> kind, level |-> level] \in [kind : Kinds \cup {"external"}, level : Nat]
      OBVIOUS
    <3>3. /\ Len(inbox') = Len(inbox) + 1 /\ \A i \in 1 .. Len(inbox) : inbox'[i] = inbox[i]
          /\ inbox' \in Seq([kind : Kinds \cup {"external"}, level : Nat])
      BY <2>1, <3>1, <3>2, AppendProperties DEF Publish
    <3>4. /\ DOMAIN inbox = 1 .. Len(inbox) /\ DOMAIN inbox' = 1 .. Len(inbox')
          /\ Len(inbox) \in Nat
      BY <3>1, <3>3, LenProperties
    <3> QED BY <3>3, <3>4 DEF WindowOpen
  <2>2. CASE UNCHANGED inbox BY <2>2 DEF WindowOpen
  <2> QED BY <2>1, <2>2
      DEF Next, PassStep, vars, world, PrepareWiped, PrepareResumed, DropKey,
          DropBelowOrigination, SaveInsert, SaveDelete, StartDrain, FetchOutbox, StoreOutbox,
          EmptyPage, WalkPage, StoreInbox, KeepSentinel, DeleteSentinel, CreateSentinel,
          HeadBlock, RunMatcher, Rollback, Crash, NodeApply
<1>2. pc = "prepare" /\ Ids = {}
  BY <1>1 DEF Closed
<1>3. CASE Crash
  <2>1. ~InTransaction
    BY <1>2 DEF InTransaction, Control
  <2>2. /\ inboxRows' = Reverted(journal, "inbox", inboxRows, Len(journal))
        /\ sentinels' = Reverted(journal, "sentinel", sentinels, Len(journal))
    BY <1>3, <2>1 DEF Crash, RevertTables
  <2>3. inboxRows' = inboxRows /\ sentinels' = sentinels
    BY <2>2, RevertNothing, LenProperties DEF TypeOK, TypeJournal
  <2> QED BY <1>2, <1>3, <2>3 DEF Crash, Ids
<1>4. CASE UNCHANGED <<pc, inboxRows, sentinels>>
  BY <1>2, <1>4 DEF Ids
<1> QED BY <1>1, <1>2, <1>3, <1>4
    DEF Next, PassStep, vars, tables, PrepareWiped, PrepareResumed, DropKey,
        DropBelowOrigination, SaveInsert, SaveDelete, StartDrain, FetchOutbox, StoreOutbox,
        EmptyPage, WalkPage, StoreInbox, KeepSentinel, DeleteSentinel, CreateSentinel,
        HeadBlock, RunMatcher, Rollback, Publish, NodeApply

-----------------------------------------------------------------------------
(* The memory of the queue.                                                *)

\* Every step keeps what the process remembers in line with the rows.
LEMMA MemoryStep ==
  ASSUME TypeOK, Control, Memory, [Next]_vars
  PROVE  Memory'
<1> USE DEF Memory, Control, Saving, TypeOK, TypeControl, tables, owed, batches
<1>1. CASE PrepareWiped BY <1>1 DEF PrepareWiped, Ids
<1>2. CASE PrepareResumed BY <1>2 DEF PrepareResumed
<1>3. CASE DropKey BY <1>3 DEF DropKey
<1>4. CASE DropBelowOrigination BY <1>4 DEF DropBelowOrigination
<1>5. CASE SaveInsert BY <1>5 DEF SaveInsert
<1>6. CASE SaveDelete BY <1>6 DEF SaveDelete, AfterSave
<1>7. CASE StartDrain BY <1>7 DEF StartDrain
<1>8. CASE FetchOutbox BY <1>8 DEF FetchOutbox
<1>9. CASE StoreOutbox BY <1>9 DEF StoreOutbox
<1>10. CASE EmptyPage BY <1>10 DEF EmptyPage
<1>11. CASE WalkPage BY <1>11 DEF WalkPage
<1>12. CASE StoreInbox BY <1>12 DEF StoreInbox
<1>13. CASE KeepSentinel BY <1>13 DEF KeepSentinel, EndPass
<1>14. CASE DeleteSentinel BY <1>14 DEF DeleteSentinel
<1>15. CASE CreateSentinel BY <1>15 DEF CreateSentinel, EndPass
<1>16. CASE HeadBlock BY <1>16 DEF HeadBlock
<1>17. ASSUME NEW to \in 0 .. MaxHead, Rollback(to) PROVE Memory'
  BY <1>17 DEF Rollback
<1>18. CASE Crash BY <1>18 DEF Crash
<1>19. CASE UNCHANGED <<tables, status, owed, batches, pc, stage>> BY <1>19 DEF Ids
<1> QED BY <1>1, <1>2, <1>3, <1>4, <1>5, <1>6, <1>7, <1>8, <1>9, <1>10, <1>11, <1>12, <1>13,
           <1>14, <1>15, <1>16, <1>17, <1>18, <1>19
    DEF Next, PassStep, vars, RunMatcher, Publish, NodeApply

\* Taking the lowest owed level and answering it keeps every drained level served.
LEMMA FetchDrained ==
  ASSUME TypeOK, Drained, FetchOutbox
  PROVE  \A m \in stored \ levels' : Leads(m, levels', outboxRows \cup outboxBatch')
<1>1. PICK l \in levels :
        /\ levels' = (levels \ {l}) \cup (IF l \in Full THEN {l + 1} ELSE {})
        /\ outboxBatch' = outboxBatch \cup ({l} \cap Hashable)
  BY DEF FetchOutbox, Continuation
<1>2. l \in Nat /\ stored \subseteq Nat
  BY DEF TypeOK, TypeMemory
<1>3. ASSUME NEW m \in Nat, m <= l, NEW x \in Due(m), l <= x
      PROVE  \/ x \in Hashable => x \in outboxRows \cup outboxBatch'
             \/ \E p \in m .. x : p \in levels'
  <2>1. x \in Nat /\ m .. x-1 \subseteq Full
    BY <1>3, ConstantsAssumption DEF Due, Levels, ConstantsAssumption
  <2>2. CASE x = l
    BY <1>1, <2>2
  <2>3. CASE l < x
    <3>1. l \in Full
      BY <1>2, <1>3, <2>1, <2>3
    <3>2. l + 1 \in levels' /\ l + 1 \in m .. x
      BY <1>1, <1>2, <1>3, <2>1, <2>3, <3>1
    <3> QED BY <3>2
  <2> QED BY <1>2, <1>3, <2>1, <2>2, <2>3
<1>4. ASSUME NEW m \in stored \ levels', NEW x \in Due(m)
      PROVE  \/ x \in Hashable => x \in outboxRows \cup outboxBatch'
             \/ \E p \in m .. x : p \in levels'
  <2>1. x \in Nat /\ m <= x
    BY <1>4, ConstantsAssumption DEF Due, Levels, ConstantsAssumption
  <2>2. CASE m = l
    BY <1>2, <1>3, <1>4, <2>1, <2>2
  <2>3. CASE m # l
    <3>1. m \notin levels
      BY <1>1, <1>4, <2>3
    <3>2. Leads(m, levels, outboxRows \cup outboxBatch)
      BY <1>4, <3>1 DEF Drained, FetchOutbox
    <3>3. CASE x \in Hashable => x \in outboxRows \cup outboxBatch
      BY <1>1, <3>3
    <3>4. CASE \E p \in m .. x : p \in levels
      <4>1. PICK p \in m .. x : p \in levels
        BY <3>4
      <4>2. CASE p = l
        BY <1>2, <1>3, <1>4, <2>1, <4>1, <4>2
      <4>3. CASE p # l
        BY <1>1, <4>1, <4>3
      <4> QED BY <4>2, <4>3
    <3> QED BY <3>2, <3>3, <3>4, <1>4 DEF Leads
  <2> QED BY <2>2, <2>3
<1> QED BY <1>4 DEF Leads

\* A level drained from memory stays served.
LEMMA DrainedStep ==
  ASSUME TypeOK, Control, Memory, Drained, [Next]_vars
  PROVE  Drained'
<1> USE DEF Drained, Saving, owed, batches
<1>1. CASE PrepareResumed BY <1>1 DEF PrepareResumed
<1>2. CASE SaveInsert BY <1>2 DEF SaveInsert
<1>3. CASE SaveDelete BY <1>3 DEF SaveDelete, AfterSave, Control, TypeOK, TypeControl
<1>4. CASE StartDrain BY <1>4 DEF StartDrain
<1>5. CASE FetchOutbox BY <1>5, FetchDrained DEF FetchOutbox, tables
<1>6. CASE StoreOutbox
  <2>1. outboxRows' \cup outboxBatch' = outboxRows \cup outboxBatch
    BY <1>6 DEF StoreOutbox
  <2> QED BY <1>6, <2>1 DEF StoreOutbox
<1>7. CASE WalkPage BY <1>7 DEF WalkPage, Memory
<1>8. CASE UNCHANGED <<outboxRows, owed, batches, pc>> BY <1>8
<1>9. CASE pc' \notin {"fetch", "saveInsert", "saveDelete"} BY <1>9
<1> QED BY <1>1, <1>2, <1>3, <1>4, <1>5, <1>6, <1>7, <1>8, <1>9
    DEF Next, PassStep, vars, tables, PrepareWiped, DropKey, DropBelowOrigination, EmptyPage,
        StoreInbox, KeepSentinel, DeleteSentinel, CreateSentinel, EndPass, HeadBlock,
        RunMatcher, Rollback, Crash, Publish, NodeApply

-----------------------------------------------------------------------------
(* The page in hand.                                                       *)

\* More owed levels and more stored ones lead wherever fewer did.
LEMMA OwedMore ==
  ASSUME NEW x, NEW owing, NEW more, owing \subseteq more,
         NEW rows, NEW rowsMore, rows \subseteq rowsMore, OwedUpTo(x, owing, rows)
  PROVE  OwedUpTo(x, more, rowsMore)
BY DEF OwedUpTo, Leads

\* Deleting the drained rows of the queue loses no level that is due.
LEMMA SaveKeepsOwed ==
  ASSUME TypeOK, Memory, Drained, SaveDelete,
         NEW x, OwedUpTo(x, queue \cup meta, outboxRows)
  PROVE  OwedUpTo(x, queue' \cup meta, outboxRows)
<1>1. /\ queue' = queue \ ((stored \ levels) \cap queue)
      /\ pc = "saveDelete" /\ levels \subseteq queue /\ outboxBatch = {}
  BY DEF SaveDelete, Memory
<1>2. /\ \A i \in DOMAIN inbox : inbox[i].level \in Nat
      /\ queue \subseteq Nat
  <2>1. inbox \in Seq([kind : Kinds \cup {"external"}, level : Nat])
    BY DEF TypeOK, TypeWorld
  <2>2. DOMAIN inbox = 1 .. Len(inbox)
    BY <2>1, LenProperties
  <2>3. \A i \in 1 .. Len(inbox) : inbox[i] \in [kind : Kinds \cup {"external"}, level : Nat]
    BY <2>1, ElementOfSeq
  <2> QED BY <2>2, <2>3 DEF TypeOK, TypeTables
<1>3. ASSUME NEW k \in Nat, Leads(k, queue \cup meta, outboxRows)
      PROVE  Leads(k, queue' \cup meta, outboxRows)
  <2> SUFFICES ASSUME NEW l \in Due(k)
               PROVE  (l \in Hashable => l \in outboxRows)
                      \/ (\E m \in k .. l : m \in queue' \cup meta)
    BY DEF Leads
  <2>1. l \in Nat /\ k <= l /\ k .. l-1 \subseteq Full /\ l \in Levels
    BY ConstantsAssumption DEF Due, Levels, ConstantsAssumption
  <2>2. CASE \E m \in k .. l : m \in queue
    <3>1. PICK m \in k .. l : m \in queue
      BY <2>2
    <3>2. CASE m \in queue'
      BY <3>1, <3>2
    <3>3. CASE m \notin queue'
      <4>1. m \in stored \ levels
        BY <1>1, <3>1, <3>3
      <4>2. Leads(m, levels, outboxRows)
        <5>1. outboxRows \cup outboxBatch = outboxRows
          BY <1>1
        <5> QED BY <1>1, <4>1, <5>1 DEF Drained, Saving
      <4>3. l \in Due(m)
        BY <1>2, <2>1, <3>1 DEF Due
      <4>4. CASE \E p \in m .. l : p \in levels
        <5>1. PICK p \in m .. l : p \in levels
          BY <4>4
        <5>2. p \in k .. l /\ p \in queue'
          BY <1>1, <2>1, <3>1, <5>1
        <5> QED BY <5>2
      <4> QED BY <4>2, <4>3, <4>4 DEF Leads
    <3> QED BY <3>2, <3>3
  <2> QED BY <1>3, <2>2 DEF Leads
<1> QED BY <1>2, <1>3 DEF OwedUpTo

\* A new message changes nothing below it.
LEMMA PublishBelow ==
  ASSUME TypeOK, WindowOpen, NEW kind \in Kinds, NEW level \in 1 .. MaxLevel,
         Publish(kind, level)
  PROVE  /\ WindowFloor' = WindowFloor
         /\ Len(inbox) \in Nat /\ Len(inbox') = Len(inbox) + 1
         /\ DOMAIN inbox = 1 .. Len(inbox)
         /\ \A i \in DOMAIN inbox' : i <= Len(inbox) => i \in DOMAIN inbox /\ inbox'[i] = inbox[i]
<1>1. inbox \in Seq([kind : Kinds \cup {"external"}, level : Nat])
  BY DEF TypeOK, TypeWorld
<1>2. [kind |-> kind, level |-> level] \in [kind : Kinds \cup {"external"}, level : Nat]
  OBVIOUS
<1>3. /\ Len(inbox') = Len(inbox) + 1 /\ \A i \in 1 .. Len(inbox) : inbox'[i] = inbox[i]
      /\ inbox' \in Seq([kind : Kinds \cup {"external"}, level : Nat])
  BY <1>1, <1>2, AppendProperties DEF Publish
<1>4. /\ DOMAIN inbox = 1 .. Len(inbox) /\ DOMAIN inbox' = 1 .. Len(inbox')
      /\ Len(inbox) \in Nat
  BY <1>1, <1>3, LenProperties
<1>5. WindowFloor' = WindowFloor
  <2> DEFINE old == {i \in DOMAIN inbox : inbox[i].level >= FirstLevel}
             new == {i \in DOMAIN inbox' : inbox'[i].level >= FirstLevel}
  <2>1. old \subseteq 1 .. Len(inbox) /\ new \subseteq 1 .. Len(inbox) + 1
    BY <1>3, <1>4
  <2>2. old # {}
    BY DEF WindowOpen
  <2>3. \A i \in 1 .. Len(inbox) : i \in old <=> i \in new
    BY <1>3, <1>4
  <2>4. WindowFloor = Min(old) - 1 /\ WindowFloor' = Min(new) - 1
    BY DEF WindowFloor
  <2> HIDE DEF old, new
  <2>5. new # {}
    <3>1. PICK i \in old : TRUE
      BY <2>2
    <3> QED BY <2>1, <2>3, <3>1
  <2>6. old \in SUBSET Nat /\ new \in SUBSET Nat
    <3>1. 1 .. Len(inbox) \subseteq Nat /\ 1 .. Len(inbox) + 1 \subseteq Nat
      BY <1>4
    <3> QED BY <2>1, <3>1
  <2>7. /\ Min(old) \in old /\ \A i \in old : Min(old) <= i
        /\ Min(new) \in new /\ \A i \in new : Min(new) <= i
    BY <2>2, <2>5, <2>6, MinOfNats
  <2>8. Min(old) \in new /\ Min(old) \in 1 .. Len(inbox)
    BY <2>1, <2>3, <2>7
  <2>9. Min(new) \in 1 .. Len(inbox)
    <3>1. Min(new) <= Min(old) /\ Min(new) \in 1 .. Len(inbox) + 1
      BY <2>1, <2>7, <2>8
    <3> QED BY <1>4, <2>8, <3>1
  <2>10. Min(old) <= Min(new) /\ Min(new) <= Min(old)
    BY <2>3, <2>7, <2>8, <2>9
  <2>11. Min(old) = Min(new)
    BY <2>8, <2>9, <2>10
  <2> QED BY <2>4, <2>11
<1> QED BY <1>3, <1>4, <1>5

\* What holds up to an id that exists still does once a message is published.
LEMMA PublishKeeps ==
  ASSUME TypeOK, WindowOpen, NEW kind \in Kinds, NEW level \in 1 .. MaxLevel,
         Publish(kind, level), NEW x \in 0 .. Len(inbox), NEW rows, NEW owing, NEW stores
  PROVE  /\ RowsUpTo(x, rows) =>
              \A i \in DOMAIN inbox' :
                inbox'[i].kind = "transfer" /\ WindowFloor' < i /\ i <= x => i \in rows
         /\ OwedUpTo(x, owing, stores) =>
              \A i \in DOMAIN inbox' :
                /\ inbox'[i].kind = "external" /\ WindowFloor' < i /\ i <= x
                /\ Origination <= inbox'[i].level
                => Leads(inbox'[i].level, owing, stores)
<1>1. /\ WindowFloor' = WindowFloor /\ Len(inbox) \in Nat /\ DOMAIN inbox' = 1 .. Len(inbox')
      /\ Len(inbox') = Len(inbox) + 1
      /\ \A i \in DOMAIN inbox' : i <= Len(inbox) => i \in DOMAIN inbox /\ inbox'[i] = inbox[i]
  BY PublishBelow
<1>2. \A i \in DOMAIN inbox' : i <= x => i \in DOMAIN inbox /\ inbox'[i] = inbox[i]
  BY <1>1
<1> QED BY <1>1, <1>2 DEF RowsUpTo, OwedUpTo, Own, External

\* An id consumed below is safe to read the database at.
LEMMA CursorSafe ==
  ASSUME TypeOK, Closed, JournalSafe, pc = "page"
  PROVE  RowsUpTo(DbCursor, inboxRows) /\ OwedUpTo(DbCursor, queue \cup meta, outboxRows)
<1>1. CASE Ids = {}
  <2>1. DbCursor = WindowFloor /\ WindowFloor \in Int
    BY <1>1, CursorRead, LenProperties DEF TypeOK, TypeWorld
  <2>2. DOMAIN inbox = 1 .. Len(inbox) /\ Len(inbox) \in Nat
    BY LenProperties DEF TypeOK, TypeWorld
  <2>3. \A i \in DOMAIN inbox : ~(WindowFloor < i /\ i <= DbCursor)
    BY <2>1, <2>2
  <2> QED BY <2>3 DEF RowsUpTo, OwedUpTo
<1>2. CASE Ids # {}
  BY <1>2, CursorRead, SafeNow DEF SafeTables
<1> QED BY <1>1, <1>2

\* Whatever does not publish leaves the window where it was.
LEMMA SameWindow ==
  ASSUME UNCHANGED inbox
  PROVE  WindowFloor' = WindowFloor
BY DEF WindowFloor

\* A page that has been walked stays ready to be stored.
LEMMA WalkedStep ==
  ASSUME TypeOK, Control, Closed, JournalSafe, Memory, Walked, [Next]_vars
  PROVE  Walked'
<1> SUFFICES ASSUME stage' = "commit" PROVE Walked'
  BY DEF Walked
<1>0. Len(inbox) \in Nat /\ DOMAIN inbox = 1 .. Len(inbox) /\ Ids \subseteq Nat
  BY LenProperties DEF TypeOK, TypeWorld, TypeTables, Ids
<1>1. CASE WalkPage
  <2>1. pc = "page" /\ status # "new" /\ meta = {}
    BY <1>1 DEF WalkPage, Control, Memory
  <2>2. RowsUpTo(DbCursor, inboxRows) /\ OwedUpTo(DbCursor, queue, outboxRows)
    BY <2>1, CursorSafe
  <2>3. DbCursor \in Nat /\ \A j \in Ids : j <= DbCursor
    BY <1>0, <2>1, CursorRead
  <2>4. /\ cursor' \in 0 .. Len(inbox) /\ cursor' \in Nat /\ DbCursor <= cursor'
        /\ inboxBatch' = {i \in DOMAIN inbox : Own(i) /\ DbCursor < i /\ i <= cursor'}
        /\ \A i \in DOMAIN inbox :
              External(i) /\ DbCursor < i /\ i <= cursor' /\ Origination <= inbox[i].level
                => inbox[i].level \in levels'
    BY <1>1, WalkRead
  <2>5. UNCHANGED <<inbox, inboxRows, sentinels, queue, outboxRows>>
    BY <1>1 DEF WalkPage, world, tables
  <2>6. RowsUpTo(cursor', inboxRows \cup inboxBatch')
    BY <1>0, <2>2, <2>3, <2>4 DEF RowsUpTo
  <2>7. \A k \in levels' : Leads(k, queue \cup levels', outboxRows)
    <3> SUFFICES ASSUME NEW k \in levels', NEW l \in Due(k)
                 PROVE  \E m \in k .. l : m \in levels'
      BY DEF Leads
    <3>1. k \in Nat /\ l \in Nat /\ k <= l
      BY <1>1, WalkRead, ConstantsAssumption DEF Due, Levels, ConstantsAssumption
    <3> QED BY <3>1
  <2>8. OwedUpTo(DbCursor, queue \cup levels', outboxRows)
    BY <2>2, OwedMore
  <2>9. OwedUpTo(cursor', queue \cup levels', outboxRows)
    <3> SUFFICES ASSUME NEW i \in DOMAIN inbox, External(i), WindowFloor < i, i <= cursor',
                        Origination <= inbox[i].level
                 PROVE  Leads(inbox[i].level, queue \cup levels', outboxRows)
      BY DEF OwedUpTo
    <3>1. CASE i <= DbCursor
      BY <2>8, <3>1 DEF OwedUpTo
    <3>2. CASE DbCursor < i
      BY <2>4, <2>7, <3>2
    <3> QED BY <1>0, <2>3, <3>1, <3>2
  <2>10. /\ \A j \in Ids : j <= cursor'
         /\ inboxBatch' \cap Ids = {} /\ \A b \in inboxBatch' : b <= cursor'
    BY <1>0, <2>3, <2>4
  <2> QED BY <2>4, <2>5, <2>6, <2>9, <2>10, SameWindow
      DEF Walked, Ids, RowsUpTo, OwedUpTo, Own, External
<1>2. CASE SaveInsert
  <2>1. UNCHANGED <<inbox, inboxRows, sentinels, outboxRows, cursor, inboxBatch, levels, stage>>
        /\ queue \cup levels \subseteq queue' \cup levels'
    BY <1>2 DEF SaveInsert, world, owed, batches
  <2>2. OwedUpTo(cursor, queue' \cup levels', outboxRows)
    BY <2>1, OwedMore DEF Walked
  <2> QED BY <2>1, <2>2, SameWindow DEF Walked, Ids, RowsUpTo, OwedUpTo, Own, External
<1>3. CASE SaveDelete
  <2>1. UNCHANGED <<inbox, inboxRows, sentinels, outboxRows, cursor, inboxBatch, levels, stage>>
        /\ queue' = queue
    BY <1>3 DEF SaveDelete, world, batches, Memory, Saving
  <2> QED BY <2>1, SameWindow DEF Walked, Ids, RowsUpTo, OwedUpTo, Own, External
<1>4. ASSUME NEW kind \in Kinds, NEW level \in 1 .. MaxLevel, Publish(kind, level)
      PROVE  Walked'
  <2>1. UNCHANGED <<inboxRows, sentinels, outboxRows, queue, cursor, inboxBatch, levels, stage, pc>>
    BY <1>4 DEF Publish, tables, owed, batches
  <2>2. WindowOpen
    BY <2>1 DEF Closed, Control
  <2>3. /\ cursor \in 0 .. Len(inbox) /\ \A j \in Ids : j <= cursor
        /\ inboxBatch \cap Ids = {} /\ \A b \in inboxBatch : b <= cursor
        /\ RowsUpTo(cursor, inboxRows \cup inboxBatch)
        /\ OwedUpTo(cursor, queue \cup levels, outboxRows)
    BY <2>1 DEF Walked
  <2>4. /\ RowsUpTo(cursor, inboxRows \cup inboxBatch)'
        /\ OwedUpTo(cursor, queue \cup levels, outboxRows)'
    <3> DEFINE R == inboxRows \cup inboxBatch
               Q == queue \cup levels
    <3>1. /\ \A i \in DOMAIN inbox' :
               inbox'[i].kind = "transfer" /\ WindowFloor' < i /\ i <= cursor => i \in R
          /\ \A i \in DOMAIN inbox' :
               /\ inbox'[i].kind = "external" /\ WindowFloor' < i /\ i <= cursor
               /\ Origination <= inbox'[i].level
               => Leads(inbox'[i].level, Q, outboxRows)
      <4> HIDE DEF R, Q
      <4>1. RowsUpTo(cursor, R) /\ OwedUpTo(cursor, Q, outboxRows)
        BY <2>3 DEF R, Q
      <4> QED BY <1>4, <2>2, <2>3, <4>1, PublishKeeps
    <3>2. R' = R /\ Q' = Q /\ cursor' = cursor /\ outboxRows' = outboxRows
      BY <2>1
    <3> QED BY <3>1, <3>2 DEF RowsUpTo, OwedUpTo, Own, External
  <2>5. cursor \in 0 .. Len(inbox')
    BY <1>4, <2>2, <2>3, PublishBelow
  <2> QED BY <2>1, <2>3, <2>4, <2>5 DEF Walked, Ids
<1>5. CASE UNCHANGED <<inbox, inboxRows, sentinels, outboxRows, queue, cursor, inboxBatch, levels,
                       stage>>
  BY <1>5, SameWindow DEF Walked, Ids, RowsUpTo, OwedUpTo, Own, External
<1> QED BY <1>1, <1>2, <1>3, <1>4, <1>5
    DEF Next, PassStep, vars, world, tables, owed, batches, Control, Saving, PrepareWiped,
        PrepareResumed, DropKey, DropBelowOrigination, StartDrain, FetchOutbox, StoreOutbox,
        EmptyPage, StoreInbox, KeepSentinel, DeleteSentinel, CreateSentinel, EndPass,
        HeadBlock, RunMatcher, Rollback, Crash, NodeApply

\* A page that has been stored stays safe to stand on.
LEMMA StoredStep ==
  ASSUME TypeOK, Control, Closed, JournalSafe, Memory, Drained, Walked, Stored, [Next]_vars
  PROVE  Stored'
<1> SUFFICES ASSUME stage' = "second" PROVE Stored'
  BY DEF Stored
<1> USE DEF Stored, Ids, RowsUpTo, OwedUpTo, Own, External
<1>1. CASE EmptyPage
  <2>1. /\ pc = "page" /\ meta = {} /\ cursor' = DbCursor /\ pc' = "drain"
        /\ UNCHANGED <<inbox, inboxRows, sentinels, queue, outboxRows>>
    BY <1>1 DEF EmptyPage, Control, Memory, world, tables
  <2>2. /\ DbCursor \in 0 .. Len(inbox) /\ \A j \in Ids : j <= DbCursor
        /\ RowsUpTo(DbCursor, inboxRows) /\ OwedUpTo(DbCursor, queue, outboxRows)
    BY <2>1, CursorRead, CursorSafe
  <2> QED BY <2>1, <2>2, SameWindow
<1>2. CASE StoreInbox
  <2>1. /\ pc = "storeInbox" /\ stage = "commit" /\ levels \subseteq queue /\ pc' = "drain"
        /\ inboxRows' = inboxRows \cup inboxBatch
        /\ UNCHANGED <<inbox, sentinels, queue, outboxRows, cursor>>
    BY <1>2 DEF StoreInbox, Control, Memory, world
  <2>2. queue \cup levels = queue
    BY <2>1
  <2> QED BY <2>1, <2>2, SameWindow DEF Walked
<1>3. CASE SaveInsert
  <2>1. /\ UNCHANGED <<inbox, inboxRows, sentinels, outboxRows, cursor, stage>>
        /\ queue \subseteq queue' /\ pc' # "createSentinel"
    BY <1>3 DEF SaveInsert, world
  <2>2. OwedUpTo(cursor, queue', outboxRows)
    BY <2>1, OwedMore
  <2> QED BY <2>1, <2>2, SameWindow
<1>4. CASE SaveDelete
  <2>1. /\ UNCHANGED <<inbox, inboxRows, sentinels, outboxRows, cursor, stage>>
        /\ pc' # "createSentinel" /\ meta = {}
    BY <1>4 DEF SaveDelete, world, AfterSave, Control, Memory
  <2>2. OwedUpTo(cursor, queue', outboxRows)
    <3> HIDE DEF OwedUpTo
    <3>1. OwedUpTo(cursor, queue \cup meta, outboxRows) /\ queue' \cup meta = queue'
      BY <2>1
    <3>2. OwedUpTo(cursor, queue' \cup meta, outboxRows)
      BY <1>4, <3>1, SaveKeepsOwed
    <3> QED BY <3>1, <3>2
  <2> QED BY <2>1, <2>2, SameWindow
<1>5. CASE StoreOutbox
  <2>1. /\ UNCHANGED <<inbox, inboxRows, sentinels, queue, cursor, stage>>
        /\ outboxRows \subseteq outboxRows' /\ pc' # "createSentinel"
    BY <1>5 DEF StoreOutbox, world
  <2>2. OwedUpTo(cursor, queue, outboxRows')
    BY <2>1, OwedMore
  <2> QED BY <2>1, <2>2, SameWindow
<1>6. CASE DeleteSentinel
  <2>1. /\ UNCHANGED <<inbox, inboxRows, queue, outboxRows, cursor, stage>>
        /\ cursor \notin Ids /\ sentinels' = sentinels \ {x \in sentinels : x < cursor}
    BY <1>6 DEF DeleteSentinel, world
  <2>2. \A x \in sentinels : x \in Nat /\ x <= cursor /\ x # cursor
    BY <1>6, <2>1 DEF DeleteSentinel, Control, TypeOK, TypeTables
  <2>3. cursor \in Nat
    BY DEF TypeOK, TypeMemory
  <2>4. sentinels' = {} /\ cursor \notin inboxRows
    BY <2>1, <2>2, <2>3
  <2> QED BY <1>6, <2>1, <2>4, SameWindow DEF DeleteSentinel, Control
<1>7. ASSUME NEW kind \in Kinds, NEW level \in 1 .. MaxLevel, Publish(kind, level)
      PROVE  Stored'
  <2>1. UNCHANGED <<inboxRows, sentinels, outboxRows, queue, cursor, stage, pc>>
    BY <1>7 DEF Publish, tables
  <2>2. WindowOpen
    BY <2>1 DEF Closed, Control
  <2>3. /\ cursor \in 0 .. Len(inbox) /\ \A j \in Ids : j <= cursor
        /\ RowsUpTo(cursor, inboxRows) /\ OwedUpTo(cursor, queue, outboxRows)
    BY <2>1
  <2>4. RowsUpTo(cursor, inboxRows)' /\ OwedUpTo(cursor, queue, outboxRows)'
    BY <1>7, <2>1, <2>2, <2>3, PublishKeeps
  <2>5. cursor \in 0 .. Len(inbox')
    BY <1>7, <2>2, <2>3, PublishBelow
  <2> QED BY <2>1, <2>3, <2>4, <2>5
<1>8. CASE /\ UNCHANGED <<inbox, inboxRows, sentinels, outboxRows, queue, cursor, stage>>
           /\ pc' = "createSentinel" => pc = "createSentinel"
  BY <1>8, SameWindow
<1> QED BY <1>1, <1>2, <1>3, <1>4, <1>5, <1>6, <1>7, <1>8
    DEF Next, PassStep, vars, world, tables, Control, Saving, PrepareWiped, PrepareResumed,
        DropKey, DropBelowOrigination, StartDrain, FetchOutbox, WalkPage, KeepSentinel,
        CreateSentinel, EndPass, HeadBlock, RunMatcher, Rollback, Crash, NodeApply

-----------------------------------------------------------------------------
(* The tables, at every statement.                                         *)

\* What holds up to an id holds up to the ids below it.
LEMMA UpToLess ==
  ASSUME TypeOK, NEW x \in Nat, NEW y \in Nat, y <= x, NEW rows, NEW owing, NEW stores
  PROVE  /\ RowsUpTo(x, rows) => RowsUpTo(y, rows)
         /\ OwedUpTo(x, owing, stores) => OwedUpTo(y, owing, stores)
<1>1. \A i \in DOMAIN inbox : i <= y => i <= x
  BY LenProperties DEF TypeOK, TypeWorld
<1> QED BY <1>1 DEF RowsUpTo, OwedUpTo

\* The tables are safe to resume from after every statement.
LEMMA TablesStep ==
  ASSUME TypeOK, Control, JournalSafe, Memory, Drained, Walked, Stored,
         PassStep \/ HeadBlock \/ RunMatcher \/ NodeApply
  PROVE  SafeTables(Ids', inboxRows', queue' \cup meta', outboxRows')
<1>0. SafeTables(Ids, inboxRows, queue \cup meta, outboxRows)
  BY SafeNow
<1>1. CASE Ids' = {}
  BY <1>1 DEF SafeTables
<1>2. CASE /\ UNCHANGED <<inboxRows, sentinels>> /\ outboxRows \subseteq outboxRows'
           /\ queue \cup meta \subseteq queue' \cup meta'
  BY <1>0, <1>2, OwedMore DEF SafeTables, Ids
<1>3. CASE DropKey
  BY <1>1, <1>2, <1>3 DEF DropKey, Control, Memory, Ids
<1>4. CASE DropBelowOrigination
  <2>1. /\ meta = {} /\ UNCHANGED <<inbox, inboxRows, sentinels, outboxRows, meta>>
        /\ queue' = queue \/ queue' = {l \in queue : l >= Origination}
    BY <1>4 DEF DropBelowOrigination, SinceOrigination, Memory, world
  <2>2. ASSUME NEW x, OwedUpTo(x, queue, outboxRows) PROVE OwedUpTo(x, queue', outboxRows)
    <3> SUFFICES ASSUME NEW i \in DOMAIN inbox, Origination <= inbox[i].level,
                        Leads(inbox[i].level, queue, outboxRows)
                 PROVE  Leads(inbox[i].level, queue', outboxRows)
      BY <2>2 DEF OwedUpTo
    <3>1. inbox[i].level \in Nat
      <4>1. inbox \in Seq([kind : Kinds \cup {"external"}, level : Nat])
        BY DEF TypeOK, TypeWorld
      <4>2. i \in 1 .. Len(inbox)
        BY <4>1, LenProperties
      <4>3. inbox[i] \in [kind : Kinds \cup {"external"}, level : Nat]
        BY <4>1, <4>2, ElementOfSeq
      <4> QED BY <4>3
    <3>2. ASSUME NEW l \in Nat, NEW m \in inbox[i].level .. l, m \in queue PROVE m \in queue'
      BY <2>1, <3>1, <3>2, ConstantsAssumption DEF ConstantsAssumption
    <3>3. \A l \in Due(inbox[i].level) : l \in Nat
      BY ConstantsAssumption DEF Due, Levels, ConstantsAssumption
    <3> QED BY <3>2, <3>3 DEF Leads
  <2>3. queue \cup meta = queue /\ queue' \cup meta' = queue'
    BY <2>1
  <2> QED BY <1>0, <2>1, <2>2, <2>3 DEF SafeTables, Ids
<1>5. CASE SaveDelete
  <2>1. UNCHANGED <<inboxRows, sentinels, outboxRows, meta>>
    BY <1>5 DEF SaveDelete
  <2> QED BY <1>0, <1>5, <2>1, SaveKeepsOwed DEF SafeTables, Ids
<1>6. CASE StoreInbox
  <2>1. /\ inboxRows' = inboxRows \cup inboxBatch /\ levels \subseteq queue
        /\ UNCHANGED <<sentinels, queue, meta, outboxRows>> /\ stage = "commit"
    BY <1>6 DEF StoreInbox, Memory, Control
  <2>2. /\ cursor \in 0 .. Len(inbox) /\ cursor \in Nat /\ Len(inbox) \in Nat
        /\ RowsUpTo(cursor, inboxRows') /\ OwedUpTo(cursor, queue \cup levels, outboxRows)
        /\ \A j \in Ids' : j <= cursor /\ j \in Nat
    BY <2>1, LenProperties DEF Walked, Ids, TypeOK, TypeWorld, TypeTables, TypeMemory
  <2>3. OwedUpTo(cursor, queue' \cup meta', outboxRows')
    <3>1. queue \cup levels \subseteq queue' \cup meta' /\ outboxRows \subseteq outboxRows'
      BY <2>1
    <3> QED BY <2>2, <3>1, OwedMore
  <2>4. \A j \in Ids' : /\ RowsUpTo(j, inboxRows')
                         /\ OwedUpTo(j, queue' \cup meta', outboxRows')
    BY <2>2, <2>3, UpToLess
  <2>5. \A j \in Ids' : j \in 0 .. Len(inbox)
    BY <2>2
  <2> QED BY <2>4, <2>5 DEF SafeTables
<1>7. CASE DeleteSentinel
  <2>1. Ids' \subseteq Ids /\ UNCHANGED <<inboxRows, queue, meta, outboxRows>>
    BY <1>7 DEF DeleteSentinel, Ids
  <2> QED BY <1>0, <2>1 DEF SafeTables
<1>8. CASE CreateSentinel
  <2>1. Ids' = Ids \cup {cursor} /\ UNCHANGED <<inboxRows, queue, meta, outboxRows>>
        /\ stage = "second"
    BY <1>8 DEF CreateSentinel, Ids, Control
  <2>2. OwedUpTo(cursor, queue \cup meta, outboxRows)
    <3>1. OwedUpTo(cursor, queue, outboxRows) /\ queue \subseteq queue \cup meta
      BY <2>1 DEF Stored
    <3> QED BY <3>1, OwedMore
  <2> QED BY <1>0, <2>1, <2>2 DEF SafeTables, Stored
<1> QED BY <1>1, <1>2, <1>3, <1>4, <1>5, <1>6, <1>7, <1>8
    DEF PassStep, tables, Ids, PrepareWiped, PrepareResumed, SaveInsert, StartDrain, FetchOutbox,
        StoreOutbox, EmptyPage, WalkPage, KeepSentinel, HeadBlock, RunMatcher, NodeApply

-----------------------------------------------------------------------------
(* The tables, after every revert.                                         *)

\* A journalled statement reverts to the table it was made on.
LEMMA StatementReverts ==
  ASSUME TypeOK, status = "realtime", NEW t \in Tables, NEW op \in Ops,
         NEW keys \in SUBSET Nat, NEW n \in 0 .. Len(journal), NEW now, NEW then,
         \A k : k \in keys => (k \in now <=> op = "DELETE"),
         \A k : k \notin keys => (k \in then <=> k \in now)
  PROVE  Reverted(Journalled(t, op, keys), t, then, n) = Reverted(journal, t, now, n)
<1> DEFINE e == [head |-> head, table |-> t, op |-> op, keys |-> keys]
<1>1. journal \in Seq(Entries(Nat, Tables, Nat)) /\ e \in Entries(Nat, Tables, Nat)
  BY DEF TypeOK, TypeJournal, TypeWorld, Entries, Ops
<1>2. CASE keys = {}
  <2>1. \A k : k \in Reverted(journal, t, then, n) <=> k \in Reverted(journal, t, now, n)
    BY <1>2, RevertedMember
  <2> QED BY <1>2, <2>1 DEF Journalled
<1>3. CASE keys # {}
  <2>1. Journalled(t, op, keys) = Append(journal, e) /\ e.table = t
        /\ e.keys = keys /\ e.op = op
    BY <1>3 DEF Journalled
  <2> HIDE DEF e
  <2>2. Reverted(Append(journal, e), e.table, then, n) = Reverted(journal, e.table, now, n)
    <3>1. Makes(e, now, then)
      BY <2>1 DEF Makes
    <3> QED BY <1>1, <3>1, RevertEntry
  <2> QED BY <2>1, <2>2
<1> QED BY <1>2, <1>3

\* ... and the other tables to what they were.
LEMMA StatementElsewhere ==
  ASSUME TypeOK, NEW t \in Tables, NEW op \in Ops, NEW keys \in SUBSET Nat,
         NEW n \in 0 .. Len(journal), NEW u, u # t, NEW now
  PROVE  Reverted(Journalled(t, op, keys), u, now, n) = Reverted(journal, u, now, n)
<1> DEFINE e == [head |-> head, table |-> t, op |-> op, keys |-> keys]
<1>1. journal \in Seq(Entries(Nat, Tables, Nat)) /\ e \in Entries(Nat, Tables, Nat)
  BY DEF TypeOK, TypeJournal, TypeWorld, Entries, Ops
<1>2. e.table = t
  OBVIOUS
<1>3. Reverted(Append(journal, e), u, now, n) = Reverted(journal, u, now, n)
  <2> HIDE DEF e
  <2> QED BY <1>1, <1>2, RevertOther
<1> QED BY <1>3 DEF Journalled

\* Safe tables stay safe while TzKT publishes nothing.
LEMMA SafeSame ==
  ASSUME UNCHANGED inbox, NEW ids, NEW rows, NEW owing, NEW outbox,
         SafeTables(ids, rows, owing, outbox)
  PROVE  SafeTables(ids, rows, owing, outbox)'
BY SameWindow DEF SafeTables, RowsUpTo, OwedUpTo, Own, External

\* Outside a realtime pass only the tables as they are can be reverted to.
LEMMA SafeWithoutJournal ==
  ASSUME TypeOK', base' = Len(journal'), SafeTables(Ids, inboxRows, queue \cup meta, outboxRows)'
  PROVE  JournalSafe'
<1>1. Len(journal') \in Nat
  BY LenProperties DEF TypeOK, TypeJournal
<1>2. \A now, table : Reverted(journal', table, now, Len(journal')) = now
  BY <1>1, RevertNothing
<1>3. SafeAt(Len(journal))'
  BY <1>2 DEF SafeAt, Ids
<1>4. \A n \in base' .. Len(journal') : n = Len(journal')
  BY <1>1
<1> QED BY <1>3, <1>4 DEF JournalSafe

\* The same, of the state at hand.
LEMMA SafeIdle ==
  ASSUME TypeOK, base = Len(journal), SafeTables(Ids, inboxRows, queue \cup meta, outboxRows)
  PROVE  JournalSafe
<1>1. Len(journal) \in Nat
  BY LenProperties DEF TypeOK, TypeJournal
<1>2. \A now, table : Reverted(journal, table, now, Len(journal)) = now
  BY <1>1, RevertNothing
<1>3. SafeAt(Len(journal))
  BY <1>2 DEF SafeAt, Ids
<1>4. \A n \in base .. Len(journal) : n = Len(journal)
  BY <1>1
<1> QED BY <1>3, <1>4 DEF JournalSafe

\* What one statement changed, a revert of it takes back.
LEMMA SafeWithJournal ==
  ASSUME TypeOK, TypeOK', JournalSafe, UNCHANGED <<inbox, base, meta>>,
         Len(journal') <= Len(journal) + 1,
         \A n \in 0 .. Len(journal) :
           /\ Reverted(journal', "inbox", inboxRows', n) = Reverted(journal, "inbox", inboxRows, n)
           /\ Reverted(journal', "sentinel", sentinels', n)
                = Reverted(journal, "sentinel", sentinels, n)
           /\ Reverted(journal', "queue", queue', n) = Reverted(journal, "queue", queue, n)
           /\ Reverted(journal', "outbox", outboxRows', n)
                = Reverted(journal, "outbox", outboxRows, n),
         SafeTables(Ids', inboxRows', queue' \cup meta', outboxRows')
  PROVE  JournalSafe'
<1>1. Len(journal') \in Nat /\ Len(journal) \in Nat /\ base \in Nat
  BY LenProperties DEF TypeOK, TypeJournal
<1>2. \A ids, rows, owing, outbox :
        SafeTables(ids, rows, owing, outbox) => SafeTables(ids, rows, owing, outbox)'
  BY SafeSame
<1>3. \A n \in base .. Len(journal) : SafeAt(n)'
  <2> SUFFICES ASSUME NEW n \in base .. Len(journal) PROVE SafeAt(n)'
    OBVIOUS
  <2>1. n \in 0 .. Len(journal) /\ SafeAt(n)
    BY <1>1 DEF JournalSafe
  <2>2. SafeTables(Reverted(journal', "inbox", inboxRows', n)
                     \cup Reverted(journal', "sentinel", sentinels', n),
                   Reverted(journal', "inbox", inboxRows', n),
                   Reverted(journal', "queue", queue', n) \cup meta',
                   Reverted(journal', "outbox", outboxRows', n))
    BY <2>1 DEF SafeAt
  <2> HIDE DEF SafeTables
  <2> QED BY <1>2, <2>2 DEF SafeAt
<1>4. SafeAt(Len(journal))'
  <2>1. \A now, table : Reverted(journal', table, now, Len(journal')) = now
    BY <1>1, RevertNothing
  <2>2. SafeTables(inboxRows' \cup sentinels', inboxRows', queue' \cup meta', outboxRows')
    BY DEF Ids
  <2> HIDE DEF SafeTables
  <2>3. SafeTables(inboxRows \cup sentinels, inboxRows, queue \cup meta, outboxRows)'
    BY <1>2, <2>2
  <2> QED BY <2>1, <2>3 DEF SafeAt
<1>5. \A n \in base' .. Len(journal') : n \in base .. Len(journal) \/ n = Len(journal')
  BY <1>1
<1> QED BY <1>3, <1>4, <1>5 DEF JournalSafe

\* A statement of a realtime pass leaves every revert safe.
LEMMA SafeStatement ==
  ASSUME TypeOK, TypeOK', JournalSafe, UNCHANGED <<inbox, base, meta>>, status = "realtime",
         NEW t \in Tables, NEW op \in Ops, NEW keys \in SUBSET Nat,
         journal' = Journalled(t, op, keys),
         t # "inbox" => UNCHANGED inboxRows,
         t # "sentinel" => UNCHANGED sentinels,
         t # "queue" => UNCHANGED queue,
         t # "outbox" => UNCHANGED outboxRows,
         NEW now, NEW then,
         t = "inbox" => now = inboxRows /\ then = inboxRows',
         t = "sentinel" => now = sentinels /\ then = sentinels',
         t = "queue" => now = queue /\ then = queue',
         t = "outbox" => now = outboxRows /\ then = outboxRows',
         \A k : k \in keys => (k \in now <=> op = "DELETE"),
         \A k : k \notin keys => (k \in then <=> k \in now),
         SafeTables(Ids', inboxRows', queue' \cup meta', outboxRows')
  PROVE  JournalSafe'
<1>1. Len(journal') <= Len(journal) + 1
  <2>1. journal \in Seq(Entries(Nat, Tables, Nat))
    BY DEF TypeOK, TypeJournal, Entries, Ops
  <2>2. [head |-> head, table |-> t, op |-> op, keys |-> keys] \in Entries(Nat, Tables, Nat)
    BY DEF TypeOK, TypeWorld, Entries, Ops
  <2> QED BY <2>1, <2>2, AppendProperties, LenProperties DEF Journalled
<1>2. \A n \in 0 .. Len(journal) :
        Reverted(journal', t, then, n) = Reverted(journal, t, now, n)
  BY StatementReverts
<1>3. \A n \in 0 .. Len(journal) : \A u, rows :
        u # t => Reverted(journal', u, rows, n) = Reverted(journal, u, rows, n)
  BY StatementElsewhere
<1>4. \A n \in 0 .. Len(journal) :
        /\ Reverted(journal', "inbox", inboxRows', n) = Reverted(journal, "inbox", inboxRows, n)
        /\ Reverted(journal', "sentinel", sentinels', n)
             = Reverted(journal, "sentinel", sentinels, n)
        /\ Reverted(journal', "queue", queue', n) = Reverted(journal, "queue", queue, n)
        /\ Reverted(journal', "outbox", outboxRows', n)
             = Reverted(journal, "outbox", outboxRows, n)
  <2> TAKE n \in 0 .. Len(journal)
  <2>1. Reverted(journal', "inbox", inboxRows', n) = Reverted(journal, "inbox", inboxRows, n)
    BY <1>2, <1>3
  <2>2. Reverted(journal', "sentinel", sentinels', n) = Reverted(journal, "sentinel", sentinels, n)
    BY <1>2, <1>3
  <2>3. Reverted(journal', "queue", queue', n) = Reverted(journal, "queue", queue, n)
    BY <1>2, <1>3
  <2>4. Reverted(journal', "outbox", outboxRows', n) = Reverted(journal, "outbox", outboxRows, n)
    BY <1>2, <1>3
  <2> QED BY <2>1, <2>2, <2>3, <2>4
<1> QED BY <1>1, <1>4, SafeWithJournal

\* Every step keeps every revert safe.  A rollback must not reach past the
\* entries of this process: what an earlier process wrote before its restart is
\* reverted under backfilled rows that are not.
LEMMA JournalStep ==
  ASSUME ~RollbackAcrossRestart, TypeOK, TypeOK', Inv, Session', [Next]_vars
  PROVE  JournalSafe'
<1> USE DEF Inv
<1>0. Len(journal) \in Nat /\ base \in 0 .. Len(journal) /\ mark \in 0 .. Len(journal)
  BY LenProperties DEF TypeOK, TypeJournal
<1>1. CASE UNCHANGED <<inbox, tables, journal, base>>
  <2>1. \A n : SafeAt(n) => SafeAt(n)'
    BY <1>1, SafeSame DEF SafeAt, tables
  <2> QED BY <1>1, <2>1 DEF JournalSafe
<1>2. CASE PassStep
  <2>1. SafeTables(Ids', inboxRows', queue' \cup meta', outboxRows')
    BY <1>2, TablesStep
  <2>2. UNCHANGED <<inbox, base>>
    BY <1>2 DEF PassStep, PrepareWiped, PrepareResumed, DropKey, DropBelowOrigination,
         SaveInsert, SaveDelete, StartDrain, FetchOutbox, StoreOutbox, EmptyPage, WalkPage,
         StoreInbox, KeepSentinel, DeleteSentinel, CreateSentinel, world, session
  <2>3. CASE status' # "realtime"
    <3>1. base' = Len(journal')
      BY <2>3 DEF Session
    <3>2. SafeTables(Ids, inboxRows, queue \cup meta, outboxRows)'
      BY <2>1, <2>2, SafeSame
    <3> QED BY <3>1, <3>2, SafeWithoutJournal
  <2>4. CASE SaveInsert /\ status = "realtime"
    <3> DEFINE learned == (levels \ stored) \ queue
    <3>1. learned \in SUBSET Nat /\ "queue" \in Tables /\ "INSERT" \in Ops
      BY DEF TypeOK, TypeMemory, Tables, Ops
    <3>2. /\ journal' = Journalled("queue", "INSERT", learned) /\ queue' = queue \cup learned
          /\ UNCHANGED <<inboxRows, sentinels, outboxRows, meta>>
      BY <2>4 DEF SaveInsert
    <3> QED BY <2>1, <2>2, <2>4, <3>1, <3>2, SafeStatement
  <2>5. CASE SaveDelete /\ status = "realtime"
    <3> DEFINE drained == (stored \ levels) \cap queue
    <3>1. drained \in SUBSET Nat /\ "queue" \in Tables /\ "DELETE" \in Ops
      BY DEF TypeOK, TypeMemory, Tables, Ops
    <3>2. /\ journal' = Journalled("queue", "DELETE", drained) /\ queue' = queue \ drained
          /\ UNCHANGED <<inboxRows, sentinels, outboxRows, meta>>
      BY <2>5 DEF SaveDelete
    <3> QED BY <2>1, <2>2, <2>5, <3>1, <3>2, SafeStatement
  <2>6. CASE StoreOutbox /\ status = "realtime"
    <3> DEFINE new == outboxBatch \ outboxRows
    <3>1. new \in SUBSET Nat /\ "outbox" \in Tables /\ "INSERT" \in Ops
      BY DEF TypeOK, TypeMemory, Tables, Ops
    <3>2. /\ journal' = Journalled("outbox", "INSERT", new) /\ outboxRows' = outboxRows \cup new
          /\ UNCHANGED <<inboxRows, sentinels, queue, meta>>
      BY <2>6 DEF StoreOutbox
    <3>3. /\ \A k : k \in new => (k \in outboxRows <=> "INSERT" = "DELETE")
          /\ \A k : k \notin new => (k \in outboxRows' <=> k \in outboxRows)
      BY <3>2
    <3> HIDE DEF new
    <3> QED BY <2>1, <2>2, <2>6, <3>1, <3>2, <3>3, SafeStatement
  <2>7. CASE StoreInbox /\ status = "realtime"
    <3>1. inboxBatch \in SUBSET Nat /\ "inbox" \in Tables /\ "INSERT" \in Ops
      BY DEF TypeOK, TypeMemory, Tables, Ops
    <3>2. /\ journal' = Journalled("inbox", "INSERT", inboxBatch)
          /\ inboxRows' = inboxRows \cup inboxBatch /\ inboxBatch \cap inboxRows = {}
          /\ UNCHANGED <<sentinels, queue, outboxRows, meta>>
      BY <2>7 DEF StoreInbox, Control, Walked, Ids
    <3> QED BY <2>1, <2>2, <2>7, <3>1, <3>2, SafeStatement
  <2>8. CASE DeleteSentinel /\ status = "realtime"
    <3> DEFINE below == {x \in sentinels : x < cursor}
    <3>1. below \in SUBSET Nat /\ "sentinel" \in Tables /\ "DELETE" \in Ops
      BY DEF TypeOK, TypeTables, Tables, Ops
    <3>2. /\ journal' = Journalled("sentinel", "DELETE", below)
          /\ sentinels' = sentinels \ below /\ below \subseteq sentinels
          /\ UNCHANGED <<inboxRows, queue, outboxRows, meta>>
      BY <2>8 DEF DeleteSentinel
    <3>3. /\ \A k : k \in below => (k \in sentinels <=> "DELETE" = "DELETE")
          /\ \A k : k \notin below => (k \in sentinels' <=> k \in sentinels)
      BY <3>2
    <3> HIDE DEF below
    <3> QED BY <2>1, <2>2, <2>8, <3>1, <3>2, <3>3, SafeStatement
  <2>9. CASE CreateSentinel /\ status = "realtime"
    <3>1. {cursor} \in SUBSET Nat /\ "sentinel" \in Tables /\ "INSERT" \in Ops
      BY DEF TypeOK, TypeMemory, Tables, Ops
    <3>2. /\ journal' = Journalled("sentinel", "INSERT", {cursor})
          /\ sentinels' = sentinels \cup {cursor} /\ sentinels = {}
          /\ UNCHANGED <<inboxRows, queue, outboxRows, meta>>
      BY <2>9 DEF CreateSentinel, Control, Stored
    <3> QED BY <2>1, <2>2, <2>9, <3>1, <3>2, SafeStatement
  <2> QED BY <1>1, <1>2, <2>2, <2>3, <2>4, <2>5, <2>6, <2>7, <2>8, <2>9
      DEF PassStep, PrepareWiped, PrepareResumed, DropKey, DropBelowOrigination, StartDrain,
          FetchOutbox, EmptyPage, WalkPage, KeepSentinel, Control, tables,
          SaveInsert, SaveDelete, StoreOutbox, StoreInbox, DeleteSentinel, CreateSentinel
<1>3. ASSUME NEW to \in 0 .. MaxHead, Rollback(to) PROVE JournalSafe'
  <2> DEFINE n == Cardinality({i \in DOMAIN journal : journal[i].head <= to})
  <2>1. n \in 0 .. Len(journal)
    BY Kept
  <2> HIDE DEF n
  <2>2. /\ RevertTables(n) /\ base <= n /\ base' = (IF n < base THEN n ELSE base)
        /\ UNCHANGED <<inbox, meta>>
    BY <1>3 DEF Rollback, n, world
  <2>3. base' = base /\ Len(journal') = n
    BY <1>0, <2>1, <2>2, RevertTablesType
  <2>4. journal \in Seq(Entries(Nat, Tables, Nat))
    BY DEF TypeOK, TypeJournal, Entries, Ops
  <2>5. ASSUME NEW m \in base .. n PROVE SafeAt(m)'
    <3>1. m \in 0 .. n /\ SafeAt(m)
      BY <1>0, <2>1, <2>5 DEF JournalSafe
    <3>2. \A t, now : Reverted(journal', t, Reverted(journal, t, now, n), m)
                        = Reverted(journal, t, now, m)
      BY <2>1, <2>2, <2>4, <3>1, RevertTwice DEF RevertTables
    <3> QED BY <2>2, <3>1, <3>2, SafeSame DEF SafeAt, RevertTables
  <2> QED BY <2>3, <2>5 DEF JournalSafe
<1>4. CASE Crash
  <2> DEFINE n == IF InTransaction THEN mark ELSE Len(journal)
  <2>1. n \in base .. Len(journal)
    BY <1>0 DEF Session
  <2> HIDE DEF n
  <2>2. RevertTables(n) /\ base' = n /\ UNCHANGED <<inbox, meta>>
    BY <1>4 DEF Crash, n, world
  <2>3. SafeAt(n)
    BY <2>1 DEF JournalSafe
  <2>4. SafeTables(Ids, inboxRows, queue \cup meta, outboxRows)'
    BY <2>2, <2>3, SafeSame DEF SafeAt, RevertTables, Ids
  <2>5. n \in 0 .. Len(journal)
    BY <1>0, <2>1
  <2> QED BY <2>2, <2>4, <2>5, RevertTablesType, SafeWithoutJournal
<1>5. ASSUME NEW kind \in Kinds, NEW level \in 1 .. MaxLevel, Publish(kind, level)
      PROVE  JournalSafe'
  <2>1. UNCHANGED <<tables, journal, base, pc, status>>
    BY <1>5 DEF Publish, session
  <2>2. CASE ~WindowOpen
    <3>1. Ids' = {} /\ status' # "realtime"
      BY <2>1, <2>2 DEF Closed, Control, Ids, tables
    <3>2. base' = Len(journal')
      BY <3>1 DEF Session
    <3>3. SafeTables(Ids, inboxRows, queue \cup meta, outboxRows)'
      BY <3>1 DEF SafeTables
    <3> QED BY <3>2, <3>3, SafeWithoutJournal
  <2>3. CASE WindowOpen
    <3>1. ASSUME NEW ids, NEW rows, NEW owing, NEW stores, SafeTables(ids, rows, owing, stores)
          PROVE  SafeTables(ids, rows, owing, stores)'
      <4> SUFFICES ASSUME NEW j \in ids
                   PROVE  (j \in 0 .. Len(inbox) /\ RowsUpTo(j, rows) /\ OwedUpTo(j, owing, stores))'
        BY DEF SafeTables
      <4>1. j \in 0 .. Len(inbox) /\ RowsUpTo(j, rows) /\ OwedUpTo(j, owing, stores)
        BY <3>1 DEF SafeTables
      <4>2. /\ \A i \in DOMAIN inbox' :
                  inbox'[i].kind = "transfer" /\ WindowFloor' < i /\ i <= j => i \in rows
            /\ \A i \in DOMAIN inbox' :
                  /\ inbox'[i].kind = "external" /\ WindowFloor' < i /\ i <= j
                  /\ Origination <= inbox'[i].level
                  => Leads(inbox'[i].level, owing, stores)
        BY <1>5, <2>3, <4>1, PublishKeeps
      <4>3. j \in 0 .. Len(inbox')
        BY <1>5, <2>3, <4>1, PublishBelow
      <4> QED BY <4>2, <4>3 DEF RowsUpTo, OwedUpTo, Own, External
    <3>2. \A n : SafeAt(n) => SafeAt(n)'
      <4> HIDE DEF SafeTables
      <4> QED BY <2>1, <3>1 DEF SafeAt, tables
    <3> QED BY <2>1, <3>2 DEF JournalSafe
  <2> QED BY <2>2, <2>3
<1> QED BY <1>1, <1>2, <1>3, <1>4, <1>5
    DEF Next, vars, HeadBlock, RunMatcher, NodeApply, session, world, tables

-----------------------------------------------------------------------------
(* The theorems.                                                           *)

\* The invariant holds of a new database and of one of the old version.
LEMMA InitInv ==
  ASSUME Init
  PROVE  TypeOK /\ Inv
<1>1. /\ journal = <<>> /\ Len(journal) = 0 /\ base = 0 /\ mark = 0
      /\ inboxRows = {} /\ queue = {} /\ outboxRows = {} /\ meta \in SUBSET Nat
  BY ConstantsAssumption DEF Init, ConstantsAssumption
<1>2. /\ applied \in Nat /\ head \in Nat
      /\ TypeJournal /\ TypeMemory /\ TypeControl /\ TypeHistory
  <2>1. applied \in Nat /\ head \in Nat
    BY DEF Init
  <2>2. TypeJournal
    BY <1>1 DEF TypeJournal
  <2>3. TypeMemory /\ TypeControl
    BY DEF Init, TypeMemory, TypeControl
  <2>4. TypeHistory
    BY DEF Init, TypeHistory
  <2> QED BY <2>1, <2>2, <2>3, <2>4
<1>3. CASE inbox = <<>> /\ sentinels = {}
  <2>1. Len(inbox) = 0 /\ DOMAIN inbox = {} /\ inbox \in Seq([kind : Kinds \cup {"external"}, level : Nat])
    BY <1>3
  <2>2. TypeOK
    BY <1>1, <1>3, <2>1, <1>2 DEF TypeOK, TypeWorld, TypeTables
  <2>3. SafeTables(Ids, inboxRows, queue \cup meta, outboxRows)
    BY <1>1, <1>3 DEF SafeTables, Ids
  <2> QED BY <1>1, <1>3, <2>2, <2>3, SafeIdle
      DEF Init, Inv, Control, Session, Closed, Memory, Drained, Walked, Stored, Saving,
          InTransaction, Ids
<1>4. CASE \E l \in Legacy : /\ FirstLevel <= l
                             /\ inbox = <<[kind |-> "external", level |-> l]>>
                             /\ sentinels = {1} /\ meta = Legacy
  <2>1. PICK l \in Legacy : /\ FirstLevel <= l
                            /\ inbox = <<[kind |-> "external", level |-> l]>>
                            /\ sentinels = {1} /\ meta = Legacy
    BY <1>4
  <2>2. l \in Nat
    BY ConstantsAssumption DEF ConstantsAssumption
  <2>3. /\ Len(inbox) = 1 /\ DOMAIN inbox = {1} /\ inbox[1].level = l
        /\ inbox \in Seq([kind : Kinds \cup {"external"}, level : Nat])
    BY <2>1, <2>2
  <2>4. TypeOK
    BY <1>1, <2>1, <2>3, <1>2 DEF TypeOK, TypeWorld, TypeTables
  <2>5. Leads(l, meta, {})
    <3>1. \A k \in Due(l) : l \in l .. k
      BY <2>2, ConstantsAssumption DEF Due, Levels, ConstantsAssumption
    <3> QED BY <2>1, <3>1 DEF Leads
  <2>6. SafeTables(Ids, inboxRows, queue \cup meta, outboxRows)
    <3>1. RowsUpTo(1, inboxRows)
      BY <2>1, <2>3 DEF RowsUpTo, Own
    <3>2. OwedUpTo(1, queue \cup meta, outboxRows)
      BY <1>1, <2>3, <2>5 DEF OwedUpTo
    <3>3. Ids = {1}
      BY <1>1, <2>1 DEF Ids
    <3> QED BY <2>3, <3>1, <3>2, <3>3 DEF SafeTables
  <2>7. WindowOpen
    BY <2>1, <2>3 DEF WindowOpen
  <2> QED BY <1>1, <2>4, <2>6, <2>7, SafeIdle
      DEF Init, Inv, Control, Session, Closed, Memory, Drained, Walked, Stored, Saving,
          InTransaction, Ids
<1> QED BY <1>3, <1>4 DEF Init

\* No step breaks the invariant.
LEMMA StepInv ==
  ASSUME ~RollbackAcrossRestart, TypeOK, Inv, [Next]_vars
  PROVE  TypeOK' /\ Inv'
<1>1. TypeOK'
  BY TypeStep DEF Inv
<1>2. Control' /\ Session' /\ Closed' /\ Memory' /\ Drained' /\ Walked' /\ Stored'
  BY ControlStep, SessionStep, ClosedStep, MemoryStep, DrainedStep, WalkedStep, StoredStep DEF Inv
<1>3. JournalSafe'
  BY <1>1, <1>2, JournalStep
<1> QED BY <1>1, <1>2, <1>3 DEF Inv

\* Every variable keeps its type, and the tables can be resumed from, at every
\* statement, crash and rollback of one process lifetime.
THEOREM Invariant == ~RollbackAcrossRestart => (Spec => [](TypeOK /\ Inv))
<1> SUFFICES ASSUME ~RollbackAcrossRestart PROVE Spec => [](TypeOK /\ Inv)
  OBVIOUS
<1>1. Init => TypeOK /\ Inv
  BY InitInv
<1>2. TypeOK /\ Inv /\ [Next]_vars => (TypeOK /\ Inv)'
  BY StepInv
<1> QED BY <1>1, <1>2, PTL DEF Spec

\* Every variable keeps its type.
THEOREM TypeCorrect == ~RollbackAcrossRestart => (Spec => []TypeOK)
<1>1. TypeOK /\ Inv => TypeOK
  OBVIOUS
<1> QED BY <1>1, Invariant, PTL

\* The cursor steps over no transfer to this rollup for good: _inbox_cursor reads
\* it from the rows, which _commit_inbox_page writes before the sentinel.
THEOREM InboxSafe == ~RollbackAcrossRestart => (Spec => []InboxContiguous)
<1>1. TypeOK /\ Inv => InboxContiguous
  BY SafeNow DEF Inv, SafeTables, InboxContiguous
<1> QED BY <1>1, Invariant, PTL

\* No outbox level that a consumed external made due is forgotten: the queue is
\* saved before the inbox rows, and a level leaves it after its outbox is stored.
THEOREM OutboxSafe == ~RollbackAcrossRestart => (Spec => []OwedOrServed)
<1>1. TypeOK /\ Inv => OwedOrServed
  BY SafeNow DEF Inv, SafeTables, OwedOrServed
<1> QED BY <1>1, Invariant, PTL

\* No INSERT of _commit_inbox_page or _write_cursor_sentinel meets a row.
THEOREM InsertsSafe == ~RollbackAcrossRestart => (Spec => []InsertsNeverCollide)
<1>1. TypeOK /\ Inv => InsertsNeverCollide
  BY DEF Inv, Control, Walked, Stored, InsertsNeverCollide
<1> QED BY <1>1, Invariant, PTL

=============================================================================
