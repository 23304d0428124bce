-------------------- MODULE RollupMessageIndexDutiesProof --------------------
(***************************************************************************)
(* What RollupMessageIndex owes, to the rollup node and to the matcher: no  *)
(* level below the origination is asked for, none is given up unanswered,   *)
(* and no row escapes the matcher; and that it implements InboxIndex.       *)
(***************************************************************************)
EXTENDS RollupMessageIndexProof

Since(S) == \A l \in S : Origination <= l

\* What load() finds before it drops the levels below the origination, and what it leaves:
\* the memory and the queue after every revert are free of them.
DropEmpty    == stage = "drop" => queue = {}
FloorCovers  == pc = "floor" => queue \cup staged \subseteq levels
FloorMemory  == status # "new" => Since(levels) /\ Since(staged)
FloorJournal == status # "new" =>
  \A n \in base .. Len(journal) : Since(Reverted(journal, "queue", queue, n))

FloorInv == DropEmpty /\ FloorCovers /\ FloorMemory /\ FloorJournal

\* A level drained from memory has its own outbox in the batch or stored.
DrainedServed ==
  pc = "fetch" \/ Saving =>
    \A m \in stored \ levels : m \in Hashable => m \in outboxRows \cup outboxBatch

\* Messages are never deleted by the index, so that a revert only takes them away.
OnlyInserted ==
  \A i \in DOMAIN journal : journal[i].table \in {"inbox", "outbox"} => journal[i].op = "INSERT"

\* A row the matcher has not seen has its flag, or a pass that will set it.
Offered ==
  status = "realtime" =>
    /\ inboxRows \subseteq offered.inbox \/ "inbox" \in armed
    /\ outboxRows \subseteq offered.outbox \/ "outbox" \in armed \/ (pc # "idle" /\ committed)

DutiesInv == FloorInv /\ DrainedServed /\ OnlyInserted /\ Offered

-----------------------------------------------------------------------------
(* The origination.                                                        *)

\* The queue as it is now is the journal reverted to its end.
LEMMA QueueNow ==
  ASSUME TypeOK, FloorJournal, status # "new"
  PROVE  Since(queue)
<1>1. Len(journal) \in Nat /\ Len(journal) \in base .. Len(journal)
  BY DEF TypeOK, TypeJournal
<1>2. Reverted(journal, "queue", queue, Len(journal)) = queue
  BY <1>1, RevertNothing
<1> QED BY <1>1, <1>2 DEF FloorJournal

\* Outside a realtime pass the queue is all there is to revert to.
LEMMA FloorUnjournalled ==
  ASSUME TypeOK', base' = Len(journal'), Since(queue')
  PROVE  FloorJournal'
<1>1. Len(journal') \in Nat
  BY LenProperties DEF TypeOK, TypeJournal
<1>2. Reverted(journal', "queue", queue', Len(journal')) = queue'
  BY <1>1, RevertNothing
<1>3. \A n \in base' .. Len(journal') : n = Len(journal')
  BY <1>1
<1> QED BY <1>2, <1>3 DEF FloorJournal, Since

\* A statement of a realtime pass brings no level below the origination back.
LEMMA FloorStatement ==
  ASSUME TypeOK, TypeOK', FloorJournal, base' = base, status = "realtime",
         NEW t \in Tables, NEW op \in Ops, NEW keys \in SUBSET Nat,
         journal' = Journalled(t, op, keys), Since(queue'),
         IF t = "queue"
           THEN /\ \A k : k \in keys => (k \in queue <=> op = "DELETE")
                /\ \A k : k \notin keys => (k \in queue' <=> k \in queue)
           ELSE queue' = queue
  PROVE  FloorJournal'
<1>1. Len(journal) \in Nat /\ Len(journal') \in Nat /\ base \in Nat
  BY LenProperties DEF TypeOK, TypeJournal
<1>2. Len(journal') <= Len(journal) + 1
  <2>1. journal \in Seq(Entries(Nat, Tables, Nat))
    BY DEF TypeOK, TypeJournal, Entries, Ops
  <2>2. [head |-> head, table |-> t, op |-> op, keys |-> keys] \in Entries(Nat, Tables, Nat)
    BY DEF TypeOK, TypeWorld, Entries, Ops
  <2> QED BY <2>1, <2>2, AppendProperties, LenProperties DEF Journalled
<1>3. ASSUME NEW n \in 0 .. Len(journal)
      PROVE  Reverted(journal', "queue", queue', n) = Reverted(journal, "queue", queue, n)
  <2>1. CASE t = "queue"
    BY <2>1, StatementReverts
  <2>2. CASE t # "queue"
    BY <2>2, StatementElsewhere
  <2> QED BY <2>1, <2>2
<1>4. Reverted(journal', "queue", queue', Len(journal')) = queue'
  BY <1>1, RevertNothing
<1>5. \A n \in base' .. Len(journal') : n \in base .. Len(journal) \/ n = Len(journal')
  BY <1>1, <1>2
<1>6. \A n \in base .. Len(journal) : n \in 0 .. Len(journal)
  BY <1>1
<1> QED BY <1>3, <1>4, <1>5, <1>6 DEF FloorJournal, Since

\* What a pass and a boot keep in memory and in the queue.
LEMMA FloorStep ==
  ASSUME ~RollbackAcrossRestart, TypeOK, TypeOK', Control, Session', FloorInv, [Next]_vars
  PROVE  FloorInv'
<1> USE DEF FloorInv
<1>0. Origination \in Nat /\ levels \subseteq Nat /\ queue \subseteq Nat
  BY ConstantsAssumption DEF ConstantsAssumption, TypeOK, TypeMemory, TypeTables
<1>1. DropEmpty'
  <2>1. CASE PrepareWiped
    BY <2>1 DEF PrepareWiped, DropEmpty
  <2>2. CASE UNCHANGED <<stage, queue>>
    BY <2>2 DEF DropEmpty
  <2>3. CASE stage' # "drop"
    BY <2>3 DEF DropEmpty
  <2> QED BY <2>1, <2>2, <2>3
      DEF Next, PassStep, vars, tables, PrepareResumed, DropKey, DropBelowOrigination, SaveInsert,
          SaveDelete, StartDrain, FetchOutbox, StoreOutbox, EmptyPage, WalkPage, StoreInbox,
          KeepSentinel, DeleteSentinel, CreateSentinel, EndPass, HeadBlock, RunMatcher, Rollback,
          Crash, Publish, NodeApply, Control, Saving
<1>2. FloorCovers'
  <2>1. CASE PrepareResumed
    BY <2>1 DEF PrepareResumed, FloorCovers, tables
  <2>2. CASE DropKey
    BY <2>2 DEF DropKey, FloorCovers
  <2>3. CASE UNCHANGED <<pc, queue, levels, staged>>
    BY <2>3 DEF FloorCovers
  <2>4. CASE pc' # "floor"
    BY <2>4 DEF FloorCovers
  <2> QED BY <2>1, <2>2, <2>3, <2>4
      DEF Next, PassStep, vars, tables, owed, PrepareWiped, DropBelowOrigination, SaveInsert,
          SaveDelete, AfterSave, StartDrain, FetchOutbox, StoreOutbox, EmptyPage, WalkPage,
          StoreInbox, KeepSentinel, DeleteSentinel, CreateSentinel, EndPass, HeadBlock, RunMatcher,
          Rollback, Crash, Publish, NodeApply, Control, Saving
<1>3. FloorMemory'
  <2> USE DEF FloorMemory, Since
  <2>1. CASE DropKey
    BY <2>1 DEF DropKey, Control
  <2>2. CASE DropBelowOrigination
    BY <1>0, <2>2 DEF DropBelowOrigination, SinceOrigination, FloorCovers
  <2>3. CASE SaveDelete
    BY <2>3 DEF SaveDelete
  <2>4. CASE StartDrain
    BY <2>4, QueueNow DEF StartDrain
  <2>5. CASE FetchOutbox
    <3>1. PICK l \in levels :
            /\ levels' = (levels \ {l}) \cup Continuation(l)
            /\ staged' = (staged \ {l}) \cup Continuation(l)
      BY <2>5 DEF FetchOutbox
    <3>2. status # "new" => Since(Continuation(l))
      BY <1>0 DEF Continuation
    <3> QED BY <2>5, <3>1, <3>2 DEF FetchOutbox
  <2>6. CASE WalkPage
    BY <2>6 DEF WalkPage, SinceOrigination
  <2>7. CASE UNCHANGED <<levels, staged>> /\ (status' # "new" => status # "new")
    BY <2>7
  <2>8. CASE Crash
    BY <2>8 DEF Crash
  <2>9. CASE PrepareResumed
    BY <2>9 DEF PrepareResumed, Control
  <2> QED BY <2>1, <2>2, <2>3, <2>4, <2>5, <2>6, <2>7, <2>8, <2>9
      DEF Next, PassStep, vars, owed, PrepareWiped, SaveInsert, StoreOutbox, EmptyPage, StoreInbox,
          KeepSentinel, DeleteSentinel, CreateSentinel, HeadBlock, RunMatcher, Rollback, Publish,
          NodeApply
<1>4. PassStep => (status' # "new" => Since(queue'))
  <2> SUFFICES ASSUME PassStep, status' # "new" PROVE Since(queue')
    OBVIOUS
  <2> USE DEF Since
  <2>1. CASE DropKey
    BY <2>1 DEF DropKey, DropEmpty, Control
  <2>2. CASE DropBelowOrigination
    BY <1>0, <2>2 DEF DropBelowOrigination, SinceOrigination, FloorCovers
  <2>3. CASE SaveInsert
    BY <2>3, QueueNow DEF SaveInsert, FloorMemory
  <2>4. CASE SaveDelete
    BY <2>4, QueueNow DEF SaveDelete
  <2>5. CASE queue' = queue /\ status # "new"
    BY <2>5, QueueNow
  <2> QED BY <2>1, <2>2, <2>3, <2>4, <2>5
      DEF PassStep, tables, PrepareWiped, PrepareResumed, StartDrain, FetchOutbox, StoreOutbox,
          EmptyPage, WalkPage, StoreInbox, KeepSentinel, DeleteSentinel, CreateSentinel, Control
<1>5. FloorJournal'
  <2>1. CASE UNCHANGED <<queue, journal, base>> /\ (status' # "new" => status # "new")
    BY <2>1 DEF FloorJournal
  <2>2. CASE PassStep
    <3>1. CASE status' = "new"
      BY <3>1 DEF FloorJournal
    <3>2. CASE status' = "syncing"
      BY <1>4, <2>2, <3>2, FloorUnjournalled DEF Session
    <3>3. CASE status' = "realtime" /\ status # "realtime"
      BY <2>1, <2>2, <3>3
         DEF PassStep, tables, session, PrepareWiped, PrepareResumed, DropKey,
             DropBelowOrigination, SaveInsert, SaveDelete, StartDrain, FetchOutbox, StoreOutbox,
             EmptyPage, WalkPage, StoreInbox, KeepSentinel, DeleteSentinel, CreateSentinel, Control
    <3>4. CASE status = "realtime" /\ status' = "realtime"
      <4>0. Since(queue') /\ base' = base
        BY <1>4, <2>2, <3>4
           DEF PassStep, session, PrepareWiped, PrepareResumed, DropKey, DropBelowOrigination,
               SaveInsert, SaveDelete, StartDrain, FetchOutbox, StoreOutbox, EmptyPage, WalkPage,
               StoreInbox, KeepSentinel, DeleteSentinel, CreateSentinel
      <4>t. \A t \in {"queue", "outbox", "inbox", "sentinel"} : t \in Tables
        BY DEF Tables
      <4>o. "INSERT" \in Ops /\ "DELETE" \in Ops
        BY DEF Ops
      <4>1. CASE SaveInsert
        <5> DEFINE learned == (levels \ stored) \ queue
        <5>1. learned \in SUBSET Nat
          BY <1>0
        <5>2. journal' = Journalled("queue", "INSERT", learned) /\ queue' = queue \cup learned
          BY <4>1 DEF SaveInsert
        <5>3. \A k : k \in learned => k \notin queue
          OBVIOUS
        <5> HIDE DEF learned
        <5> QED BY <3>4, <4>0, <4>t, <4>o, <5>1, <5>2, <5>3, FloorStatement
      <4>2. CASE SaveDelete
        <5> DEFINE drained == (stored \ levels) \cap queue
        <5>1. drained \in SUBSET Nat
          BY <1>0
        <5>2. journal' = Journalled("queue", "DELETE", drained) /\ queue' = queue \ drained
          BY <4>2 DEF SaveDelete
        <5>3. \A k : k \in drained => k \in queue
          OBVIOUS
        <5> HIDE DEF drained
        <5> QED BY <3>4, <4>0, <4>t, <4>o, <5>1, <5>2, <5>3, FloorStatement
      <4>3. CASE StoreOutbox
        <5>1. (outboxBatch \ outboxRows) \in SUBSET Nat
          BY DEF TypeOK, TypeMemory
        <5> QED BY <3>4, <4>0, <4>t, <4>o, <4>3, <5>1, FloorStatement DEF StoreOutbox
      <4>4. CASE StoreInbox
        <5>1. inboxBatch \in SUBSET Nat
          BY DEF TypeOK, TypeMemory
        <5> QED BY <3>4, <4>0, <4>t, <4>o, <4>4, <5>1, FloorStatement DEF StoreInbox
      <4>5. CASE DeleteSentinel
        <5>1. {s \in sentinels : s < cursor} \in SUBSET Nat
          BY DEF TypeOK, TypeTables
        <5> QED BY <3>4, <4>0, <4>t, <4>o, <4>5, <5>1, FloorStatement DEF DeleteSentinel
      <4>6. CASE CreateSentinel
        <5>1. {cursor} \in SUBSET Nat
          BY DEF TypeOK, TypeMemory
        <5> QED BY <3>4, <4>0, <4>t, <4>o, <4>6, <5>1, FloorStatement DEF CreateSentinel
      <4> QED BY <2>1, <2>2, <3>4, <4>1, <4>2, <4>3, <4>4, <4>5, <4>6
          DEF PassStep, tables, session, PrepareWiped, PrepareResumed, DropKey,
              DropBelowOrigination, StartDrain, FetchOutbox, EmptyPage, WalkPage, KeepSentinel,
              Control
    <3> QED BY <3>1, <3>2, <3>3, <3>4 DEF TypeOK, TypeMemory
  <2>3. ASSUME NEW to \in 0 .. MaxHead, Rollback(to) PROVE FloorJournal'
    <3> DEFINE n == Cardinality({i \in DOMAIN journal : journal[i].head <= to})
    <3>1. n \in 0 .. Len(journal)
      BY Kept
    <3> HIDE DEF n
    <3>2. /\ RevertTables(n) /\ base <= n /\ base' = (IF n < base THEN n ELSE base)
          /\ status' = status /\ status # "new"
      BY <2>3 DEF Rollback, n, Control
    <3>3. Len(journal) \in Nat /\ base \in 0 .. Len(journal)
      BY LenProperties DEF TypeOK, TypeJournal
    <3>4. base' = base /\ Len(journal') = n
      BY <3>1, <3>2, <3>3, RevertTablesType
    <3>5. journal \in Seq(Entries(Nat, Tables, Nat))
      BY DEF TypeOK, TypeJournal, Entries, Ops
    <3>6. ASSUME NEW m \in base .. n PROVE Since(Reverted(journal', "queue", queue', m))
      <4>1. m \in 0 .. n /\ m \in base .. Len(journal)
        BY <3>1, <3>3, <3>6
      <4>2. Reverted(journal', "queue", queue', m) = Reverted(journal, "queue", queue, m)
        BY <3>1, <3>2, <3>5, <4>1, RevertTwice DEF RevertTables
      <4> QED BY <3>2, <4>1, <4>2 DEF FloorJournal
    <3> QED BY <3>4, <3>6 DEF FloorJournal
  <2>4. CASE Crash
    BY <2>4 DEF Crash, FloorJournal
  <2> QED BY <2>1, <2>2, <2>3, <2>4
      DEF Next, vars, tables, session, HeadBlock, RunMatcher, Publish, NodeApply
<1> QED BY <1>1, <1>2, <1>3, <1>5

-----------------------------------------------------------------------------
(* The rollup node.                                                        *)

\* A level leaves memory into the batch, and the batch goes to the rows as a whole.
LEMMA ServedStep ==
  ASSUME TypeOK, Control, Memory, DrainedServed, [Next]_vars
  PROVE  DrainedServed'
<1> USE DEF DrainedServed, Saving, owed, batches
<1>1. CASE PrepareResumed
  BY <1>1 DEF PrepareResumed
<1>2. CASE SaveInsert
  BY <1>2 DEF SaveInsert
<1>3. CASE SaveDelete
  BY <1>3 DEF SaveDelete, AfterSave, Control, TypeOK, TypeControl
<1>4. CASE StartDrain
  BY <1>4 DEF StartDrain
<1>5. CASE FetchOutbox
  BY <1>5 DEF FetchOutbox, tables
<1>6. CASE StoreOutbox
  BY <1>6 DEF StoreOutbox
<1>7. CASE WalkPage
  BY <1>7 DEF WalkPage, Memory
<1>8. CASE UNCHANGED <<outboxRows, owed, batches, pc>>
  BY <1>8
<1>9. CASE pc' \notin {"fetch", "saveInsert", "saveDelete"}
  BY <1>9
<1> QED BY <1>1, <1>2, <1>3, <1>4, <1>5, <1>6, <1>7, <1>8, <1>9
    DEF Next, PassStep, vars, tables, PrepareWiped, DropKey, DropBelowOrigination, EmptyPage,
        StoreInbox, KeepSentinel, DeleteSentinel, CreateSentinel, EndPass, HeadBlock,
        RunMatcher, Rollback, Crash, Publish, NodeApply

\* What a step may take from the queue.
DepartsDone ==
  \A l \in queue \ queue' :
    \/ l \in Hashable => l \in outboxRows
    \/ l < Origination \/ Ids = {}
    \/ Len(journal') < Len(journal)

\* Reverting nothing takes nothing, and reverting anything shortens the journal.
LEMMA RevertDeparts ==
  ASSUME TypeOK, NEW n \in 0 .. Len(journal), RevertTables(n)
  PROVE  DepartsDone
<1>1. Len(journal) \in Nat /\ Len(journal') = n
  BY RevertTablesType, LenProperties DEF TypeOK, TypeJournal
<1>2. CASE n = Len(journal)
  <2>1. queue' = queue
    BY <1>1, <1>2, RevertNothing DEF RevertTables
  <2> QED BY <2>1 DEF DepartsDone
<1>3. CASE n # Len(journal)
  BY <1>1, <1>3 DEF DepartsDone
<1> QED BY <1>2, <1>3

LEMMA StepDeparts ==
  ASSUME TypeOK, Memory, DrainedServed, [Next]_vars
  PROVE  DepartsDone
<1>1. CASE PrepareWiped
  BY <1>1 DEF PrepareWiped, DepartsDone
<1>2. CASE DropBelowOrigination
  <2>1. Origination \in Nat /\ queue \subseteq Nat
    BY ConstantsAssumption DEF ConstantsAssumption, TypeOK, TypeTables
  <2> QED BY <1>2, <2>1 DEF DropBelowOrigination, SinceOrigination, DepartsDone
<1>3. CASE SaveDelete
  <2>1. outboxBatch = {} /\ pc = "saveDelete"
    BY <1>3 DEF SaveDelete, Memory
  <2> QED BY <1>3, <2>1 DEF SaveDelete, DrainedServed, Saving, DepartsDone
<1>4. ASSUME NEW to \in 0 .. MaxHead, Rollback(to) PROVE DepartsDone
  <2> DEFINE n == Cardinality({i \in DOMAIN journal : journal[i].head <= to})
  <2>1. n \in 0 .. Len(journal)
    BY Kept
  <2>2. RevertTables(n)
    BY <1>4 DEF Rollback
  <2> HIDE DEF n
  <2> QED BY <2>1, <2>2, RevertDeparts
<1>5. CASE Crash
  <2> DEFINE n == IF InTransaction THEN mark ELSE Len(journal)
  <2>1. n \in 0 .. Len(journal)
    BY LenProperties DEF TypeOK, TypeJournal
  <2>2. RevertTables(n)
    BY <1>5 DEF Crash
  <2> HIDE DEF n
  <2> QED BY <2>1, <2>2, RevertDeparts
<1>6. CASE queue \subseteq queue'
  BY <1>6 DEF DepartsDone
<1> QED BY <1>1, <1>2, <1>3, <1>4, <1>5, <1>6
    DEF Next, PassStep, vars, tables, PrepareResumed, DropKey, SaveInsert, StartDrain, FetchOutbox,
        StoreOutbox, EmptyPage, WalkPage, StoreInbox, KeepSentinel, DeleteSentinel, CreateSentinel,
        HeadBlock, RunMatcher, Publish, NodeApply

-----------------------------------------------------------------------------
(* The matcher.                                                            *)

\* A revert of the messages takes rows away and brings none back.
LEMMA RevertTakes ==
  ASSUME TypeOK, OnlyInserted, NEW n \in 0 .. Len(journal), RevertTables(n)
  PROVE  inboxRows' \subseteq inboxRows /\ outboxRows' \subseteq outboxRows
<1>1. Len(journal) \in Nat /\ DOMAIN journal = 1 .. Len(journal)
  BY LenProperties DEF TypeOK, TypeJournal
<1>2. ASSUME NEW t \in {"inbox", "outbox"}, NEW now, NEW k \in Reverted(journal, t, now, n)
      PROVE  k \in now
  <2>1. \A i \in Touching(journal, t, k, n) : journal[i].op = "INSERT"
    BY <1>1 DEF Touching, OnlyInserted
  <2> QED BY <1>2, <2>1, RevertedMember
<1> QED BY <1>2 DEF RevertTables

\* One more entry of the right kind.
LEMMA EntryInserted ==
  ASSUME TypeOK, OnlyInserted, NEW t \in Tables, NEW op \in Ops, NEW keys \in SUBSET Nat,
         t \in {"inbox", "outbox"} => op = "INSERT", journal' = Journalled(t, op, keys)
  PROVE  OnlyInserted'
<1> DEFINE e == [head |-> head, table |-> t, op |-> op, keys |-> keys]
<1>1. journal \in Seq(Entries(Nat, Tables, Nat)) /\ e \in Entries(Nat, Tables, Nat)
  BY DEF TypeOK, TypeJournal, TypeWorld, Entries, Ops
<1>2. CASE journal' = journal
  BY <1>2 DEF OnlyInserted
<1>3. CASE journal' = Append(journal, e)
  <2>1. e.table = t /\ e.op = op
    OBVIOUS
  <2> HIDE DEF e
  <2>2. /\ Len(journal) \in Nat /\ DOMAIN journal = 1 .. Len(journal)
        /\ DOMAIN journal' = 1 .. Len(journal) + 1 /\ journal'[Len(journal) + 1] = e
        /\ \A i \in 1 .. Len(journal) : journal'[i] = journal[i]
    BY <1>1, <1>3, AppendProperties, LenProperties
  <2>3. \A i \in 1 .. Len(journal) + 1 : i \in 1 .. Len(journal) \/ i = Len(journal) + 1
    BY <2>2
  <2> QED BY <2>1, <2>2, <2>3 DEF OnlyInserted
<1> QED BY <1>2, <1>3 DEF Journalled

LEMMA InsertedStep ==
  ASSUME TypeOK, OnlyInserted, [Next]_vars
  PROVE  OnlyInserted'
<1>0. /\ \A t \in {"queue", "outbox", "inbox", "sentinel"} : t \in Tables
      /\ "INSERT" \in Ops /\ "DELETE" \in Ops
  BY DEF Tables, Ops
<1>1. CASE SaveInsert
  <2>1. ((levels \ stored) \ queue) \in SUBSET Nat
    BY DEF TypeOK, TypeMemory
  <2> QED BY <1>0, <1>1, <2>1, EntryInserted DEF SaveInsert
<1>2. CASE SaveDelete
  <2>1. ((stored \ levels) \cap queue) \in SUBSET Nat
    BY DEF TypeOK, TypeMemory
  <2> QED BY <1>0, <1>2, <2>1, EntryInserted DEF SaveDelete
<1>3. CASE StoreOutbox
  <2>1. (outboxBatch \ outboxRows) \in SUBSET Nat
    BY DEF TypeOK, TypeMemory
  <2> QED BY <1>0, <1>3, <2>1, EntryInserted DEF StoreOutbox
<1>4. CASE StoreInbox
  <2>1. inboxBatch \in SUBSET Nat
    BY DEF TypeOK, TypeMemory
  <2> QED BY <1>0, <1>4, <2>1, EntryInserted DEF StoreInbox
<1>5. CASE DeleteSentinel
  <2>1. {s \in sentinels : s < cursor} \in SUBSET Nat
    BY DEF TypeOK, TypeTables
  <2> QED BY <1>0, <1>5, <2>1, EntryInserted DEF DeleteSentinel
<1>6. CASE CreateSentinel
  <2>1. {cursor} \in SUBSET Nat
    BY DEF TypeOK, TypeMemory
  <2> QED BY <1>0, <1>6, <2>1, EntryInserted DEF CreateSentinel
<1>7. ASSUME NEW n \in 0 .. Len(journal), RevertTables(n) PROVE OnlyInserted'
  <2>1. /\ Len(journal) \in Nat /\ DOMAIN journal = 1 .. Len(journal)
        /\ DOMAIN journal' = 1 .. n /\ \A i \in 1 .. n : journal'[i] = journal[i]
    BY <1>7, LenProperties, SubSeqProperties DEF RevertTables, TypeOK, TypeJournal
  <2> QED BY <2>1 DEF OnlyInserted
<1>8. ASSUME NEW to \in 0 .. MaxHead, Rollback(to) PROVE OnlyInserted'
  <2> DEFINE n == Cardinality({i \in DOMAIN journal : journal[i].head <= to})
  <2>1. n \in 0 .. Len(journal)
    BY Kept
  <2>2. RevertTables(n)
    BY <1>8 DEF Rollback
  <2> HIDE DEF n
  <2> QED BY <1>7, <2>1, <2>2
<1>9. CASE Crash
  <2> DEFINE n == IF InTransaction THEN mark ELSE Len(journal)
  <2>1. n \in 0 .. Len(journal)
    BY LenProperties DEF TypeOK, TypeJournal
  <2>2. RevertTables(n)
    BY <1>9 DEF Crash
  <2> HIDE DEF n
  <2> QED BY <1>7, <2>1, <2>2
<1>10. CASE UNCHANGED journal
  BY <1>10 DEF OnlyInserted
<1> QED BY <1>1, <1>2, <1>3, <1>4, <1>5, <1>6, <1>8, <1>9, <1>10
    DEF Next, PassStep, vars, PrepareWiped, PrepareResumed, DropKey, DropBelowOrigination,
        StartDrain, FetchOutbox, EmptyPage, WalkPage, KeepSentinel, HeadBlock, RunMatcher, Publish,
        NodeApply

\* Each way a row comes, or the matcher runs, leaves no row without its flag.
LEMMA OfferedStep ==
  ASSUME TypeOK, Control, OnlyInserted, Offered, [Next]_vars
  PROVE  Offered'
<1> USE DEF Offered, tables, history
<1>1. CASE StoreOutbox
  BY <1>1 DEF StoreOutbox
<1>2. CASE StoreInbox
  BY <1>2 DEF StoreInbox
<1>3. CASE EmptyPage
  BY <1>3 DEF EmptyPage
<1>4. CASE KeepSentinel
  BY <1>4 DEF KeepSentinel, EndPass
<1>5. CASE CreateSentinel
  BY <1>5 DEF CreateSentinel, EndPass
<1>6. CASE HeadBlock
  BY <1>6 DEF HeadBlock
<1>7. CASE RunMatcher
  BY <1>7 DEF RunMatcher
<1>8. ASSUME NEW to \in 0 .. MaxHead, Rollback(to) PROVE Offered'
  <2> DEFINE n == Cardinality({i \in DOMAIN journal : journal[i].head <= to})
  <2>1. n \in 0 .. Len(journal)
    BY Kept
  <2>2. RevertTables(n)
    BY <1>8 DEF Rollback
  <2> HIDE DEF n
  <2>3. inboxRows' \subseteq inboxRows /\ outboxRows' \subseteq outboxRows
    BY <2>1, <2>2, RevertTakes
  <2> QED BY <1>8, <2>3 DEF Rollback, StillOffered
<1>9. CASE Crash
  BY <1>9 DEF Crash
<1>10. CASE status' # "realtime"
  BY <1>10
<1>11. CASE /\ UNCHANGED <<inboxRows, outboxRows, status, armed, committed, offered>>
            /\ pc # "idle" /\ pc' # "idle"
  BY <1>11
<1>12. CASE UNCHANGED <<inboxRows, outboxRows, status, armed, committed, offered, pc>>
  BY <1>12
<1> QED BY <1>1, <1>2, <1>3, <1>4, <1>5, <1>6, <1>7, <1>8, <1>9, <1>10, <1>11, <1>12
    DEF Next, PassStep, vars, PrepareWiped, PrepareResumed, DropKey, DropBelowOrigination,
        SaveInsert, SaveDelete, AfterSave, StartDrain, FetchOutbox, WalkPage, DeleteSentinel,
        Publish, NodeApply, Control, Saving, TypeOK, TypeControl

-----------------------------------------------------------------------------
(* The theorems.                                                           *)

LEMMA InitDuties ==
  ASSUME Init
  PROVE  DutiesInv
<1>1. FloorInv
  BY DEF Init, FloorInv, DropEmpty, FloorCovers, FloorMemory, FloorJournal
<1>2. DrainedServed /\ Offered
  BY DEF Init, DrainedServed, Saving, Offered
<1>3. OnlyInserted
  BY DEF Init, OnlyInserted
<1> QED BY <1>1, <1>2, <1>3 DEF DutiesInv

\* What the index owes is kept in mind by every step, statement, revert and restart of one
\* process lifetime.
THEOREM Duties == ~RollbackAcrossRestart => (Spec => []DutiesInv)
<1> SUFFICES ASSUME ~RollbackAcrossRestart PROVE Spec => []DutiesInv
  OBVIOUS
<1>1. ASSUME TypeOK, Inv, TypeOK', Inv', DutiesInv, [Next]_vars PROVE DutiesInv'
  BY <1>1, FloorStep, ServedStep, InsertedStep, OfferedStep DEF Inv, DutiesInv
<1>2. (TypeOK /\ Inv) /\ (TypeOK /\ Inv)' /\ DutiesInv /\ [Next]_vars => DutiesInv'
  BY <1>1
<1> QED BY <1>2, InitDuties, Invariant, PTL DEF Spec

\* No pass asks the node for a level from before the origination, which it would answer
\* with an error for ever: none the old version queued, none a rollback brings back.
THEOREM OriginationRespected == ~RollbackAcrossRestart => (Spec => []NothingBelowOrigination)
<1>1. TypeOK /\ Inv /\ DutiesInv => NothingBelowOrigination
  BY QueueNow DEF DutiesInv, FloorInv, FloorMemory, Since, NothingBelowOrigination
<1> QED BY <1>1, Invariant, Duties, PTL

\* Between two passes every row the matcher has not seen has its flag set, whatever was
\* rolled back and stored again.
THEOREM RowsOffered == ~RollbackAcrossRestart => (Spec => []MatcherSeesEveryRow)
<1>1. TypeOK /\ Inv /\ DutiesInv => MatcherSeesEveryRow
  BY DEF DutiesInv, Offered, MatcherSeesEveryRow, Inv, Control
<1> QED BY <1>1, Invariant, Duties, PTL

\* No level leaves the queue before its outbox is stored.
THEOREM DeparturesServed == ~RollbackAcrossRestart => (Spec => QueueDepartures)
<1>1. TypeOK /\ Inv /\ DutiesInv /\ [Next]_vars => [DepartsDone]_vars
  BY StepDeparts DEF DutiesInv, Inv
<1>2. [][DepartsDone]_vars => QueueDepartures
  BY PTL DEF QueueDepartures, DepartsDone
<1> QED BY <1>1, <1>2, Invariant, Duties, PTL DEF Spec


-----------------------------------------------------------------------------
(* The abstract index.                                                     *)

\* What TypeOK and the assumption on the constants say of messages and levels.
LEMMA InboxFacts ==
  ASSUME TypeOK
  PROVE  /\ Len(inbox) \in Nat /\ DOMAIN inbox = 1 .. Len(inbox)
         /\ \A i \in DOMAIN inbox : inbox[i].level \in Nat
         /\ FirstLevel \in Nat /\ Origination \in Nat /\ Legacy \subseteq Nat
<1>1. inbox \in Seq([kind : Kinds \cup {"external"}, level : Nat])
  BY DEF TypeOK, TypeWorld
<1>2. \A i \in 1 .. Len(inbox) : inbox[i] \in [kind : Kinds \cup {"external"}, level : Nat]
  BY <1>1, ElementOfSeq
<1> QED BY <1>1, <1>2, LenProperties, ConstantsAssumption DEF ConstantsAssumption

\* The window of InboxIndex is what is above the floor.
LEMMA WindowIs ==
  ASSUME TypeOK, NEW i \in DOMAIN inbox
  PROVE  Index!InWindow(i) <=> WindowOpen /\ WindowFloor < i
<1>1. ASSUME Index!InWindow(i) PROVE WindowOpen /\ WindowFloor < i
  <2>1. PICK j \in 1 .. i : inbox[j].level >= FirstLevel
    BY <1>1 DEF Index!InWindow
  <2>2. j \in DOMAIN inbox /\ WindowOpen
    BY <2>1, InboxFacts DEF WindowOpen
  <2>3. WindowFloor \in Nat /\ WindowFloor + 1 <= j
    BY <2>1, <2>2, Floor, InboxFacts
  <2> QED BY <2>1, <2>2, <2>3, InboxFacts
<1>2. ASSUME WindowOpen, WindowFloor < i PROVE Index!InWindow(i)
  <2>1. WindowFloor + 1 \in 1 .. i /\ inbox[WindowFloor + 1].level >= FirstLevel
    BY <1>2, Floor, InboxFacts
  <2> QED BY <2>1 DEF Index!InWindow
<1> QED BY <1>1, <1>2

\* InboxIndex accounts for a level as the invariants of the model do.
LEMMA AccountedLeads ==
  ASSUME NEW k, NEW owing, NEW out
  PROVE  Index!Accounted(k, owing, out) <=> Leads(k, owing, out)
BY DEF Index!Accounted, Index!Reaches, Leads, Due

\* The rows are those of a prefix of the inbox, which is accounted for.
LEMMA Stands ==
  ASSUME TypeOK, Inv, RowsOwn
  PROVE  /\ Consumed \in 0 .. Len(inbox)
         /\ inboxRows = Index!Transfers(Consumed)
         /\ Index!AccountedTo(Consumed, queue \cup meta, outboxRows)
         /\ \A j \in Ids : j \in Nat /\ j <= Consumed
         /\ Ids # {} => Consumed \in Ids
<1>1. Ids \in SUBSET Nat /\ Len(inbox) \in Nat
  BY InboxFacts DEF TypeOK, TypeTables, Ids
<1>2. SafeTables(Ids, inboxRows, queue \cup meta, outboxRows)
  BY SafeNow DEF Inv
<1>3. CASE Ids = {}
  <2>1. Consumed = 0 /\ inboxRows = {}
    BY <1>3 DEF Consumed, Ids
  <2> QED BY <1>1, <1>3, <2>1 DEF Index!Transfers, Index!AccountedTo, Index!Calls
<1>4. CASE Ids # {}
  <2>1. \A j \in Ids : j <= Len(inbox)
    BY <1>2 DEF SafeTables
  <2>2. Consumed = Max(Ids)
    BY <1>4 DEF Consumed
  <2>3. Consumed \in Ids /\ \A j \in Ids : j <= Consumed
    BY <1>1, <1>4, <2>1, <2>2, MaxOfNats
  <2>4. Consumed \in 0 .. Len(inbox)
    BY <1>1, <2>1, <2>3
  <2>5. RowsUpTo(Consumed, inboxRows) /\ OwedUpTo(Consumed, queue \cup meta, outboxRows)
    BY <1>2, <2>3 DEF SafeTables
  <2>6. \A i \in 1 .. Consumed : i \in DOMAIN inbox
    BY <2>4, InboxFacts
  <2>7. ASSUME NEW i \in inboxRows PROVE i \in Index!Transfers(Consumed)
    <3>1. i \in Ids /\ i \in DOMAIN inbox /\ Own(i) /\ Index!InWindow(i)
      BY <2>7 DEF Ids, RowsOwn
    <3>2. i \in 1 .. Consumed
      BY <1>1, <2>3, <2>4, <3>1, InboxFacts
    <3> QED BY <3>1, <3>2 DEF Index!Transfers, Own
  <2>8. ASSUME NEW i \in Index!Transfers(Consumed) PROVE i \in inboxRows
    <3>1. i \in 1 .. Consumed /\ i \in DOMAIN inbox /\ Own(i) /\ Index!InWindow(i)
      BY <2>6, <2>8 DEF Index!Transfers, Own
    <3>2. WindowFloor < i /\ i <= Consumed
      BY <2>4, <3>1, WindowIs
    <3> QED BY <2>5, <3>1, <3>2 DEF RowsUpTo
  <2>9. ASSUME NEW i \in Index!Calls(Consumed)
        PROVE  Index!Accounted(inbox[i].level, queue \cup meta, outboxRows)
    <3>1. i \in 1 .. Consumed /\ i \in DOMAIN inbox /\ External(i) /\ Index!InWindow(i)
          /\ inbox[i].level >= Origination
      BY <2>6, <2>9 DEF Index!Calls, External
    <3>2. WindowFloor < i /\ i <= Consumed /\ Origination <= inbox[i].level
      BY <2>4, <3>1, WindowIs, InboxFacts
    <3>3. Leads(inbox[i].level, queue \cup meta, outboxRows)
      BY <2>5, <3>1, <3>2 DEF OwedUpTo
    <3> QED BY <3>3, AccountedLeads
  <2> QED BY <1>1, <2>3, <2>4, <2>7, <2>8, <2>9 DEF Index!AccountedTo
<1> QED BY <1>3, <1>4

\* What Stands says of a state.
StandsThere ==
  /\ Consumed \in 0 .. Len(inbox)
  /\ inboxRows = Index!Transfers(Consumed)
  /\ Index!AccountedTo(Consumed, queue \cup meta, outboxRows)
  /\ \A j \in Ids : j \in Nat /\ j <= Consumed
  /\ Ids # {} => Consumed \in Ids

\* The lemma Stands, of the next state.
LEMMA StandsPrimed == TypeOK' /\ Inv' /\ RowsOwn' => StandsThere'
<1>1. TypeOK /\ Inv /\ RowsOwn => StandsThere
  BY Stands DEF StandsThere
<1> QED BY <1>1, PTL

-----------------------------------------------------------------------------
(* Reasons.                                                                *)

\* The inbox only grows.
LEMMA InboxGrows ==
  ASSUME TypeOK, [Next]_vars
  PROVE  /\ Len(inbox') \in Nat /\ Len(inbox) <= Len(inbox')
         /\ DOMAIN inbox' = 1 .. Len(inbox')
         /\ \A i \in DOMAIN inbox : i \in DOMAIN inbox' /\ inbox'[i] = inbox[i]
<1>1. CASE UNCHANGED inbox
  BY <1>1, InboxFacts
<1>2. ASSUME NEW kind \in Kinds, NEW level \in 1 .. MaxLevel, Publish(kind, level)
      PROVE  /\ Len(inbox') = Len(inbox) + 1 /\ DOMAIN inbox' = 1 .. Len(inbox')
             /\ \A i \in DOMAIN inbox : inbox'[i] = inbox[i]
  <2>1. inbox \in Seq([kind : Kinds \cup {"external"}, level : Nat])
        /\ [kind |-> kind, level |-> level] \in [kind : Kinds \cup {"external"}, level : Nat]
    BY DEF TypeOK, TypeWorld
  <2> QED BY <1>2, <2>1, AppendProperties, LenProperties DEF Publish
<1>3. UNCHANGED inbox \/ \E kind \in Kinds, level \in 1 .. MaxLevel : Publish(kind, level)
  BY DEF Next, PassStep, vars, world, PrepareWiped, PrepareResumed, DropKey, DropBelowOrigination,
     SaveInsert, SaveDelete, StartDrain, FetchOutbox, StoreOutbox, EmptyPage, WalkPage, StoreInbox,
     KeepSentinel, DeleteSentinel, CreateSentinel, HeadBlock, RunMatcher, Rollback, Crash, NodeApply
<1> QED BY <1>1, <1>2, <1>3, InboxFacts

\* What has a cause keeps it.
LEMMA CausedStays ==
  ASSUME TypeOK, [Next]_vars, NEW l, Index!Caused(l)
  PROVE  Index!Caused(l)'
<1>1. PICK k \in Legacy \cup {inbox[i].level : i \in Index!Calls(Len(inbox))} :
        Index!Reaches(k, l)
  BY DEF Index!Caused
<1>2. CASE k \in Legacy
  BY <1>1, <1>2 DEF Index!Caused, Index!Reaches
<1>3. CASE k \notin Legacy
  <2>1. PICK i \in Index!Calls(Len(inbox)) : k = inbox[i].level
    BY <1>3
  <2>2. i \in DOMAIN inbox /\ i \in 1 .. Len(inbox') /\ \A j \in 1 .. i : inbox'[j] = inbox[j]
    BY <2>1, InboxGrows, InboxFacts DEF Index!Calls
  <2>3. i \in Index!Calls(Len(inbox))'
    BY <2>1, <2>2, InboxFacts DEF Index!Calls, Index!InWindow
  <2>4. k = inbox'[i].level
    BY <2>1, <2>2, InboxFacts DEF Index!Calls
  <2> QED BY <1>1, <2>3, <2>4 DEF Index!Caused, Index!Reaches
<1> QED BY <1>2, <1>3

\* A full outbox passes its cause on.
LEMMA CausedOn ==
  ASSUME TypeOK, NEW l \in Nat, Index!Caused(l), NEW m \in Continuation(l)
  PROVE  Index!Caused(m)
<1>1. PICK k \in Legacy \cup {inbox[i].level : i \in Index!Calls(Len(inbox))} :
        Index!Reaches(k, l)
  BY DEF Index!Caused
<1>2. k \in Nat
  <2>1. \A i \in Index!Calls(Len(inbox)) : inbox[i].level \in Nat
    BY InboxFacts DEF Index!Calls
  <2> QED BY <2>1, InboxFacts
<1>3. m = l + 1 /\ l \in Full
  BY DEF Continuation
<1>4. \A x \in k .. m - 1 : x \in k .. l - 1 \/ x = l
  BY <1>2, <1>3
<1>5. k <= m /\ k .. m - 1 \subseteq Full
  BY <1>1, <1>2, <1>3, <1>4 DEF Index!Reaches
<1> QED BY <1>1, <1>5 DEF Index!Caused, Index!Reaches

\* A level queued by the older version, or of an external, is its own cause.
LEMMA CausedSelf ==
  ASSUME TypeOK, NEW k \in Legacy \cup {inbox[i].level : i \in Index!Calls(Len(inbox))}
  PROVE  Index!Caused(k)
<1>1. k \in Nat
  <2>1. \A i \in Index!Calls(Len(inbox)) : inbox[i].level \in Nat
    BY InboxFacts DEF Index!Calls
  <2> QED BY <2>1, InboxFacts
<1>2. k <= k /\ k .. k - 1 \subseteq Full
  BY <1>1
<1> QED BY <1>2 DEF Index!Caused, Index!Reaches

\* A statement adds its keys to those of its table.
LEMMA KeysStatement ==
  ASSUME TypeOK, NEW t \in Tables, NEW op \in Ops, NEW keys \in SUBSET Nat,
         journal' = Journalled(t, op, keys), NEW u, NEW k \in JournalKeys(u)'
  PROVE  k \in JournalKeys(u) \/ (u = t /\ k \in keys)
<1> DEFINE e == [head |-> head, table |-> t, op |-> op, keys |-> keys]
<1>1. journal \in Seq(Entries(Nat, Tables, Nat)) /\ e \in Entries(Nat, Tables, Nat)
  BY DEF TypeOK, TypeJournal, TypeWorld, Entries, Ops
<1>2. e.table = t /\ e.keys = keys
  OBVIOUS
<1> HIDE DEF e
<1>3. PICK i \in DOMAIN journal' : journal'[i].table = u /\ k \in journal'[i].keys
  BY DEF JournalKeys
<1>4. CASE journal' = journal
  BY <1>3, <1>4 DEF JournalKeys
<1>5. CASE journal' = Append(journal, e)
  <2>1. /\ DOMAIN journal = 1 .. Len(journal) /\ journal'[Len(journal) + 1] = e
        /\ i \in 1 .. Len(journal) \/ i = Len(journal) + 1
        /\ \A j \in 1 .. Len(journal) : journal'[j] = journal[j]
    BY <1>1, <1>3, <1>5, AppendProperties, LenProperties
  <2> QED BY <1>2, <1>3, <2>1 DEF JournalKeys
<1> QED BY <1>4, <1>5 DEF Journalled, e

\* A revert takes entries away, and brings back no key that was in none of them.
LEMMA KeysReverted ==
  ASSUME TypeOK, NEW n \in 0 .. Len(journal), RevertTables(n)
  PROVE  /\ \A u : JournalKeys(u)' \subseteq JournalKeys(u)
         /\ queue' \subseteq queue \cup JournalKeys("queue")
         /\ sentinels' \subseteq sentinels \cup JournalKeys("sentinel")
<1>1. /\ Len(journal) \in Nat /\ DOMAIN journal = 1 .. Len(journal)
      /\ DOMAIN journal' = 1 .. n /\ \A i \in 1 .. n : journal'[i] = journal[i]
  BY LenProperties, SubSeqProperties DEF RevertTables, TypeOK, TypeJournal
<1>2. \A i \in DOMAIN journal' : i \in DOMAIN journal /\ journal'[i] = journal[i]
  BY <1>1
<1>3. ASSUME NEW t, NEW now, NEW k \in Reverted(journal, t, now, n)
      PROVE  k \in now \cup JournalKeys(t)
  <2>1. k \in now \/ \E i \in Touching(journal, t, k, n) : TRUE
    BY <1>3, RevertedMember
  <2> QED BY <1>1, <2>1 DEF Touching, JournalKeys
<1> QED BY <1>2, <1>3 DEF RevertTables, JournalKeys

\* What both kinds of revert revert to.
LEMMA RevertOf ==
  ASSUME TypeOK, Crash \/ \E to \in 0 .. MaxHead : Rollback(to)
  PROVE  \E n \in 0 .. Len(journal) : RevertTables(n)
<1>1. CASE Crash
  <2>1. (IF InTransaction THEN mark ELSE Len(journal)) \in 0 .. Len(journal)
    BY LenProperties DEF TypeOK, TypeJournal
  <2> QED BY <1>1, <2>1 DEF Crash
<1>2. ASSUME NEW to \in 0 .. MaxHead, Rollback(to)
      PROVE  \E n \in 0 .. Len(journal) : RevertTables(n)
  BY <1>2, Kept DEF Rollback
<1> QED BY <1>1, <1>2

\* A pass never reads a cursor below the window.
LEMMA CursorAbove ==
  ASSUME TypeOK, Inv, RowsOwn, StandsInWindow, pc = "page", WindowOpen
  PROVE  WindowFloor <= DbCursor /\ DbCursor \in Nat /\ WindowFloor \in Nat
<1>1. WindowFloor \in Nat /\ DbCursor \in Nat
  BY Floor, CursorRead, InboxFacts DEF Inv
<1>2. CASE Ids = {}
  BY <1>1, <1>2, CursorRead DEF Inv
<1>3. CASE Ids # {}
  <2>1. DbCursor \in inboxRows \/ DbCursor \in sentinels
    BY <1>3, CursorRead DEF Inv, Ids
  <2>2. DbCursor \in inboxRows => WindowFloor < DbCursor
    BY WindowIs DEF RowsOwn
  <2>3. DbCursor \in sentinels => WindowFloor <= DbCursor
    BY DEF StandsInWindow
  <2> QED BY <1>1, <2>1, <2>2, <2>3
<1> QED BY <1>1, <1>2, <1>3

\* A row that is there is a transfer of the window.
LEMMA RowsStep ==
  ASSUME TypeOK, Inv, OnlyInserted, CauseInv, [Next]_vars
  PROVE  RowsOwn'
<1> DEFINE Fit(i) == i \in DOMAIN inbox /\ Own(i) /\ Index!InWindow(i)
<1>1. ASSUME NEW i, Fit(i) PROVE (i \in DOMAIN inbox /\ Own(i) /\ Index!InWindow(i))'
  <2>1. i \in DOMAIN inbox' /\ \A j \in 1 .. i : j \in DOMAIN inbox /\ inbox'[j] = inbox[j]
    BY <1>1, InboxGrows, InboxFacts
  <2>2. i \in 1 .. i
    BY <1>1, InboxFacts
  <2> QED BY <1>1, <2>1, <2>2 DEF Own, Index!InWindow
<1>2. \A i \in inboxRows \cup inboxBatch : Fit(i)
  BY DEF CauseInv, RowsOwn
<1>3. CASE inboxRows' \cup inboxBatch' \subseteq inboxRows \cup inboxBatch
  <2> HIDE DEF Fit
  <2> QED BY <1>1, <1>2, <1>3 DEF RowsOwn
<1>4. CASE WalkPage
  <2>1. pc = "page" /\ WindowOpen
    BY <1>4 DEF WalkPage, Inv, Closed
  <2>2. WindowFloor <= DbCursor /\ DbCursor \in Nat /\ WindowFloor \in Nat
    BY <2>1, CursorAbove DEF CauseInv
  <2>3. inboxRows' = inboxRows
        /\ inboxBatch' = {i \in DOMAIN inbox : Own(i) /\ DbCursor < i /\ i <= cursor'}
    BY <1>4, WalkRead DEF WalkPage, Inv, tables
  <2>4. \A i \in inboxBatch' : Fit(i)
    BY <2>1, <2>2, <2>3, WindowIs, InboxFacts
  <2> HIDE DEF Fit
  <2> QED BY <1>1, <1>2, <2>3, <2>4 DEF RowsOwn
<1>5. CASE Crash \/ \E to \in 0 .. MaxHead : Rollback(to)
  <2>1. inboxRows' \subseteq inboxRows
    BY <1>5, RevertOf, RevertTakes
  <2>2. inboxBatch' \subseteq inboxBatch
    BY <1>5 DEF Crash, Rollback, batches
  <2> QED BY <1>3, <2>1, <2>2
<1> QED BY <1>3, <1>4, <1>5
    DEF Next, PassStep, vars, tables, batches, PrepareWiped, PrepareResumed, DropKey,
        DropBelowOrigination, SaveInsert, SaveDelete, StartDrain, FetchOutbox, StoreOutbox,
        EmptyPage, StoreInbox, KeepSentinel, DeleteSentinel, CreateSentinel, HeadBlock, RunMatcher,
        Publish, NodeApply

\* The index stays in the window.
LEMMA StandsStep ==
  ASSUME TypeOK, Inv, CauseInv, [Next]_vars
  PROVE  StandsInWindow'
<1> DEFINE Above(j) == WindowOpen /\ WindowFloor <= j
<1>0. /\ "sentinel" \in Tables /\ "queue" \in Tables /\ "outbox" \in Tables /\ "inbox" \in Tables
      /\ "INSERT" \in Ops /\ "DELETE" \in Ops
  BY DEF Tables, Ops
<1>1. WindowOpen => WindowOpen' /\ WindowFloor' = WindowFloor
  <2>1. CASE UNCHANGED inbox
    BY <2>1, SameWindow DEF WindowOpen
  <2>2. ASSUME NEW kind \in Kinds, NEW level \in 1 .. MaxLevel, Publish(kind, level), WindowOpen
        PROVE  WindowOpen' /\ WindowFloor' = WindowFloor
    <3>1. PICK i \in DOMAIN inbox : inbox[i].level >= FirstLevel
      BY <2>2 DEF WindowOpen
    <3> QED BY <2>2, <3>1, PublishBelow, InboxGrows DEF WindowOpen
  <2> QED BY <2>1, <2>2
      DEF Next, PassStep, vars, world, PrepareWiped, PrepareResumed, DropKey, SaveInsert,
          DropBelowOrigination, SaveDelete, StartDrain, FetchOutbox, StoreOutbox, EmptyPage,
          WalkPage, StoreInbox, KeepSentinel, DeleteSentinel, CreateSentinel, HeadBlock,
          RunMatcher, Rollback, Crash, NodeApply
<1>2. \A j : Above(j) => WindowOpen' /\ WindowFloor' <= j
  BY <1>1
<1>3. \A j \in sentinels \cup JournalKeys("sentinel") : Above(j)
  BY DEF CauseInv, StandsInWindow
<1>4. stage \in {"commit", "second"} => Above(cursor)
  BY DEF CauseInv, StandsInWindow
<1> HIDE DEF Above
<1>5. \A j \in sentinels' \cup JournalKeys("sentinel")' : Above(j)
  <2>1. CASE UNCHANGED <<sentinels, journal>>
    BY <1>3, <2>1 DEF JournalKeys
  <2>2. CASE SaveInsert \/ SaveDelete \/ StoreOutbox \/ StoreInbox
    <3>1. /\ ((levels \ stored) \ queue) \in SUBSET Nat
          /\ ((stored \ levels) \cap queue) \in SUBSET Nat
          /\ (outboxBatch \ outboxRows) \in SUBSET Nat /\ inboxBatch \in SUBSET Nat
      BY DEF TypeOK, TypeMemory
    <3>2. sentinels' = sentinels
          /\ \E t \in {"queue", "outbox", "inbox"}, op \in Ops, keys \in SUBSET Nat :
               journal' = Journalled(t, op, keys)
      BY <1>0, <2>2, <3>1 DEF SaveInsert, SaveDelete, StoreOutbox, StoreInbox
    <3> QED BY <1>0, <1>3, <3>2, KeysStatement
  <2>3. CASE DeleteSentinel
    <3>1. {s \in sentinels : s < cursor} \in SUBSET Nat
      BY DEF TypeOK, TypeTables
    <3>2. sentinels' \subseteq sentinels
          /\ journal' = Journalled("sentinel", "DELETE", {s \in sentinels : s < cursor})
      BY <2>3 DEF DeleteSentinel
    <3>3. \A k \in JournalKeys("sentinel")' : k \in JournalKeys("sentinel") \/ k \in sentinels
      BY <1>0, <3>1, <3>2, KeysStatement
    <3> QED BY <1>3, <3>2, <3>3
  <2>4. CASE CreateSentinel
    <3>1. {cursor} \in SUBSET Nat
      BY DEF TypeOK, TypeMemory
    <3>2. stage = "second" /\ sentinels' = sentinels \cup {cursor}
          /\ journal' = Journalled("sentinel", "INSERT", {cursor})
      BY <2>4 DEF CreateSentinel, Inv, Control
    <3>3. \A k \in JournalKeys("sentinel")' : k \in JournalKeys("sentinel") \/ k = cursor
      BY <1>0, <3>1, <3>2, KeysStatement
    <3> QED BY <1>3, <1>4, <3>2, <3>3
  <2>5. CASE Crash \/ \E to \in 0 .. MaxHead : Rollback(to)
    BY <1>3, <2>5, RevertOf, KeysReverted
  <2> QED BY <2>1, <2>2, <2>3, <2>4, <2>5
      DEF Next, PassStep, vars, tables, PrepareWiped, PrepareResumed, DropKey,
          DropBelowOrigination, StartDrain, FetchOutbox, EmptyPage, WalkPage, KeepSentinel,
          HeadBlock, RunMatcher, Publish, NodeApply
<1>6. stage' \in {"commit", "second"} => Above(cursor')
  <2>1. CASE WalkPage
    <3>1. pc = "page" /\ WindowOpen
      BY <2>1 DEF WalkPage, Inv, Closed
    <3>2. WindowFloor <= DbCursor /\ DbCursor \in Nat /\ WindowFloor \in Nat
      BY <3>1, CursorAbove DEF CauseInv
    <3>3. cursor' \in Nat /\ DbCursor <= cursor'
      BY <2>1, WalkRead DEF Inv
    <3> QED BY <3>1, <3>2, <3>3 DEF Above
  <2>2. CASE EmptyPage
    <3>1. pc = "page" /\ WindowOpen /\ stage = "first"
      BY <2>2 DEF EmptyPage, Inv, Closed, Control
    <3>2. WindowFloor <= DbCursor
      BY <3>1, CursorAbove DEF CauseInv
    <3> QED BY <2>2, <3>1, <3>2 DEF EmptyPage, Above
  <2>3. CASE stage' \notin {"commit", "second"}
    BY <2>3
  <2>4. CASE cursor' = cursor /\ stage \in {"commit", "second"}
    BY <1>4, <2>4
  <2> QED BY <2>1, <2>2, <2>3, <2>4
      DEF Next, PassStep, vars, PrepareWiped, PrepareResumed, DropKey, DropBelowOrigination,
          SaveInsert, SaveDelete, StartDrain, FetchOutbox, StoreOutbox, StoreInbox, KeepSentinel,
          DeleteSentinel, CreateSentinel, EndPass, HeadBlock, RunMatcher, Rollback, Crash,
          Publish, NodeApply, Inv, Control, Saving
<1> QED BY <1>2, <1>5, <1>6 DEF StandsInWindow

\* Every level the index comes to hold has a cause.
LEMMA CausedStep ==
  ASSUME TypeOK, Inv, CauseInv, [Next]_vars
  PROVE  LevelsCaused'
<1> USE DEF LevelsHeld
<1> DEFINE Held(l) == l \in LevelsHeld
<1>0. /\ "sentinel" \in Tables /\ "queue" \in Tables /\ "outbox" \in Tables /\ "inbox" \in Tables
      /\ "INSERT" \in Ops /\ "DELETE" \in Ops
      /\ LevelsHeld \ JournalKeys("queue") \subseteq Nat
  BY DEF Tables, Ops, TypeOK, TypeTables, TypeMemory
<1>1. (\A l \in LevelsHeld : Index!Caused(l)) /\ outboxBatch \subseteq Hashable
  BY DEF CauseInv, LevelsCaused
<1>2. ASSUME \A l \in LevelsHeld' : Index!Caused(l), outboxBatch' \subseteq Hashable
      PROVE  LevelsCaused'
  BY <1>2, CausedStays DEF LevelsCaused
<1>3. CASE LevelsHeld' \subseteq LevelsHeld /\ outboxBatch' \subseteq outboxBatch
  BY <1>1, <1>2, <1>3
<1>4. CASE SaveInsert
  <2>1. ((levels \ stored) \ queue) \in SUBSET Nat
    BY DEF TypeOK, TypeMemory
  <2>2. \A k \in JournalKeys("queue")' : k \in JournalKeys("queue") \cup levels
    BY <1>0, <1>4, <2>1, KeysStatement DEF SaveInsert
  <2> QED BY <1>3, <1>4, <2>2 DEF SaveInsert, owed, batches
<1>5. CASE SaveDelete
  <2>1. ((stored \ levels) \cap queue) \in SUBSET Nat
    BY DEF TypeOK, TypeMemory
  <2>2. \A k \in JournalKeys("queue")' : k \in JournalKeys("queue") \cup queue
    BY <1>0, <1>5, <2>1, KeysStatement DEF SaveDelete
  <2> QED BY <1>3, <1>5, <2>2 DEF SaveDelete, batches
<1>6. CASE StoreOutbox \/ StoreInbox \/ DeleteSentinel \/ CreateSentinel
  <2>1. /\ (outboxBatch \ outboxRows) \in SUBSET Nat /\ inboxBatch \in SUBSET Nat
        /\ {s \in sentinels : s < cursor} \in SUBSET Nat /\ {cursor} \in SUBSET Nat
    BY DEF TypeOK, TypeMemory, TypeTables
  <2>2. \E t \in {"outbox", "inbox", "sentinel"}, op \in Ops, keys \in SUBSET Nat :
          journal' = Journalled(t, op, keys)
    BY <1>0, <1>6, <2>1 DEF StoreOutbox, StoreInbox, DeleteSentinel, CreateSentinel
  <2>3. \A k \in JournalKeys("queue")' : k \in JournalKeys("queue")
    BY <1>0, <2>2, KeysStatement
  <2> QED BY <1>3, <1>6, <2>3
      DEF StoreOutbox, StoreInbox, DeleteSentinel, CreateSentinel, owed, batches
<1>7. CASE FetchOutbox
  <2>1. PICK l \in levels :
          /\ levels' = (levels \ {l}) \cup Continuation(l)
          /\ staged' = (staged \ {l}) \cup Continuation(l)
          /\ outboxBatch' = outboxBatch \cup ({l} \cap Hashable)
    BY <1>7 DEF FetchOutbox
  <2>2. l \in Nat /\ Index!Caused(l)
    BY <1>1 DEF TypeOK, TypeMemory
  <2>3. \A m \in Continuation(l) : Index!Caused(m)
    BY <2>2, CausedOn
  <2>4. \A m \in LevelsHeld' : m \in LevelsHeld \/ m \in Continuation(l)
    BY <1>7, <2>1 DEF FetchOutbox, tables, JournalKeys
  <2> QED BY <1>1, <1>2, <2>1, <2>3, <2>4
<1>8. CASE WalkPage
  <2> DEFINE ext     == {j \in Page(DbCursor) : External(j)}
             learned == SinceOrigination({inbox[i].level : i \in ext})
  <2>1. pc = "page" /\ WindowOpen
    BY <1>8 DEF WalkPage, Inv, Closed
  <2>2. WindowFloor <= DbCursor /\ DbCursor \in Nat /\ WindowFloor \in Nat
    BY <2>1, CursorAbove DEF CauseInv
  <2>3. \A i \in ext : i \in DOMAIN inbox /\ External(i) /\ DbCursor < i
    BY DEF Page
  <2>4. ASSUME NEW i \in ext, inbox[i].level >= Origination
        PROVE  Index!Caused(inbox[i].level)
    <3>1. Index!InWindow(i)
      BY <2>1, <2>2, <2>3, WindowIs, InboxFacts
    <3>2. i \in Index!Calls(Len(inbox))
      BY <2>3, <2>4, <3>1, InboxFacts DEF Index!Calls, External
    <3> QED BY <3>2, CausedSelf
  <2>5. \A l \in learned : Index!Caused(l)
    <3> HIDE DEF ext
    <3> QED BY <2>4 DEF SinceOrigination
  <2>6. levels' = levels \cup learned /\ staged' = staged \cup learned
        /\ UNCHANGED <<stored, queue, meta, outboxBatch, journal>>
    BY <1>8 DEF WalkPage, tables
  <2> HIDE DEF learned
  <2>7. \A l \in LevelsHeld' : l \in LevelsHeld \/ l \in learned
    BY <2>6 DEF JournalKeys
  <2> QED BY <1>1, <1>2, <2>5, <2>6, <2>7
<1>9. CASE Crash \/ \E to \in 0 .. MaxHead : Rollback(to)
  <2>1. queue' \subseteq queue \cup JournalKeys("queue")
        /\ JournalKeys("queue")' \subseteq JournalKeys("queue")
    BY <1>9, RevertOf, KeysReverted
  <2>2. /\ levels' \subseteq levels /\ stored' \subseteq stored /\ staged' \subseteq staged
        /\ outboxBatch' \subseteq outboxBatch /\ meta' = meta
    BY <1>9 DEF Crash, Rollback, owed, batches
  <2> QED BY <1>3, <2>1, <2>2
<1>10. CASE UNCHANGED journal /\ UNCHANGED outboxBatch
            /\ levels' \cup stored' \cup staged' \cup queue' \cup meta'
                 \subseteq levels \cup stored \cup staged \cup queue \cup meta
  BY <1>3, <1>10 DEF JournalKeys
<1> QED BY <1>4, <1>5, <1>6, <1>7, <1>8, <1>9, <1>10
    DEF Next, PassStep, vars, tables, owed, batches, PrepareWiped, PrepareResumed, DropKey,
        DropBelowOrigination, SinceOrigination, StartDrain, EmptyPage, KeepSentinel, HeadBlock,
        RunMatcher, Publish, NodeApply

\* An empty database holds nothing, that of the older version what it owed.
LEMMA InitCause ==
  ASSUME Init
  PROVE  CauseInv
<1>1. TypeOK
  BY InitInv
<1>2. inboxRows = {} /\ inboxBatch = {} /\ journal = <<>> /\ outboxBatch = {}
      /\ stage = "adopt" /\ \A u : JournalKeys(u) = {}
  BY DEF Init, JournalKeys
<1>3. RowsOwn
  BY <1>2 DEF RowsOwn
<1>4. LevelsHeld \subseteq Legacy
  BY <1>2 DEF Init, LevelsHeld
<1>5. LevelsCaused
  BY <1>1, <1>2, <1>4, CausedSelf DEF LevelsCaused
<1>6. ASSUME NEW j \in sentinels PROVE WindowOpen /\ WindowFloor <= j
  <2>1. PICK l \in Legacy : FirstLevel <= l /\ inbox = <<[kind |-> "external", level |-> l]>>
    BY <1>6 DEF Init
  <2>2. Len(inbox) = 1 /\ inbox[1].level = l /\ j = 1
    BY <1>6, <2>1 DEF Init
  <2>3. 1 \in DOMAIN inbox /\ inbox[1].level >= FirstLevel
    BY <1>1, <2>1, <2>2, InboxFacts
  <2>4. WindowOpen
    BY <2>3 DEF WindowOpen
  <2> QED BY <1>1, <2>2, <2>4, Floor
<1> QED BY <1>2, <1>3, <1>5, <1>6 DEF CauseInv, StandsInWindow

-----------------------------------------------------------------------------
(* The refinement.                                                         *)

\* ... and maps to an initial state of InboxIndex.
LEMMA IndexInit ==
  ASSUME Init
  PROVE  Index!Init
<1>1. CASE sentinels = {}
  <2>1. Consumed = 0
    BY <1>1 DEF Init, Consumed, Ids
  <2> QED BY <1>1, <2>1 DEF Init, Index!Init
<1>2. CASE sentinels # {}
  <2>1. Ids = {1} /\ Ids \in SUBSET Nat /\ \A x \in Ids : x <= 1
    BY <1>2 DEF Init, Ids
  <2>2. Consumed = 1
    BY <2>1, MaxOfNats DEF Consumed
  <2> QED BY <1>2, <2>2 DEF Init, Index!Init
<1> QED BY <1>1, <1>2

\* Where the next state stands, on the same inbox.
LEMMA StandsNext ==
  ASSUME TypeOK', Inv', RowsOwn', UNCHANGED inbox
  PROVE  /\ Consumed' \in 0 .. Len(inbox) /\ inboxRows' = Index!Transfers(Consumed')
         /\ Index!AccountedTo(Consumed', (queue \cup meta)', outboxRows')
         /\ \A j \in Ids' : j \in Nat /\ j <= Consumed'
         /\ Ids' # {} => Consumed' \in Ids'
         /\ Ids' = {} => Consumed' = 0
<1>1. StandsThere'
  BY StandsPrimed
<1>2. Index!Transfers(Consumed)' = Index!Transfers(Consumed')
  BY DEF Index!Transfers, Index!InWindow
<1>3. Index!AccountedTo(Consumed, queue \cup meta, outboxRows)'
        => Index!AccountedTo(Consumed', (queue \cup meta)', outboxRows')
  BY DEF Index!AccountedTo, Index!Calls, Index!InWindow, Index!Accounted, Index!Reaches
<1>4. Ids' = {} => Consumed' = 0
  BY DEF Consumed
<1> QED BY <1>1, <1>2, <1>3, <1>4 DEF StandsThere

\* The statements that move the cursor: forward, or back while its row is replaced.
LEMMA MoveStep ==
  ASSUME TypeOK, TypeOK', Inv, Inv', RowsOwn, RowsOwn',
         UNCHANGED <<inbox, queue, meta, outboxRows, crashes, rollbacks>>,
         \/ Ids \subseteq Ids'
         \/ Ids' \subseteq Ids /\ inboxRows' = inboxRows
  PROVE  [Index!Next]_(Index!vars)
<1>1. /\ Consumed \in 0 .. Len(inbox) /\ inboxRows = Index!Transfers(Consumed)
      /\ \A j \in Ids : j \in Nat /\ j <= Consumed
      /\ Ids # {} => Consumed \in Ids
      /\ Ids = {} => Consumed = 0
  BY Stands DEF Consumed
<1>2. /\ Consumed' \in 0 .. Len(inbox) /\ inboxRows' = Index!Transfers(Consumed')
      /\ Index!AccountedTo(Consumed', queue \cup meta, outboxRows)
      /\ \A j \in Ids' : j \in Nat /\ j <= Consumed'
      /\ Ids' # {} => Consumed' \in Ids'
      /\ Ids' = {} => Consumed' = 0
  BY StandsNext
<1> HIDE DEF Consumed
<1>3. Len(inbox) \in Nat
  BY InboxFacts
<1>4. CASE Consumed' = Consumed
  BY <1>1, <1>2, <1>4 DEF Index!vars
<1>5. CASE Consumed < Consumed'
  <2>1. Consumed' <= Len(inbox)
    BY <1>2, <1>3
  <2> QED BY <1>2, <1>5, <2>1 DEF Index!Next, Index!Consume
<1>6. CASE Consumed' < Consumed
  <2>1. inboxRows' = inboxRows
    BY <1>1, <1>2, <1>6
  <2> QED BY <1>1, <1>2, <1>6, <2>1 DEF Index!Next, Index!Rewind
<1> QED BY <1>1, <1>2, <1>3, <1>4, <1>5, <1>6

\* A rollback, or a restart, goes back to a state that was accounted for.
LEMMA BackStep ==
  ASSUME TypeOK, TypeOK', Inv', OnlyInserted, CauseInv, RowsOwn',
         Crash \/ \E to \in 0 .. MaxHead : Rollback(to)
  PROVE  Index!Revert
<1>1. inboxRows' \subseteq inboxRows /\ outboxRows' \subseteq outboxRows
  BY RevertOf, RevertTakes
<1>2. queue' \cup meta' \subseteq LevelsHeld
  BY RevertOf, KeysReverted DEF LevelsHeld, Crash, Rollback
<1>3. \A l \in (queue \cup meta)' : Index!Caused(l)
  BY <1>2 DEF CauseInv, LevelsCaused
<1>4. UNCHANGED inbox
  BY DEF Crash, Rollback, world
<1>5. (crashes + rollbacks)' = crashes + rollbacks + 1
  <2>1. crashes \in Nat /\ rollbacks \in Nat
    BY DEF TypeOK, TypeHistory
  <2>2. CASE Crash
    <3>1. crashes' = crashes + 1 /\ rollbacks' = rollbacks
      BY <2>2 DEF Crash
    <3> QED BY <2>1, <3>1
  <2>3. ASSUME NEW to \in 0 .. MaxHead, Rollback(to)
        PROVE  (crashes + rollbacks)' = crashes + rollbacks + 1
    <3>1. rollbacks' = rollbacks + 1 /\ crashes' = crashes
      BY <2>3 DEF Rollback
    <3> QED BY <2>1, <3>1
  <2> QED BY <2>2, <2>3
<1>6. /\ Consumed' \in 0 .. Len(inbox) /\ inboxRows' = Index!Transfers(Consumed')
      /\ Index!AccountedTo(Consumed', (queue \cup meta)', outboxRows')
  BY <1>4, StandsNext
<1> HIDE DEF Consumed
<1> QED BY <1>1, <1>3, <1>4, <1>5, <1>6 DEF Index!Revert

\* Every statement is a step of InboxIndex, or none.
LEMMA IndexStep ==
  ASSUME TypeOK, TypeOK', Inv, Inv', DutiesInv, CauseInv, CauseInv', [Next]_vars
  PROVE  [Index!Next]_(Index!vars)
<1>1. CASE UNCHANGED <<inbox, inboxRows, sentinels, queue, meta, outboxRows, crashes, rollbacks>>
  BY <1>1 DEF Index!vars, Consumed, Ids
<1>2. CASE PrepareWiped
  <2>1. Ids = {} /\ UNCHANGED <<inbox, inboxRows, sentinels, meta, outboxRows, crashes, rollbacks>>
        /\ queue' = {}
    BY <1>2 DEF PrepareWiped, world, history
  <2>2. Consumed = 0 /\ Consumed' = Consumed
    BY <2>1 DEF Consumed, Ids
  <2> HIDE DEF Consumed
  <2> QED BY <2>1, <2>2 DEF Index!Next, Index!Forget
<1>3. CASE DropKey
  <2>1. UNCHANGED <<inbox, inboxRows, sentinels, queue, outboxRows, crashes, rollbacks>>
        /\ meta' = {} /\ Consumed' = Consumed
    BY <1>3 DEF DropKey, world, history, Consumed, Ids
  <2>2. CASE stage = "drop"
    <3>1. Consumed = 0
      BY <2>2 DEF Inv, Memory, Consumed
    <3> HIDE DEF Consumed
    <3> QED BY <2>1, <3>1 DEF Index!Next, Index!Forget
  <2>3. CASE stage # "drop"
    <3>1. meta \subseteq queue
      BY <1>3, <2>3 DEF DropKey, Inv, Memory, Control
    <3> HIDE DEF Consumed
    <3> QED BY <2>1, <3>1 DEF Index!vars
  <2> QED BY <2>2, <2>3
<1>4. CASE DropBelowOrigination
  <2>1. UNCHANGED <<inbox, inboxRows, sentinels, meta, outboxRows, crashes, rollbacks>>
        /\ Consumed' = Consumed
    BY <1>4 DEF DropBelowOrigination, world, history, Consumed, Ids
  <2>2. queue' \subseteq queue /\ \A l \in queue \ queue' : l < Origination
    BY <1>4, InboxFacts DEF DropBelowOrigination, SinceOrigination, TypeOK, TypeTables
  <2> HIDE DEF Consumed
  <2> QED BY <2>1, <2>2 DEF Index!Next, Index!Forget
<1>5. CASE SaveInsert
  <2>1. UNCHANGED <<inbox, inboxRows, sentinels, meta, outboxRows, crashes, rollbacks>>
        /\ Consumed' = Consumed /\ queue' = queue \cup ((levels \ stored) \ queue)
    BY <1>5 DEF SaveInsert, world, history, Consumed, Ids
  <2>2. \A l \in levels : Index!Caused(l)
    BY DEF CauseInv, LevelsCaused, LevelsHeld
  <2> HIDE DEF Consumed
  <2> QED BY <2>1, <2>2 DEF Index!Next, Index!Owe
<1>6. CASE SaveDelete
  <2>1. UNCHANGED <<inbox, inboxRows, sentinels, meta, outboxRows, crashes, rollbacks>>
        /\ Consumed' = Consumed /\ queue' = queue \ ((stored \ levels) \cap queue)
    BY <1>6 DEF SaveDelete, world, history, Consumed, Ids
  <2>2. levels \subseteq queue' /\ outboxBatch = {}
    BY <1>6, <2>1 DEF SaveDelete, Inv, Memory
  <2>3. ASSUME NEW l \in queue \ queue' PROVE Index!Accounted(l, queue' \cup meta, outboxRows)
    <3>1. Leads(l, levels, outboxRows)
      BY <1>6, <2>1, <2>2, <2>3 DEF SaveDelete, Inv, Drained, Saving
    <3>2. Leads(l, queue' \cup meta, outboxRows)
      BY <2>2, <3>1 DEF Leads
    <3> QED BY <3>2, AccountedLeads
  <2> HIDE DEF Consumed
  <2> QED BY <2>1, <2>3 DEF Index!Next, Index!Settle
<1>7. CASE StoreOutbox
  <2>1. UNCHANGED <<inbox, inboxRows, sentinels, queue, meta, crashes, rollbacks>>
        /\ Consumed' = Consumed /\ outboxRows' = outboxRows \cup outboxBatch
    BY <1>7 DEF StoreOutbox, world, history, Consumed, Ids
  <2>2. \A l \in outboxBatch : l \in Hashable /\ Index!Caused(l)
    BY DEF CauseInv, LevelsCaused, LevelsHeld
  <2> HIDE DEF Consumed
  <2> QED BY <2>1, <2>2 DEF Index!Next, Index!Serve
<1>8. CASE StoreInbox
  BY <1>8, MoveStep DEF StoreInbox, world, history, Ids, CauseInv
<1>9. CASE DeleteSentinel
  BY <1>9, MoveStep DEF DeleteSentinel, world, history, Ids, CauseInv
<1>10. CASE CreateSentinel
  BY <1>10, MoveStep DEF CreateSentinel, world, history, Ids, CauseInv
<1>11. CASE Crash \/ \E to \in 0 .. MaxHead : Rollback(to)
  BY <1>11, BackStep DEF DutiesInv, CauseInv, Index!Next
<1>12. ASSUME NEW kind \in Kinds, NEW level \in 1 .. MaxLevel, Publish(kind, level)
       PROVE  Index!Publish
  <2>1. UNCHANGED <<inboxRows, sentinels, queue, meta, outboxRows, crashes, rollbacks>>
        /\ Consumed' = Consumed /\ inbox' = Append(inbox, [kind |-> kind, level |-> level])
    BY <1>12 DEF Publish, tables, history, Consumed, Ids
  <2>2. level \in Levels
    BY ConstantsAssumption DEF ConstantsAssumption, Levels
  <2> HIDE DEF Consumed
  <2> QED BY <2>1, <2>2 DEF Index!Publish
<1> QED BY <1>1, <1>2, <1>3, <1>4, <1>5, <1>6, <1>7, <1>8, <1>9, <1>10, <1>11, <1>12
    DEF Next, PassStep, vars, world, tables, history, PrepareResumed, StartDrain, FetchOutbox,
        EmptyPage, WalkPage, KeepSentinel, HeadBlock, RunMatcher, NodeApply, Index!Next

-----------------------------------------------------------------------------
\* Whatever the index holds has a reason: rows are transfers of the window, levels come
\* from an external or the older version, and no revert brings anything else back.
THEOREM Causes == ~RollbackAcrossRestart => (Spec => []CauseInv)
<1> SUFFICES ASSUME ~RollbackAcrossRestart PROVE Spec => []CauseInv
  OBVIOUS
<1>1. TypeOK /\ Inv /\ DutiesInv /\ CauseInv /\ [Next]_vars => CauseInv'
  BY RowsStep, StandsStep, CausedStep DEF CauseInv, DutiesInv
<1> QED BY <1>1, InitCause, Invariant, Duties, PTL DEF Spec

\* The index implements the abstract one (InboxIndex): at every statement of a pass and
\* after every restart and rollback, its rows are those of a prefix of the inbox whose
\* outbox levels are stored or owed, and no owed level is given up.
THEOREM ImplementsIndex == ~RollbackAcrossRestart => (Spec => KeepsPromise)
<1> SUFFICES ASSUME ~RollbackAcrossRestart PROVE Spec => KeepsPromise
  OBVIOUS
<1>1. (TypeOK /\ Inv) /\ (TypeOK /\ Inv)' /\ DutiesInv /\ CauseInv /\ CauseInv' /\ [Next]_vars
        => [Index!Next]_(Index!vars)
  BY IndexStep
<1> QED BY <1>1, IndexInit, Invariant, Duties, Causes, PTL DEF Spec, KeepsPromise, Index!Spec

\* Without transfers to other rollups in the inbox, the walk leaves the cursor on the last
\* message of its page: those are the only cause of its standing below.
THEOREM WalkWithoutForeign ==
  ~RollbackAcrossRestart /\ "foreign" \notin Kinds => (Spec => WalkStandsOnLastMessage)
<1> SUFFICES ASSUME ~RollbackAcrossRestart, "foreign" \notin Kinds
             PROVE  Spec => WalkStandsOnLastMessage
  OBVIOUS
<1> DEFINE OnLast == WalkPage => \A i \in Page(DbCursor) : i <= cursor'
<1>1. TypeOK /\ Inv /\ [Next]_vars => OnLast
  <2> SUFFICES ASSUME TypeOK, Inv, WalkPage, NEW i \in Page(DbCursor)
               PROVE  i <= cursor'
    OBVIOUS
  <2>1. pc = "page" /\ DbCursor \in Nat /\ DOMAIN inbox \in SUBSET Nat /\ i \in DOMAIN inbox
    BY CursorRead, InboxFacts DEF Inv, WalkPage, Page
  <2>2. Own(i) \/ External(i)
    <3>1. inbox[i] \in [kind : Kinds \cup {"external"}, level : Nat]
      BY <2>1, InboxFacts, ElementOfSeq DEF TypeOK, TypeWorld
    <3> QED BY <3>1, ConstantsAssumption DEF ConstantsAssumption, Own, External
  <2> DEFINE S == {DbCursor} \cup {j \in Page(DbCursor) : Own(j) \/ External(j)}
  <2>3. S \in SUBSET Nat /\ i \in S /\ DbCursor + PageLimit \in Nat
        /\ \A j \in S : j <= DbCursor + PageLimit
    BY <2>1, <2>2, ConstantsAssumption DEF ConstantsAssumption, Page
  <2>4. cursor' = Max(S)
    BY DEF WalkPage, Reached
  <2> HIDE DEF S
  <2> QED BY <2>3, <2>4, MaxOfNats
<1>2. [][OnLast]_vars => WalkStandsOnLastMessage
  BY PTL DEF WalkStandsOnLastMessage
<1> QED BY <1>1, <1>2, Invariant, PTL DEF Spec

=============================================================================
