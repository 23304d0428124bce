------------------------- MODULE RollupMessageIndex -------------------------
(***************************************************************************)
(* The indexer of the Etherlink rollup's inbox (from TzKT) and outbox (from *)
(* the rollup node): handlers/rollup_message.py, classes RollupMessageIndex *)
(* and PendingOutboxLevels, driven by hooks/on_restart.py (backfill),       *)
(* handlers/tezos/on_head.py (realtime) and hooks/on_index_rollback.py.     *)
(*                                                                         *)
(* One action is one database statement, one answered request, or the walk  *)
(* over one page, because those are the points at which the process can     *)
(* die.  The backfill runs outside any transaction: every statement is      *)
(* committed as it is made.  A realtime pass runs inside the transaction of *)
(* the head handler, and every statement of it is journalled at the head's  *)
(* level, for a rollback of the head index to revert.                       *)
(*                                                                         *)
(* Message ids are positions in `inbox`.  All outbox messages of one level  *)
(* are stored by one statement, so the outbox table is the set of levels    *)
(* whose messages it holds.                                                *)
(***************************************************************************)
EXTENDS Journal, Integers, Sequences, FiniteSets, FiniteSetsExt

CONSTANTS
  Kinds,                  \* kinds of message the shared inbox receives
  Origination,            \* level at which the rollup was originated
  FirstLevel,             \* first level of the indexed window
  PageLimit,              \* request_limit: messages in one TzKT answer
  Full,                   \* levels whose outbox is full
  Hashable,               \* levels whose outbox has messages worth a row
  Legacy,                 \* levels in the dipdup_meta key of the old version
  RollbackAcrossRestart,  \* may a rollback revert what an earlier process wrote?
  MaxMessages, MaxLevel, MaxHead, MaxCrashes, MaxRollbacks  \* bounds

ASSUME ConstantsAssumption ==
  /\ Kinds \subseteq {"transfer", "foreign", "external"}
  /\ Origination \in Nat /\ FirstLevel \in Nat
  /\ PageLimit \in Nat \ {0}
  /\ Full \subseteq Nat /\ Hashable \subseteq Nat /\ Legacy \subseteq Nat
  /\ RollbackAcrossRestart \in BOOLEAN
  /\ {MaxMessages, MaxLevel, MaxHead, MaxCrashes, MaxRollbacks} \subseteq Nat

VARIABLES
  \* the outside world
  inbox,        \* what TzKT has published: a sequence of [kind, level]
  applied,      \* last L1 level the rollup node has applied
  head,         \* level of the last head block handled
  \* the database
  inboxRows,    \* ids of the transfers to this rollup in rollup_inbox_message
  sentinels,    \* ids of the level-0 rows of rollup_inbox_message
  queue,        \* levels in rollup_pending_outbox_level
  outboxRows,   \* levels whose messages are in rollup_outbox_message
  meta,         \* levels in the legacy dipdup_meta key; {} is no key
  journal,      \* dipdup_model_update: [head, table, op, keys], oldest first
  \* the memory of the process
  status,       \* RollupMessageIndex._status
  levels, stored, staged,  \* PendingOutboxLevels: _levels, _stored, _staged
  inboxBatch, outboxBatch, \* _create_inbox_batch, _create_outbox_batch
  cursor,       \* the pass's own cursor
  ceiling,      \* the node's processed level as this drain read it
  committed,    \* has this pass committed outbox rows?
  armed,        \* flags of BridgeMatcherLocks set by this component
  pc, stage,    \* next step of the process, and which caller it serves
  mark,         \* length of the journal when the current transaction began
  base,         \* length of the journal when this process started
  \* history
  offered,      \* per table, the rows the matcher has run its steps on
  crashes, rollbacks

world  == <<inbox, applied>>
tables == <<inboxRows, sentinels, queue, outboxRows, meta>>
owed   == <<levels, stored, staged>>
batches == <<inboxBatch, outboxBatch>>
session == <<mark, base>>
history == <<offered, crashes, rollbacks>>
vars == <<world, head, tables, journal, status, owed, batches, cursor, ceiling,
          committed, armed, pc, stage, session, history>>

-----------------------------------------------------------------------------
(* What the data says.                                                     *)

Own(i)      == inbox[i].kind = "transfer"
External(i) == inbox[i].kind = "external"

\* TzKT has a message in the window: the first one exists.
WindowOpen == \E i \in DOMAIN inbox : inbox[i].level >= FirstLevel

\* Mutant: the walk starts one id too low.
WindowFloorTooLow ==
  Min({i \in DOMAIN inbox : inbox[i].level >= FirstLevel}) - 2

\* The id just below the first message of the window.
WindowFloor ==
  Min({i \in DOMAIN inbox : inbox[i].level >= FirstLevel}) - 1

Ids == inboxRows \cup sentinels

\* Mutant: the cursor is also remembered from the last pass.
DbCursorRemembered == Max(Ids \cup {cursor, WindowFloor})

\* The last inbox id already consumed, read back from the rows.
DbCursor == IF Ids = {} THEN WindowFloor ELSE Max(Ids)

\* Mutant: `id.ge=` for `id.gt=`.
PageInclusive(after) == {i \in DOMAIN inbox : after <= i /\ i <= after + PageLimit}

\* The ids of the page TzKT answers for `id.gt=after`.
Page(after) == {i \in DOMAIN inbox : after < i /\ i <= after + PageLimit}

\* Mutant: only the transfers to this rollup move the cursor.
ReachedByOwn(page) == Max({DbCursor} \cup {i \in page : Own(i)})

\* Where the walk over a page stops: transfers to other rollups do not move it.
Reached(page) == Max({DbCursor} \cup {i \in page : Own(i) \/ External(i)})

\* Mutant: no origination test.
SinceOriginationUnclamped(ls) == ls

\* The levels the rollup existed at.
SinceOrigination(ls) == {l \in ls : l >= Origination}

\* Mutant: a full outbox asks for nothing.
ContinuationForgotten(l) == {}

\* A full outbox owes its continuation.
Continuation(l) == IF l \in Full THEN {l + 1} ELSE {}

InTransaction == status = "realtime" /\ pc # "idle"

\* A statement of a realtime pass is journalled; one of the backfill is not.
Journalled(table, op, keys) ==
  IF status = "realtime" /\ keys # {}
  THEN Append(journal, [head |-> head, table |-> table, op |-> op, keys |-> keys])
  ELSE journal

RevertTables(n) ==
  /\ inboxRows' = Reverted(journal, "inbox", inboxRows, n)
  /\ sentinels' = Reverted(journal, "sentinel", sentinels, n)
  /\ queue' = Reverted(journal, "queue", queue, n)
  /\ outboxRows' = Reverted(journal, "outbox", outboxRows, n)
  /\ journal' = SubSeq(journal, 1, n)

\* A rolled-back row has to be offered to the matcher again when it returns.
StillOffered == [inbox |-> offered.inbox \cap inboxRows',
                 outbox |-> offered.outbox \cap outboxRows']

-----------------------------------------------------------------------------
\* A new database, which a dipdup_meta key may have outlived, or the database
\* of the version that kept the queue in that key: it has consumed externals of
\* the legacy levels, and stands on a sentinel.
Init ==
  /\ \/ /\ inbox = <<>>
        /\ sentinels = {}
        /\ meta \in {{}, Legacy}
     \/ \E l \in Legacy :
        /\ FirstLevel <= l
        /\ inbox = <<[kind |-> "external", level |-> l]>>
        /\ sentinels = {1}
        /\ meta = Legacy
  /\ inboxRows = {} /\ queue = {} /\ outboxRows = {} /\ journal = <<>>
  /\ applied = 0 /\ head = 0
  /\ status = "new" /\ pc = "prepare" /\ stage = "adopt"
  /\ levels = {} /\ stored = {} /\ staged = {}
  /\ inboxBatch = {} /\ outboxBatch = {}
  /\ cursor = 0 /\ ceiling = 0 /\ committed = FALSE /\ armed = {}
  /\ mark = 0 /\ base = 0
  /\ offered = [inbox |-> {}, outbox |-> {}] /\ crashes = 0 /\ rollbacks = 0

-----------------------------------------------------------------------------
(* The boot: _prepare_new_index.                                           *)

\* Mutant: every start drops the queue.
PrepareAlwaysWipes ==
  /\ pc = "prepare" /\ WindowOpen
  /\ queue' = {}
  /\ pc' = "dropKey" /\ stage' = "drop"
  /\ UNCHANGED <<world, head, inboxRows, sentinels, outboxRows, meta, journal, status,
                 owed, batches, cursor, ceiling, committed, armed, session, history>>

\* No inbox row: drop() the queue of a database that was wiped, rows first.
PrepareWiped ==
  /\ pc = "prepare" /\ Ids = {} /\ WindowOpen
  /\ queue' = {}
  /\ pc' = "dropKey" /\ stage' = "drop"
  /\ UNCHANGED <<world, head, inboxRows, sentinels, outboxRows, meta, journal, status,
                 owed, batches, cursor, ceiling, committed, armed, session, history>>

\* Mutant: the legacy key goes before its levels are saved.
PrepareDropsKeyFirst ==
  /\ pc = "prepare" /\ Ids # {}
  /\ stored' = queue
  /\ levels' = queue \cup meta
  /\ staged' = meta
  /\ pc' = IF meta = {} THEN "floor" ELSE "dropKey"
  /\ stage' = "adopt"
  /\ UNCHANGED <<world, head, tables, journal, status, batches, cursor, ceiling,
                 committed, armed, session, history>>

\* Rows to resume from: load() reads the queue, and adopts the legacy key into
\* memory before it saves it.
PrepareResumed ==
  /\ pc = "prepare" /\ Ids # {}
  /\ stored' = queue
  /\ levels' = queue \cup meta
  /\ staged' = meta
  /\ pc' = IF meta = {} THEN "floor" ELSE "saveInsert"
  /\ stage' = "adopt"
  /\ UNCHANGED <<world, head, tables, journal, status, batches, cursor, ceiling,
                 committed, armed, session, history>>

\* The legacy key goes: last statement of drop(), or of an adoption, which reads
\* the queue back afterwards.
DropKey ==
  /\ pc = "dropKey"
  /\ meta' = {}
  /\ IF stage = "drop"
     THEN /\ levels' = {} /\ stored' = {} /\ staged' = {}
          /\ status' = "syncing" /\ pc' = "drain" /\ stage' = "first"
     ELSE /\ stored' = queue /\ levels' = queue \cup staged /\ staged' = staged
          /\ pc' = "floor" /\ UNCHANGED <<status, stage>>
  /\ UNCHANGED <<world, head, inboxRows, sentinels, queue, outboxRows, journal, batches,
                 cursor, ceiling, committed, armed, session, history>>

\* load() ends: levels below the origination leave the rows and the memory.
DropBelowOrigination ==
  /\ pc = "floor"
  /\ LET impossible == levels \ SinceOrigination(levels)
     IN /\ queue' = IF impossible = {} THEN queue ELSE SinceOrigination(queue)
        /\ levels' = levels \ impossible
        /\ stored' = stored \ impossible
        /\ staged' = staged \ impossible
  /\ status' = "syncing" /\ pc' = "drain" /\ stage' = "first"
  /\ UNCHANGED <<world, head, inboxRows, sentinels, outboxRows, meta, journal, batches,
                 cursor, ceiling, committed, armed, session, history>>

-----------------------------------------------------------------------------
(* PendingOutboxLevels.save, for the caller `stage`: INSERT, then DELETE.  *)

SaveInsert ==
  /\ pc = "saveInsert"
  /\ LET learned == (levels \ stored) \ queue
     IN /\ queue' = queue \cup learned
        /\ journal' = Journalled("queue", "INSERT", learned)
  /\ pc' = "saveDelete"
  /\ UNCHANGED <<world, head, inboxRows, sentinels, outboxRows, meta, status, owed, batches,
                 cursor, ceiling, committed, armed, stage, session, history>>

AfterSave == CASE stage = "adopt"  -> "dropKey"
               [] stage = "first"  -> "page"
               [] stage = "commit" -> "storeInbox"
               [] stage = "second" -> "sentinel"

SaveDelete ==
  /\ pc = "saveDelete"
  /\ LET drained == (stored \ levels) \cap queue
     IN /\ queue' = queue \ drained
        /\ journal' = Journalled("queue", "DELETE", drained)
  /\ stored' = levels
  /\ staged' = {}
  /\ pc' = AfterSave
  /\ UNCHANGED <<world, head, inboxRows, sentinels, outboxRows, meta, status, levels, batches,
                 cursor, ceiling, committed, armed, stage, session, history>>

-----------------------------------------------------------------------------
(* _drain_outbox_levels, first or second of the pass.                      *)

\* Mutant: no refresh(), the queue is what memory says.
StartDrainFromMemory ==
  /\ pc = "drain"
  /\ ceiling' = applied
  /\ pc' = "fetch"
  /\ UNCHANGED <<world, head, tables, journal, status, owed, batches, cursor,
                 committed, armed, stage, session, history>>

\* refresh() and the node's processed level.
StartDrain ==
  /\ pc = "drain"
  /\ stored' = queue
  /\ levels' = queue \cup staged
  /\ ceiling' = applied
  /\ pc' = "fetch"
  /\ UNCHANGED <<world, head, tables, journal, status, staged, batches, cursor,
                 committed, armed, stage, session, history>>

\* take_lowest and _handle_outbox_level.
FetchOutbox ==
  /\ pc = "fetch"
  /\ \E l \in levels :
       /\ l <= ceiling
       /\ \A m \in levels : l <= m
       /\ levels' = (levels \ {l}) \cup Continuation(l)
       /\ staged' = (staged \ {l}) \cup Continuation(l)
       /\ outboxBatch' = outboxBatch \cup ({l} \cap Hashable)
  /\ UNCHANGED <<world, head, tables, journal, status, stored, inboxBatch, cursor, ceiling,
                 committed, armed, pc, stage, session, history>>

\* Nothing owed at or below the ceiling: store the batch.  Messages already
\* stored keep their rows, and the journal entry of the row the conflict
\* swallowed carries a key no row has.
StoreOutbox ==
  /\ pc = "fetch"
  /\ \A l \in levels : l > ceiling
  /\ outboxRows' = outboxRows \cup outboxBatch
  /\ journal' = Journalled("outbox", "INSERT", outboxBatch \ outboxRows)
  /\ committed' = (committed \/ outboxBatch # {})
  /\ outboxBatch' = {}
  /\ pc' = "saveInsert"
  /\ UNCHANGED <<world, head, inboxRows, sentinels, queue, meta, status, owed, inboxBatch,
                 cursor, ceiling, armed, stage, session, history>>

-----------------------------------------------------------------------------
(* The rest of _process.                                                   *)

\* Nothing after the cursor.  The backfill ends, and on_restart arms every
\* matcher step; a realtime pass goes on to its second drain.
EmptyPage ==
  /\ pc = "page" /\ Page(DbCursor) = {}
  /\ IF status = "syncing"
     THEN /\ status' = "realtime" /\ pc' = "idle"
          /\ armed' = {"inbox", "outbox"} /\ committed' = FALSE
          /\ UNCHANGED <<cursor, stage>>
     ELSE /\ cursor' = DbCursor
          /\ pc' = "drain" /\ stage' = "second"
          /\ UNCHANGED <<status, armed, committed>>
  /\ UNCHANGED <<world, head, tables, journal, owed, batches, ceiling, session, history>>

\* _walk_inbox_page: transfers to this rollup go to the batch, and externals since
\* the origination make their level owed.
WalkPage ==
  /\ pc = "page" /\ Page(DbCursor) # {}
  /\ LET page    == Page(DbCursor)
         learned == SinceOrigination({inbox[i].level : i \in {j \in page : External(j)}})
     IN /\ inboxBatch' = {i \in page : Own(i)}
        /\ levels' = levels \cup learned
        /\ staged' = staged \cup learned
        /\ cursor' = Reached(page)
  /\ pc' = "saveInsert" /\ stage' = "commit"
  /\ UNCHANGED <<world, head, tables, journal, status, stored, outboxBatch, ceiling, committed,
                 armed, session, history>>

\* The second half of _commit_inbox_page: the rows, after the queue.
StoreInbox ==
  /\ pc = "storeInbox"
  /\ inboxRows' = inboxRows \cup inboxBatch
  /\ journal' = Journalled("inbox", "INSERT", inboxBatch)
  /\ armed' = IF inboxBatch = {} THEN armed ELSE armed \cup {"inbox"}
  /\ inboxBatch' = {}
  /\ pc' = "drain" /\ stage' = "second"
  /\ UNCHANGED <<world, head, sentinels, queue, outboxRows, meta, status, owed, outboxBatch,
                 cursor, ceiling, committed, session, history>>

\* Mutant: the matcher is armed by the batch, which the pass has emptied by now.
EndPassByBatch ==
  /\ pc' = IF status = "realtime" THEN "idle" ELSE "drain"
  /\ armed' = IF outboxBatch # {} THEN armed \cup {"outbox"} ELSE armed
  /\ stage' = "first"
  /\ committed' = FALSE

\* The pass is over: the backfill starts the next one; handle_realtime arms the
\* matcher if outbox rows were committed, and the transaction commits.
EndPass ==
  /\ IF status = "realtime"
     THEN /\ pc' = "idle"
          /\ armed' = IF committed THEN armed \cup {"outbox"} ELSE armed
     ELSE pc' = "drain" /\ UNCHANGED armed
  /\ stage' = "first"
  /\ committed' = FALSE

\* _write_cursor_sentinel: a row already stands on the cursor.
KeepSentinel ==
  /\ pc = "sentinel" /\ cursor \in Ids
  /\ EndPass
  /\ UNCHANGED <<world, head, tables, journal, status, owed, batches, cursor, ceiling,
                 session, history>>

\* ... or the sentinels below it are deleted,
DeleteSentinel ==
  /\ pc = "sentinel" /\ cursor \notin Ids
  /\ LET below == {s \in sentinels : s < cursor}
     IN /\ sentinels' = sentinels \ below
        /\ journal' = Journalled("sentinel", "DELETE", below)
  /\ pc' = "createSentinel"
  /\ UNCHANGED <<world, head, inboxRows, queue, outboxRows, meta, status, owed, batches,
                 cursor, ceiling, committed, armed, stage, session, history>>

\* and one is created at the cursor.
CreateSentinel ==
  /\ pc = "createSentinel"
  /\ sentinels' = sentinels \cup {cursor}
  /\ journal' = Journalled("sentinel", "INSERT", {cursor})
  /\ EndPass
  /\ UNCHANGED <<world, head, inboxRows, queue, outboxRows, meta, status, owed, batches,
                 cursor, ceiling, session, history>>

\* handlers/tezos/on_head.py: a head block opens a transaction and runs one pass.
\* At the bound the same head level is handled again.
HeadBlock ==
  /\ pc = "idle"
  /\ head' = IF head < MaxHead THEN head + 1 ELSE head
  /\ mark' = Len(journal)
  /\ pc' = "drain" /\ stage' = "first"
  /\ UNCHANGED <<world, tables, journal, status, owed, batches, cursor, ceiling, committed,
                 armed, base, history>>

\* The matcher steps of handlers/batch.py run on the armed flags and clear them.
RunMatcher ==
  /\ pc = "idle" /\ armed # {}
  /\ offered' = [inbox  |-> IF "inbox" \in armed THEN inboxRows ELSE offered.inbox,
                 outbox |-> IF "outbox" \in armed THEN outboxRows ELSE offered.outbox]
  /\ armed' = {}
  /\ UNCHANGED <<world, head, tables, journal, status, owed, batches, cursor, ceiling,
                 committed, pc, stage, session, crashes, rollbacks>>

-----------------------------------------------------------------------------
(* The environment.                                                        *)

\* hooks/on_index_rollback.py: between two passes the head index goes back to
\* level `to`, and what was journalled above it is reverted.
Rollback(to) ==
  /\ pc = "idle" /\ to < head /\ rollbacks < MaxRollbacks
  /\ LET n == Cardinality({i \in DOMAIN journal : journal[i].head <= to})
     IN /\ RollbackAcrossRestart \/ base <= n
        /\ RevertTables(n)
        /\ base' = (IF n < base THEN n ELSE base)
        /\ mark' = n
  /\ head' = to
  /\ offered' = StillOffered
  /\ rollbacks' = rollbacks + 1
  /\ UNCHANGED <<world, meta, status, owed, batches, cursor, ceiling, committed, armed, pc,
                 stage, crashes>>

\* The process dies: a failed request, an error of the database, a kill.  The
\* transaction of a realtime pass is undone, and a new process starts.
Crash ==
  /\ crashes < MaxCrashes
  /\ LET n == IF InTransaction THEN mark ELSE Len(journal)
     IN RevertTables(n) /\ base' = n /\ mark' = n
  /\ offered' = StillOffered
  /\ status' = "new" /\ pc' = "prepare" /\ stage' = "adopt"
  /\ levels' = {} /\ stored' = {} /\ staged' = {}
  /\ inboxBatch' = {} /\ outboxBatch' = {}
  /\ cursor' = 0 /\ ceiling' = 0 /\ committed' = FALSE /\ armed' = {}
  /\ crashes' = crashes + 1
  /\ UNCHANGED <<world, head, meta, rollbacks>>

\* TzKT publishes one more message of the shared inbox.
Publish(kind, level) ==
  /\ Len(inbox) < MaxMessages
  /\ inbox # <<>> => inbox[Len(inbox)].level <= level
  /\ inbox' = Append(inbox, [kind |-> kind, level |-> level])
  /\ UNCHANGED <<applied, head, tables, journal, status, owed, batches, cursor, ceiling,
                 committed, armed, pc, stage, session, history>>

\* The rollup node applies one more level.
NodeApply ==
  /\ applied <= MaxLevel
  /\ applied' = applied + 1
  /\ UNCHANGED <<inbox, head, tables, journal, status, owed, batches, cursor, ceiling,
                 committed, armed, pc, stage, session, history>>

-----------------------------------------------------------------------------
PassStep == \/ PrepareWiped \/ PrepareResumed \/ DropKey \/ DropBelowOrigination
            \/ SaveInsert \/ SaveDelete
            \/ StartDrain \/ FetchOutbox \/ StoreOutbox
            \/ EmptyPage \/ WalkPage \/ StoreInbox
            \/ KeepSentinel \/ DeleteSentinel \/ CreateSentinel

Next == \/ PassStep \/ HeadBlock \/ RunMatcher
        \/ \E to \in 0 .. MaxHead : Rollback(to)
        \/ Crash
        \/ \E kind \in Kinds, level \in 1 .. MaxLevel : Publish(kind, level)
        \/ NodeApply

Spec == Init /\ [][Next]_vars

\* The event loop takes the next step of a pass, heads keep coming, and the
\* node keeps applying blocks.
FairSpec == Spec /\ WF_vars(PassStep) /\ WF_vars(HeadBlock) /\ WF_vars(NodeApply)

-----------------------------------------------------------------------------
(* Properties.                                                             *)

Levels == 0 .. MaxLevel + 1
Tables == {"inbox", "sentinel", "queue", "outbox"}

TypeWorld ==
  /\ inbox \in Seq([kind : Kinds \cup {"external"}, level : Nat])
  /\ applied \in Nat /\ head \in Nat

TypeTables ==
  /\ inboxRows \subseteq Nat /\ sentinels \subseteq Nat
  /\ queue \subseteq Nat /\ outboxRows \subseteq Nat /\ meta \subseteq Nat

TypeJournal ==
  /\ journal \in Seq([head : Nat, table : Tables, op : {"INSERT", "DELETE"},
                      keys : SUBSET Nat])
  /\ mark \in 0 .. Len(journal) /\ base \in 0 .. Len(journal)

TypeMemory ==
  /\ status \in {"new", "syncing", "realtime"}
  /\ levels \subseteq Nat /\ stored \subseteq Nat /\ staged \subseteq Nat
  /\ inboxBatch \subseteq Nat /\ outboxBatch \subseteq Nat
  /\ cursor \in Nat /\ ceiling \in Nat
  /\ committed \in BOOLEAN /\ armed \subseteq {"inbox", "outbox"}

TypeControl ==
  /\ pc \in {"prepare", "dropKey", "floor", "drain", "fetch", "saveInsert",
             "saveDelete", "page", "storeInbox", "sentinel", "createSentinel", "idle"}
  /\ stage \in {"adopt", "drop", "first", "commit", "second"}

TypeHistory ==
  /\ offered \in [inbox : SUBSET Nat, outbox : SUBSET Nat]
  /\ crashes \in Nat /\ rollbacks \in Nat

\* Every variable has its type, and the marks lie within the journal.
TypeOK == TypeWorld /\ TypeTables /\ TypeJournal /\ TypeMemory /\ TypeControl /\ TypeHistory

\* Every transfer to this rollup in the window up to id x has its row in `rows`.
RowsUpTo(x, rows) ==
  \A i \in DOMAIN inbox : Own(i) /\ WindowFloor < i /\ i <= x => i \in rows

\* The levels an external of level k makes due: k, and the continuation of each
\* full outbox on the way.
Due(k) == {l \in Levels : k <= l /\ k .. l-1 \subseteq Full}

\* The outbox of every level due from k is in `rows`, or `owing` leads to it.
Leads(k, owing, rows) ==
  \A l \in Due(k) : (l \in Hashable => l \in rows) \/ (\E m \in k .. l : m \in owing)

\* ... and so for every external of the window up to id x.
OwedUpTo(x, owing, rows) ==
  \A i \in DOMAIN inbox :
    External(i) /\ WindowFloor < i /\ i <= x /\ Origination <= inbox[i].level =>
      Leads(inbox[i].level, owing, rows)

\* Every transfer to this rollup that the cursor has passed has its row: no
\* statement order, crash or rollback lets `id.gt=` step over one for good.
InboxContiguous == \A j \in Ids : RowsUpTo(j, inboxRows)

\* The outbox of every level that a consumed external made due is stored, or
\* the queue (or the key it is adopted from) still leads to it.
OwedOrServed == \A j \in Ids : OwedUpTo(j, queue \cup meta, outboxRows)

\* No INSERT of the inbox table meets a row of the same key: the page's rows
\* are new, and no other level-0 row is left when the sentinel is created.
InsertsNeverCollide ==
  /\ pc = "storeInbox" => inboxBatch \cap Ids = {}
  /\ pc = "createSentinel" => sentinels = {} /\ cursor \notin inboxRows

\* Once booted, the process owes no level from before the origination, which
\* the node would answer with an error for ever.
NothingBelowOrigination ==
  status # "new" => \A l \in levels \cup queue : Origination <= l

\* Between two passes, every row the matcher has not been run on has its step
\* armed, the rows a pass stored again after a rollback included.
MatcherSeesEveryRow ==
  pc = "idle" =>
    /\ inboxRows \subseteq offered.inbox \/ "inbox" \in armed
    /\ outboxRows \subseteq offered.outbox \/ "outbox" \in armed

\* The walk leaves the cursor on the last message of the page, transfers to
\* other rollups included, so that no message is walked again.
WalkStandsOnLastMessage ==
  [][WalkPage => \A i \in Page(DbCursor) : i <= cursor']_vars

\* A level leaves the queue only when its outbox is stored, unless it precedes
\* the origination, the inbox is walked from the start, or a revert takes it.
QueueDepartures ==
  [][\A l \in queue \ queue' :
       \/ l \in Hashable => l \in outboxRows
       \/ l < Origination \/ Ids = {}
       \/ Len(journal') < Len(journal)]_vars

\* The promise of InboxIndex: the prefix consumed ends at the greatest id of a row, and a
\* level is owed that is in the queue or in the key the queue is adopted from.
Consumed == IF Ids = {} THEN 0 ELSE Max(Ids)

Index == INSTANCE InboxIndex WITH
  upto <- Consumed, rows <- inboxRows, owed <- queue \cup meta, served <- outboxRows,
  Inherited <- Legacy, reverts <- crashes + rollbacks

\* Whatever statement the process dies at and whatever a rollback reverts, each step is a
\* step of the abstract index or none: the rows are always those of a prefix of the inbox,
\* no outbox level is owed or stored without a cause, and none that is owed is given up.
KeepsPromise == Index!Spec

\* The database holds everything TzKT published in the window and the node
\* answered for it.
Complete == /\ RowsUpTo(Len(inbox), inboxRows)
            /\ OwedUpTo(Len(inbox), {}, outboxRows)

\* Once messages, crashes and rollbacks stop, the index catches up and stays so.
EventuallyComplete == <>[](WindowOpen => Complete)

\* The backfill ends: on_restart returns and the indexes start.
EventuallyRealtime == <>[](WindowOpen => status = "realtime")

=============================================================================
