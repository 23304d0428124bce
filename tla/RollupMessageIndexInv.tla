----------------------- MODULE RollupMessageIndexInv -----------------------
(***************************************************************************)
(* The inductive invariant behind InboxContiguous, OwedOrServed and         *)
(* InsertsNeverCollide of RollupMessageIndex.  Between two statements the   *)
(* tables alone do not say why the next one is safe: what the pass holds in *)
(* memory does, and what it must hold depends on where the pass is.         *)
(***************************************************************************)
EXTENDS RollupMessageIndex

Saving == pc \in {"saveInsert", "saveDelete"}

\* Where the pass is determines whom it serves, and the status.
Control ==
  /\ pc = "prepare" => stage = "adopt"
  /\ pc = "dropKey" => stage \in {"adopt", "drop"}
  /\ pc = "floor" => stage = "adopt"
  /\ pc \in {"drain", "fetch"} => stage \in {"first", "second"}
  /\ Saving => stage \in {"adopt", "first", "commit", "second"}
  /\ pc \in {"page", "idle"} => stage = "first"
  /\ pc = "storeInbox" => stage = "commit"
  /\ pc \in {"sentinel", "createSentinel"} => stage = "second"
  /\ status = "new" <=> stage \in {"adopt", "drop"}
  /\ pc = "idle" => status = "realtime"

\* The journal of this process begins at `base`, and is empty before the first
\* realtime pass; a transaction began after that.
Session ==
  /\ status # "realtime" => base = Len(journal)
  /\ InTransaction => base <= mark

\* Nothing is stored before the window opens.
Closed == ~WindowOpen => pc = "prepare" /\ Ids = {}

\* The tables are safe to resume from.
SafeTables(ids, rows, owing, outbox) ==
  \A j \in ids : /\ j \in 0 .. Len(inbox)
                 /\ RowsUpTo(j, rows)
                 /\ OwedUpTo(j, owing, outbox)

\* They are once every entry after the first n is reverted.
SafeAt(n) ==
  SafeTables(Reverted(journal, "inbox", inboxRows, n)
               \cup Reverted(journal, "sentinel", sentinels, n),
             Reverted(journal, "inbox", inboxRows, n),
             Reverted(journal, "queue", queue, n) \cup meta,
             Reverted(journal, "outbox", outboxRows, n))

\* They are now, and they are after every revert that can happen.
JournalSafe == \A n \in base .. Len(journal) : SafeAt(n)

\* What the object remembers of the queue.
Memory ==
  /\ pc \in {"fetch", "saveInsert", "saveDelete", "page"} => stored \subseteq queue
  /\ pc \in {"saveDelete", "page", "storeInbox"} => levels \subseteq queue
  /\ Saving /\ stage \in {"adopt", "commit"} => stored \subseteq levels
  /\ pc = "page" => stored \subseteq levels
  /\ pc # "fetch" => outboxBatch = {}
  /\ status # "new" => meta = {}
  /\ Saving /\ stage = "adopt" => meta \subseteq levels
  /\ pc = "dropKey" /\ stage = "adopt" => meta \subseteq queue
  /\ stage = "drop" => Ids = {}
  /\ pc = "floor" => meta = {}

\* A level drained from memory and not yet from the rows has its outbox stored
\* or in the batch, and its continuation is owed.
Drained ==
  pc = "fetch" \/ Saving =>
    \A m \in stored \ levels : Leads(m, levels, outboxRows \cup outboxBatch)

\* A page that has been walked and not stored.
Walked ==
  stage = "commit" =>
    /\ cursor \in 0 .. Len(inbox) /\ \A j \in Ids : j <= cursor
    /\ inboxBatch \cap Ids = {} /\ \A b \in inboxBatch : b <= cursor
    /\ RowsUpTo(cursor, inboxRows \cup inboxBatch)
    /\ OwedUpTo(cursor, queue \cup levels, outboxRows)

\* A page that has been stored, and whose cursor has not.
Stored ==
  stage = "second" =>
    /\ cursor \in 0 .. Len(inbox) /\ \A j \in Ids : j <= cursor
    /\ RowsUpTo(cursor, inboxRows)
    /\ OwedUpTo(cursor, queue, outboxRows)
    /\ pc = "createSentinel" => sentinels = {} /\ cursor \notin inboxRows

\* The tables can be resumed from at every statement and after every revert:
\* the inductive invariant.
Inv == /\ Control /\ Session /\ Closed /\ JournalSafe
       /\ Memory /\ Drained /\ Walked /\ Stored

-----------------------------------------------------------------------------
(* What the refinement of InboxIndex needs besides: everything the index      *)
(* holds, or a revert can bring back, has a reason.                          *)

JournalKeys(table) ==
  UNION {journal[i].keys : i \in {j \in DOMAIN journal : journal[j].table = table}}

\* Rows and the batch hold transfers to this rollup, of the window.
RowsOwn ==
  \A i \in inboxRows \cup inboxBatch : i \in DOMAIN inbox /\ Own(i) /\ Index!InWindow(i)

\* The index never stands below the window, whatever sentinel a revert restores.
StandsInWindow ==
  /\ \A j \in sentinels \cup JournalKeys("sentinel") : WindowOpen /\ WindowFloor <= j
  /\ stage \in {"commit", "second"} => WindowOpen /\ WindowFloor <= cursor

\* Every level in hand comes from an external, or from the older version.
LevelsHeld ==
  levels \cup stored \cup staged \cup queue \cup meta \cup outboxBatch \cup JournalKeys("queue")

LevelsCaused == (\A l \in LevelsHeld : Index!Caused(l)) /\ outboxBatch \subseteq Hashable

\* The inductive invariant behind KeepsPromise, on top of Inv.
CauseInv == RowsOwn /\ StandsInWindow /\ LevelsCaused

=============================================================================
