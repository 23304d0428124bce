------------------------------ MODULE InboxIndex ------------------------------
(***************************************************************************)
(* What the index of the rollup's inbox and outbox promises, without the     *)
(* pages, batches, sentinels, journals and queue objects by which            *)
(* handlers/rollup_message.py keeps the promise.                            *)
(*                                                                         *)
(* The index has consumed a prefix of the shared inbox.  It holds the        *)
(* transfers to this rollup of that prefix, all of them and nothing else,    *)
(* and of every outbox level the externals of the prefix made due it has     *)
(* stored the messages, or still owes the level that leads to it.  A restart *)
(* or a rollback may take it back, to another state of which this is true.   *)
(***************************************************************************)
EXTENDS Integers, Sequences

CONSTANTS
  Kinds,        \* kinds of message the shared inbox receives
  Levels,       \* the levels messages may have
  Origination,  \* level at which the rollup was originated
  FirstLevel,   \* first level of the indexed window
  Full,         \* levels whose outbox is full: the rest is in that of the next
  Hashable,     \* levels whose outbox has messages worth a row
  Inherited     \* levels an older version may have left owed

VARIABLES
  inbox,   \* the messages published: [kind, level]
  upto,    \* length of the prefix consumed
  rows,    \* the transfers stored
  owed,    \* the outbox levels owed
  served,  \* the outbox levels stored
  reverts  \* how often it was taken back

vars == <<inbox, upto, rows, owed, served, reverts>>

\* The window opens with the first message of its first level.
InWindow(i) == \E j \in 1 .. i : inbox[j].level >= FirstLevel

Transfers(to) == {i \in 1 .. to : InWindow(i) /\ inbox[i].kind = "transfer"}

\* The externals of the first `to` messages that a level is owed for.
Calls(to) == {i \in 1 .. to : /\ InWindow(i) /\ inbox[i].kind = "external"
                              /\ inbox[i].level >= Origination}

\* Full outboxes lead from level k to level l.
Reaches(k, l) == k <= l /\ k .. l - 1 \subseteq Full

\* Every level k leads to is stored, or owed itself, or a level on the way is.
Accounted(k, owing, out) ==
  \A l \in Levels : Reaches(k, l) =>
    (l \in Hashable => l \in out) \/ \E m \in k .. l : m \in owing

AccountedTo(to, owing, out) == \A i \in Calls(to) : Accounted(inbox[i].level, owing, out)

\* Level l has a cause: an external that was published, or the older version.
Caused(l) ==
  \E k \in Inherited \cup {inbox[i].level : i \in Calls(Len(inbox))} : Reaches(k, l)

-----------------------------------------------------------------------------
\* Nothing is consumed, or what the older version consumed: an external it owes.
Init ==
  /\ rows = {} /\ served = {} /\ reverts = 0
  /\ \/ inbox = <<>> /\ upto = 0 /\ owed \in {{}, Inherited}
     \/ /\ \E l \in Inherited : FirstLevel <= l /\ inbox = <<[kind |-> "external", level |-> l]>>
        /\ upto = 1 /\ owed = Inherited

Publish ==
  /\ \E kind \in Kinds, level \in Levels : inbox' = Append(inbox, [kind |-> kind, level |-> level])
  /\ UNCHANGED <<upto, rows, owed, served, reverts>>

\* A level is owed before the external it comes from is consumed.
Owe ==
  /\ owed \subseteq owed' /\ \A l \in owed' \ owed : Caused(l)
  /\ UNCHANGED <<inbox, upto, rows, served, reverts>>

Serve ==
  /\ served \subseteq served' /\ \A l \in served' \ served : l \in Hashable /\ Caused(l)
  /\ UNCHANGED <<inbox, upto, rows, owed, reverts>>

\* The prefix grows to what is accounted for, together with its transfers.
Consume ==
  /\ upto < upto' /\ upto' <= Len(inbox)
  /\ rows' = Transfers(upto') /\ AccountedTo(upto', owed, served)
  /\ UNCHANGED <<inbox, owed, served, reverts>>

\* Where the prefix ends is written in two statements, between which it ends earlier.
Rewind ==
  /\ upto' < upto /\ upto' \in 0 .. Len(inbox) /\ rows = Transfers(upto')
  /\ UNCHANGED <<inbox, rows, owed, served, reverts>>

\* Levels leave whose messages are stored, and whose continuation is or is owed.
Settle ==
  /\ owed' \subseteq owed /\ \A l \in owed \ owed' : Accounted(l, owed', served)
  /\ UNCHANGED <<inbox, upto, rows, served, reverts>>

\* Before anything is consumed, nothing need be owed; below the origination, never.
Forget ==
  /\ owed' \subseteq owed /\ (upto = 0 \/ \A l \in owed \ owed' : l < Origination)
  /\ UNCHANGED <<inbox, upto, rows, served, reverts>>

\* A restart or a rollback: what was stored is taken back, what was owed is owed again.
Revert ==
  /\ upto' \in 0 .. Len(inbox)
  /\ rows' = Transfers(upto') /\ rows' \subseteq rows /\ served' \subseteq served
  /\ AccountedTo(upto', owed', served') /\ \A l \in owed' : Caused(l)
  /\ reverts' = reverts + 1
  /\ UNCHANGED inbox

Next == Publish \/ Owe \/ Serve \/ Consume \/ Rewind \/ Settle \/ Forget \/ Revert

Spec == Init /\ [][Next]_vars

=============================================================================
