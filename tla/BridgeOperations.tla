--------------------------- MODULE BridgeOperations ---------------------------
(***************************************************************************)
(* What the bridge matcher promises of its operations, whatever the order   *)
(* in which the indexes bring their legs, and without the flags, walks and  *)
(* keys by which handlers/bridge_matcher.py keeps the promise.              *)
(*                                                                         *)
(* An operation is opened, is given a rollup message, and is closed by a    *)
(* leg of the other side: the L2 credit of a deposit, the L1 execution of a *)
(* withdrawal.  A fast withdrawal paid out by a provider is closed by the   *)
(* payout, and its message handed over to an operation of the provider.     *)
(* No leg ever serves two operations, an operation keeps what it has got,   *)
(* and one that has run out of time can be closed but not be open again.    *)
(***************************************************************************)

CONSTANTS Operations, Legs, NoLeg

VARIABLES
  messages,  \* the rollup messages stored
  closers,   \* the closing legs stored
  opened,    \* the operations
  message,   \* their message
  closer,    \* the leg that closed them
  overdue    \* operations that ran out of time and have not been closed since

vars == <<messages, closers, opened, message, closer, overdue>>

Held   == {message[o] : o \in opened}
Spent  == {closer[o] : o \in opened}
Closed == {o \in opened : closer[o] # NoLeg}

Init ==
  /\ messages = {} /\ closers = {} /\ opened = {} /\ overdue = {}
  /\ message = [o \in Operations |-> NoLeg]
  /\ closer  = [o \in Operations |-> NoLeg]

\* Legs arrive.
Store ==
  /\ messages \subseteq messages' /\ messages' \subseteq Legs
  /\ closers \subseteq closers' /\ closers' \subseteq Legs
  /\ UNCHANGED <<opened, message, closer, overdue>>

Open(o) ==
  /\ o \notin opened
  /\ opened' = opened \cup {o}
  /\ UNCHANGED <<messages, closers, message, closer, overdue>>

\* An operation gets a message nobody holds.
Attach(o, m) ==
  /\ o \in opened /\ message[o] = NoLeg /\ m \in messages \ Held
  /\ message' = [message EXCEPT ![o] = m]
  /\ UNCHANGED <<messages, closers, opened, closer, overdue>>

\* An operation that has its message gets a leg nobody was closed by, in time or late.
Close(o, l) ==
  /\ o \in opened \ Closed /\ message[o] # NoLeg /\ l \in closers \ Spent
  /\ closer' = [closer EXCEPT ![o] = l]
  /\ overdue' = overdue \ {o}
  /\ UNCHANGED <<messages, closers, opened, message>>

\* Payout p closes operation o, of which it is both message and leg, and the message of
\* o, if it has one, goes to a new operation of the provider.
HandOver(o, p) ==
  /\ o \in opened \ Closed /\ p \in (messages \ Held) \cap (closers \ Spent)
  /\ \E new \in Operations \ opened :
       /\ opened' = opened \cup {new}
       /\ message' = [message EXCEPT ![new] = message[o], ![o] = p]
  /\ closer' = [closer EXCEPT ![o] = p]
  /\ overdue' = overdue \ {o}
  /\ UNCHANGED <<messages, closers>>

\* Operations not closed run out of time.
Expire(O) ==
  /\ O \subseteq opened \ Closed
  /\ overdue' = overdue \cup O
  /\ UNCHANGED <<messages, closers, opened, message, closer>>

Next ==
  \/ Store
  \/ \E o \in Operations : Open(o) \/ \E l \in Legs : Attach(o, l) \/ Close(o, l) \/ HandOver(o, l)
  \/ \E O \in SUBSET Operations : Expire(O)

Spec == Init /\ [][Next]_vars

=============================================================================
