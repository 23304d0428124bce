------------------------------- MODULE Registry -------------------------------
(***************************************************************************)
(* The rows the indexes share: tickets, L2 tokens and L2 accounts           *)
(* (handlers/ticket.py, etherlink/on_deposit.py, handlers/alias.py).        *)
(*                                                                         *)
(* A ticket of a listed ticketer is registered with the database.  Any      *)
(* other is registered by the first L1 call or outbox message that shows    *)
(* its content; the L2 events only name its hash.  Three indexes, of L1     *)
(* calls, L2 credits and L2 withdrawals, run at their own pace: an L2 event *)
(* may be handled before its ticket is known.  Every handler also resolves  *)
(* an L2 address, with the help of an L2 node.  A handler that raises takes *)
(* back its transaction and the process down; a restart reads the outbox    *)
(* before the indexes go on.                                               *)
(***************************************************************************)
EXTENDS Integers, Sequences

CONSTANTS
  Tickets,    \* ticket hashes
  Owners,     \* L2 addresses that own tickets: the proxies, and some of the users
  Addresses,  \* L2 addresses of users
  None,       \* no value
  Scripts,    \* what happened on the chains
  MaxFaults   \* bound on the answers of the L2 node that cannot be decoded

ASSUME NoneAssumption == None \notin Tickets \cup Owners

\* What reading a ticket comes to.  listed: registered by on_reindex; described, opaque:
\* the metadata names a token, or none; bare: no metadata, or a ValueError in it; untyped:
\* it names a token no row has, without its type (KeyError); garbled: it is no map
\* (TypeError, IndexError).
Contents == {"listed", "described", "opaque", "bare", "untyped", "garbled"}
Deadly   == {"untyped", "garbled"}
Kinds    == {"native", "alias"}

\* The L1 calls, L2 credits and L2 withdrawals in chain order; the content of a ticket,
\* the origin of an address, and whether the rollup has a Michelson runtime.
Facts == [
  contents    : [Tickets -> Contents],
  kinds       : [Addresses -> Kinds],
  runtime     : BOOLEAN,
  calls       : Seq([ticket : Tickets, receiver : Addresses]),
  credits     : Seq([call : Nat, owner : Owners, receiver : Addresses]),
  withdrawals : Seq([ticket : Tickets, sender : Addresses])]

ASSUME ScriptsAssumption ==
  /\ Scripts \subseteq Facts
  /\ \A s \in Scripts :
       /\ \A c \in DOMAIN s.credits : s.credits[c].call \in DOMAIN s.calls
       /\ ~s.runtime => \A a \in Addresses : s.kinds[a] = "native"

ASSUME FaultsAssumption == MaxFaults \in Nat

VARIABLES
  script,
  record,     \* addresses the L2 node has an origin record of
  published,  \* outbox messages published
  tickets,    \* rows of tezos_ticket
  tokens,     \* rows of etherlink_token: the ticket of each owner, or None
  accounts,   \* rows of l2_account: the kind of each address
  due,        \* unknown accounts whose recheck interval is over
  called,     \* L1 calls handled
  credited,   \* rows of l2_deposit, and how many calls were handled when each was stored
  withdrawn,  \* rows of l2_withdrawal
  crashed,    \* has a handler taken the process down?
  faults      \* answers that could not be decoded

chains  == <<record, published>>
indexes == <<called, credited, withdrawn>>
process == <<crashed, faults>>
vars == <<script, chains, tickets, tokens, accounts, due, indexes, process>>

-----------------------------------------------------------------------------
(* Accounts.                                                               *)

\* A row that may be used without a query.
Cached(a) == accounts[a] \in Kinds \/ (accounts[a] = "unknown" /\ a \notin due)

Queried(a) == script.runtime /\ ~Cached(a)

\* Mutant: an address without a record is taken for a native one.
ResolveNative(a) ==
  IF script.runtime /\ Cached(a) THEN accounts[a]
  ELSE IF script.runtime /\ a \in record THEN script.kinds[a] ELSE "native"

\* What the origin of an address is found to be.
Resolve(a) ==
  IF ~script.runtime THEN "native"
  ELSE IF Cached(a) THEN accounts[a]
  ELSE IF a \in record THEN script.kinds[a] ELSE "unknown"

\* Mutant: the row saved is left due for the next recheck.
SightKeepingDue(a) == accounts' = [accounts EXCEPT ![a] = Resolve(a)] /\ due' = due

\* resolve_l2_account: saving the row starts the interval anew.
Sight(a) ==
  /\ accounts' = [accounts EXCEPT ![a] = Resolve(a)]
  /\ due' = IF Queried(a) THEN due \ {a} ELSE due

-----------------------------------------------------------------------------
(* Tickets and tokens.                                                     *)

Content(t) == script.contents[t]

\* Mutant: an unknown ticket is never registered.
FetchKnown(t) == tickets

\* Is the ticket registered by a reading of it?
Registrable(t) == Content(t) \notin {"bare"} \cup Deadly

\* fetch_ticket, where it does not kill its caller.
Fetch(t) == IF Registrable(t) THEN tickets \cup {t} ELSE tickets

\* Mutant: reading the outbox registers nothing.
DrainHashOnly == tickets

\* The tickets the published outbox shows.
Shown == {t \in Tickets : \E w \in 1 .. published : script.withdrawals[w].ticket = t}

\* The tickets after it has been read: a message is skipped whose ticket makes a ValueError
\* or a KeyError, ...
Drain == tickets \cup {t \in Shown : Registrable(t)}

\* ... and no other exception is caught.
Readable == \A t \in Shown : Content(t) # "garbled"

TicketOf(credit) == script.calls[credit.call].ticket

\* Does the credit name an owner of its own for a ticket that is known?
Proxied(credit) == TicketOf(credit) \in tickets /\ credit.owner # credit.receiver

\* Mutant: the ticket may have a token already.
NewTokenAlways(credit) == Proxied(credit) /\ tokens[credit.owner] = None

\* Does the credit make its owner the token of its ticket?
NewToken(credit) ==
  /\ Proxied(credit) /\ tokens[credit.owner] = None
  /\ \A p \in Owners : tokens[p] # TicketOf(credit)

\* The row on_deposit stores; `after` is not in the row.
Row(credit) == [
  ticket |-> IF TicketOf(credit) \in tickets THEN TicketOf(credit) ELSE None,
  token  |-> IF Proxied(credit) /\ (tokens[credit.owner] # None \/ NewToken(credit))
               THEN credit.owner ELSE None,
  after  |-> called]

Rows == [ticket : Tickets \cup {None}, token : Owners \cup {None}, after : Nat]

-----------------------------------------------------------------------------
Init ==
  /\ script \in Scripts
  /\ record = {} /\ published = 0
  /\ tickets = {t \in Tickets : Content(t) = "listed"}
  /\ tokens = [p \in Owners |-> None]
  /\ accounts = [a \in Addresses |-> "absent"] /\ due = {}
  /\ called = 0 /\ credited = <<>> /\ withdrawn = 0
  /\ crashed = FALSE /\ faults = 0

\* The L2 node gets the record of an address, ...
Originate ==
  /\ \E a \in Addresses \ record : record' = record \cup {a}
  /\ UNCHANGED <<script, published, tickets, tokens, accounts, due, indexes, process>>

\* ... the rollup node has the outbox message of the next withdrawal, ...
Publish ==
  /\ published < Len(script.withdrawals)
  /\ published' = published + 1
  /\ UNCHANGED <<script, record, tickets, tokens, accounts, due, indexes, process>>

\* ... and the recheck interval of an unknown account passes.
Elapse ==
  /\ \E a \in Addresses \ due : accounts[a] = "unknown" /\ due' = due \cup {a}
  /\ UNCHANGED <<script, chains, tickets, tokens, accounts, indexes, process>>

\* A head block: the message index reads the outbox.
OnHead ==
  /\ ~crashed /\ Readable
  /\ tickets' = Drain
  /\ UNCHANGED <<script, chains, tokens, accounts, due, indexes, process>>

NextCall == script.calls[called + 1]

\* The account is stored before the ticket is looked up, and stays if that is a ValueError.
OnRollupCall ==
  /\ ~crashed /\ called < Len(script.calls)
  /\ Content(NextCall.ticket) \notin Deadly
  /\ Sight(NextCall.receiver)
  /\ tickets' = Fetch(NextCall.ticket)
  /\ called' = called + 1
  /\ UNCHANGED <<script, chains, tokens, credited, withdrawn, process>>

NextCredit == script.credits[Len(credited) + 1]

\* A ticket without a token cannot be registered for an owner.
Fatal(credit) == NewToken(credit) /\ Content(TicketOf(credit)) = "opaque"

OnDeposit ==
  /\ ~crashed /\ Len(credited) < Len(script.credits)
  /\ ~Fatal(NextCredit)
  /\ tokens' = IF NewToken(NextCredit)
                 THEN [tokens EXCEPT ![NextCredit.owner] = TicketOf(NextCredit)] ELSE tokens
  /\ Sight(NextCredit.receiver)
  /\ credited' = Append(credited, Row(NextCredit))
  /\ UNCHANGED <<script, chains, tickets, called, withdrawn, process>>

NextWithdrawal == script.withdrawals[withdrawn + 1]

\* The parameters hash of a withdrawal needs the ticketer of its ticket.
OnWithdraw ==
  /\ ~crashed /\ withdrawn < Len(script.withdrawals)
  /\ NextWithdrawal.ticket \in tickets
  /\ Sight(NextWithdrawal.sender)
  /\ withdrawn' = withdrawn + 1
  /\ UNCHANGED <<script, chains, tickets, tokens, called, credited, process>>

Die ==
  /\ ~crashed /\ crashed' = TRUE
  /\ UNCHANGED <<script, chains, tickets, tokens, accounts, due, indexes>>

\* A handler dies of its operation, ...
DieOnHead == ~Readable /\ Die /\ UNCHANGED faults

DieOnCall ==
  /\ called < Len(script.calls) /\ Content(NextCall.ticket) \in Deadly
  /\ Die /\ UNCHANGED faults

DieOnDeposit ==
  /\ Len(credited) < Len(script.credits) /\ Fatal(NextCredit)
  /\ Die /\ UNCHANGED faults

DieOnWithdraw ==
  /\ withdrawn < Len(script.withdrawals) /\ NextWithdrawal.ticket \notin tickets
  /\ Die /\ UNCHANGED faults

\* ... or of an answer it cannot decode.
DieOnAnswer ==
  /\ faults < MaxFaults
  /\ \/ called < Len(script.calls) /\ Queried(NextCall.receiver)
     \/ Len(credited) < Len(script.credits) /\ Queried(NextCredit.receiver)
     \/ withdrawn < Len(script.withdrawals) /\ Queried(NextWithdrawal.sender)
  /\ Die /\ faults' = faults + 1

\* on_restart reads the outbox before the indexes start; if that dies too, the process
\* stays down, and what it may have registered by then no handler sees.
Restart ==
  /\ crashed /\ Readable /\ crashed' = FALSE
  /\ tickets' = Drain
  /\ UNCHANGED <<script, chains, tokens, accounts, due, indexes, faults>>

RollupCall == OnRollupCall \/ DieOnCall
Deposit    == OnDeposit \/ DieOnDeposit
Withdrawal == OnWithdraw \/ DieOnWithdraw

Next ==
  \/ Originate \/ Publish \/ Elapse
  \/ OnHead \/ DieOnHead \/ RollupCall \/ Deposit \/ Withdrawal \/ DieOnAnswer \/ Restart

Spec == Init /\ [][Next]_vars

-----------------------------------------------------------------------------
(* Properties.                                                             *)

TypeOK ==
  /\ script \in Scripts
  /\ record \subseteq Addresses /\ published \in 0 .. Len(script.withdrawals)
  /\ tickets \subseteq Tickets
  /\ tokens \in [Owners -> Tickets \cup {None}]
  /\ accounts \in [Addresses -> Kinds \cup {"absent", "unknown"}]
  /\ due \subseteq {a \in Addresses : accounts[a] = "unknown"}
  /\ called \in 0 .. Len(script.calls) /\ withdrawn \in 0 .. Len(script.withdrawals)
  /\ credited \in Seq(Rows) /\ Len(credited) <= Len(script.credits)
  /\ crashed \in BOOLEAN /\ faults \in 0 .. MaxFaults

\* No address is ever recorded as what it is not, by whichever handler sees it first and
\* whatever the L2 node knows or answers at that time: it is unknown until its record is
\* there, and alias or native ever after.
NeverMisclassified ==
  \A a \in Addresses :
    /\ accounts[a] \in {"absent", "unknown", script.kinds[a]}
    /\ accounts[a] = "unknown" => script.runtime

\* The cause of every status a credit can get, in any order of the indexes.  Without
\* ticket (FAILED_INVALID_ROUTING_PROXY_NOT_WHITELISTED): no listed ticket, and one that
\* L1 calls pass by, or whose L1 call was not handled yet.  Without token
\* (..._REVERTABLE): the receiver owns the ticket, or another owner came first.  With
\* token (FINISHED): its owner has a token, and no ticket has two of them.
CreditsExplained ==
  \A c \in DOMAIN credited :
    LET credit == script.credits[c]  row == credited[c] IN
    /\ row.ticket = None =>
         \/ Content(TicketOf(credit)) = "bare"
         \/ (Content(TicketOf(credit)) # "listed" /\ row.after < credit.call)
    /\ row.ticket # None /\ row.token = None =>
         \/ credit.owner = credit.receiver
         \/ \E p \in Owners \ {credit.owner} : tokens[p] = row.ticket
    /\ row.token # None =>
         /\ row.token = credit.owner /\ credit.owner # credit.receiver
         /\ tokens[row.token] # None
         /\ \A p \in Owners \ {row.token} : tokens[p] # tokens[row.token]

\* Operations that may stop the indexes for ever: an owner of its own for a ticket without
\* token, and, of tickets that are not listed, the L1 call of one whose metadata kills its
\* reader and the withdrawal of one that cannot be registered.
Impassable(s) ==
  \/ \E c \in DOMAIN s.credits :
       /\ s.contents[s.calls[s.credits[c].call].ticket] = "opaque"
       /\ s.credits[c].owner # s.credits[c].receiver
  \/ \E c \in DOMAIN s.calls : s.contents[s.calls[c].ticket] \in Deadly
  \/ \E w \in DOMAIN s.withdrawals :
       s.contents[s.withdrawals[w].ticket] \in {"bare"} \cup Deadly

\* The indexes go on, a dead process is restarted, and every withdrawal gets its message.
Fairness ==
  /\ WF_vars(Publish) /\ WF_vars(Restart)
  /\ WF_vars(RollupCall) /\ WF_vars(Deposit) /\ WF_vars(Withdrawal)

FairSpec == Spec /\ Fairness

\* Every operation is handled in the end.  The handler of a withdrawal whose ticket no L1
\* call has shown yet dies, and is saved by the next restart, which reads the ticket from
\* the very outbox message of the withdrawal.
EventuallyHandled ==
  ~Impassable(script) ~>
    /\ called = Len(script.calls) /\ Len(credited) = Len(script.credits)
    /\ withdrawn = Len(script.withdrawals)

=============================================================================
