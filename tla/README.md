# Verification of the rollup bridge indexer

TLA+ models of the indexer of the Tezos/Etherlink bridge, the TLC instances that check
them, and TLAPS proofs of their most important invariants. Paths are relative to the root of
the repository.

## The system

The indexer is a DipDup package. DipDup calls it back with L1 and L2 operations, and it keeps
a database of bridge operations, each assembled from legs seen by different indexes.

| Component | Code | State | Operations |
|---|---|---|---|
| Rollup message index | `handlers/rollup_message.py` (`RollupMessageIndex`, `PendingOutboxLevels`), `handlers/tezos/on_head.py`, `hooks/on_restart.py` | rows of the rollup's inbox and outbox, the level-0 cursor sentinel, the queue of owed outbox levels; in memory: status, queue, batches | boot, backfill pass, realtime pass per head block |
| Journal and rollback | DipDup; `hooks/on_index_rollback.py` | one journal entry per statement of an index handler | revert every entry above a level |
| Bridge matcher, deposits | `handlers/bridge_matcher.py`, `candidate_pool.py`, `batch.py`, `bridge_matcher_locks.py` | bridge deposits and operations; nine in-memory flags | five ordered steps that link L1 leg, inbox message and L2 leg |
| Bridge matcher, withdrawals | same files | bridge withdrawals and operations | four ordered steps that link L2 leg, outbox message and L1 leg, and swap the legs of a claimed fast withdrawal |
| Handlers of legs | `handlers/tezos`, `handlers/etherlink`, `handlers/tezos_x` | one row per leg | create the row, arm a flag |
| Commitments and proofs | `handlers/tezos/on_cement_commitment.py`, `OutboxMessageService.update_proof` | commitments; status of withdrawals and deposits | store, expire, time out, seal |
| Cementation estimate | `OutboxMessageService.estimate_outbox_message_cemented_level` | none | arithmetic |
| Alias resolution | `handlers/alias.py` | `l2_account` rows | classify an L2 address, again while unknown |
| Tokens, tickets, balances | `handlers/ticket.py`, `handlers/etherlink/on_transfer.py`, `register_etherlink_token` | token, ticket and balance rows | whitelist, register, transfer |
| Pure decoders | `handlers/michelson_deposit.py`, `types/output_proof` | none | hashes and binary formats |

Interactions: `on_restart` runs the backfill of the rollup message index, outside any
transaction, before the indexes start. Each head block then runs one pass of it inside the
transaction of the head index. Every batch of handlers ends with the matcher's steps, which
do nothing unless their flag is set; handlers and the message index set flags, `on_restart`
and `on_synchronized` set all of them. A rollback of an index reverts what was journalled for
it, in the database only.

The hard behaviours are these: the process can die at any statement of the backfill; a
rollback rewrites the tables behind the objects that remember them; the rollup node lags TzKT
and L1; the legs of one operation arrive in any order from independent indexes; flags live in
memory and the work they stand for in the database. `PROJECT.json` lists each hazard at its
line, with the property that covers it or the reason none does yet.

## Modules

| Module | Content |
|---|---|
| `Journal` | what a table holds after its journal is reverted to a point (external) |
| `JournalProof` | lemmas about reverts |
| `RollupMessageIndex` | the rollup message index: state, actions, properties |
| `InboxIndex` | what the rollup message index promises: the abstract specification it implements |
| `RollupMessageIndexInv` | the inductive invariant, and the one behind the refinement |
| `RollupMessageIndexProof` | the theorems |
| `RollupMessageIndexDutiesProof` | a second invariant and theorems: what the index owes to the node and the matcher, and that it implements `InboxIndex` |
| `DepositMatcher` | the deposit steps of the matcher and the handlers that feed them |
| `DepositMatcherInv` | the inductive invariants: flags and walks cover what may be joined; why a credit closes its own deposit |
| `DepositMatcherProof` | the theorems |
| `DepositMatcherCreditsProof` | the theorems about credits |
| `WithdrawalMatcher` | the withdrawal steps of the matcher, the split of a claimed fast withdrawal, the handlers that feed them and the commitments that expire and seal |
| `WithdrawalMatcherInv` | its inductive invariant |
| `WithdrawalMatcherProof` | the theorems |
| `BridgeOperations` | what the matcher promises: the abstract specification both matchers implement |
| `Commitments` | a commitment from L1 to the rows it changes, the windows in levels, the cementation estimate |
| `CommitmentsProof` | the theorems |
| `Registry` | the rows the indexes share: tickets, L2 tokens, L2 accounts |
| `RegistryProof` | its inductive invariant and the theorems |
| `MC...` | instances for TLC of the module each is named after |

### RollupMessageIndex

One action is one database statement, one answered request or one walk over a page: the
points at which the process can die.

| TLA+ | code |
|---|---|
| `inbox`, `applied` | what TzKT has published; the level the rollup node has processed |
| `inboxRows`, `sentinels` | `rollup_inbox_message`: transfers to this rollup, and level-0 rows |
| `queue`, `meta` | `rollup_pending_outbox_level`; the `dipdup_meta` key it replaced |
| `outboxRows` | `rollup_outbox_message`, by level: all messages of a level are stored by one statement |
| `journal` | `dipdup_model_update` of the head index |
| `levels`, `stored`, `staged` | `PendingOutboxLevels._levels`, `_stored`, `_staged` |
| `pc`, `stage` | the next statement, and which caller of `save` or of a drain it serves |
| `mark`, `base` | journal length at the start of the transaction, and of the process |
| `offered` | history: which rows the matcher has had its steps run on |
| `PrepareWiped`, `PrepareResumed`, `DropKey`, `DropBelowOrigination` | `_prepare_new_index`, `load`, `_adopt_meta_queue`, `drop` |
| `SaveInsert`, `SaveDelete` | `save` |
| `StartDrain`, `FetchOutbox`, `StoreOutbox` | `_drain_outbox_levels`, `refresh`, `take_lowest`, `_handle_outbox_level` |
| `EmptyPage`, `WalkPage`, `StoreInbox` | `_inbox_cursor`, `_fetch_inbox_page`, `_walk_inbox_page`, `_commit_inbox_page` |
| `KeepSentinel`, `DeleteSentinel`, `CreateSentinel` | `_write_cursor_sentinel` |
| `HeadBlock`, `RunMatcher`, `Rollback`, `Crash` | `on_head`, `batch`, `on_index_rollback`, a death and the restart |
| `Publish`, `NodeApply` | TzKT and the rollup node (external) |

Abstractions. A message is its kind and its level: a transfer to this rollup, a transfer to
another one, or an external. Ids are positions in the inbox; gaps do not matter to `id.gt=`.
A level's outbox is full or not, and has messages worth a row or not; both are constants of
the level, since the node answers the same each time. `drop()` of a wiped database waits for
the first message of the window: before it the code drops, fails on the empty answer and
starts over, to the same effect. The `ROLLUP_SYNC_*` bounds of the test indexer are unset
(`FirstLevel` below `Origination` is the effect of the first one). `_drained` only words a
log line and is left out. The framework runs handlers one at a time, makes one transaction of
a head block, and journals only inside it.

`RollbackAcrossRestart` says whether a rollback may revert what an earlier process journalled.
It is FALSE in every passing run and in the hypothesis of every theorem; TRUE is what finding 2
is about.

### InboxIndex

The abstract index has consumed a prefix of the shared inbox. Its rows are the transfers of that
prefix, all of them and no others; of every outbox level that the externals of the prefix made due
it has stored the messages, or owes a level that leads to them. There are no pages, batches,
sentinels, journals or queue objects in it.

| InboxIndex | RollupMessageIndex |
|---|---|
| `upto` | `Consumed`: the greatest id of a row or sentinel, 0 without one |
| `rows`, `served` | `inboxRows`, `outboxRows` |
| `owed` | `queue` and `meta` together |
| `reverts` | `crashes + rollbacks` |
| `Owe`, `Settle` | `SaveInsert`, `SaveDelete` |
| `Serve` | `StoreOutbox` |
| `Consume` | `StoreInbox`, `CreateSentinel` |
| `Rewind` | `DeleteSentinel`: between the deletion and the creation of the sentinel the prefix is shorter |
| `Forget` | `PrepareWiped`, `DropKey` of a wiped database, `DropBelowOrigination` |
| `Revert` | `Crash`, `Rollback` |
| `Publish` | `Publish` |

Every other action is a stutter. `Revert` may go back to any state that is accounted for; what it
may not do is bring back a row, or a level without a cause, or shorten the prefix and keep its rows.

### DepositMatcher

What the chains did is a constant of a behaviour, `script`: deposit *d* has an L1 call, an
inbox message and, if it is `credited`, an L2 credit, all named *d*. The handlers store the
legs, each stream in its own chain order and at its own speed. The matcher sees only the keys
of the rows, so that two deposits may share a parameters hash, a level, a value or a time.

| TLA+ | code |
|---|---|
| `calls`, `messages`, `credits` | `l1_deposit`, `rollup_inbox_message`, `l2_deposit` |
| `coords`, `unclaimed` | `inbox_message_level`/`_index` of a credit; messages whose `parameters_hash` is not cleared |
| `bridged`, `inboxOf`, `creditOf`, `status` | `bridge_deposit` and its `bridge_operation` |
| `armed` | the flags of `BridgeMatcherLocks` |
| `pc`, `walking`, `walk` | the step of the pass, and the rows its walk has still to visit |
| `RollupCall`, `InboxMessage`, `Deposit`, `XtzDeposit`, `MichelsonDeposit` | the handlers, and the commit of an inbox page |
| `StartPass`, `SkipStep`, `StartStep`, `EndStep` | `run_matcher_steps`, and the head of each step |
| `CreateBridge`, `AttachInbox`, `CopyCoords`, `LinkByCoords` | the visit of one row by the first four steps |
| `LinkByHash`, `LinkByValue` | the two passes of the xtz step |
| `CementCommitment` | the deposit half of `on_cement_commitment` |
| `Crash` | a restart; `on_synchronized`, which sets the same flags |

Abstractions. A pool is filled once per walk and rows leave it as they are taken; a row taken
has also left the query, so the model evaluates the query at each visit. The ties an
`order_by` does not break are choices. `hash`, `value` and the derived transaction hash are
keys: equal parameters have equal values, and different coordinates never derive one hash.
`outcome` stands for the ticket and proxy of an FA credit, which decide the status, and which
`Registry` derives; the xtz step always says `finished`. The timeout considers all deposits;
the limit to the oldest 100 is in `Commitments`. A pass is one transaction with the handlers before it, so a death leaves either
nothing or all of it, and `Crash` happens between passes only.

### WithdrawalMatcher

Built like `DepositMatcher`: `script` is what the chains did, the handlers store legs, a pass
visits rows. A withdrawal *w* has its L2 event, its kernel message and, if executed, its L1
execution, all named *w*; a payout *p* has its L1 call and the message row made of it, both
named *p*. One name space then serves all tables: bridge row *w* is the customer's, bridge row
*p* the one that the claim of *p* creates for the provider, and the L1 leg of message *m* is *m*.

| TLA+ | code |
|---|---|
| `withdrawals`, `messages`, `payments` | `l2_withdrawal`, `rollup_outbox_message`, `l1_withdrawal` |
| `lost` | executions whose handler found no message and returned |
| `hashed`, `unclaimed` | L2 legs, and messages, whose `parameters_hash` is not cleared |
| `rows`, `outboxOf`, `paidBy`, `status` | `bridge_withdrawal` and its `bridge_operation`; `Kind` is derived |
| `Withdraw`, `XtzWithdraw`, `OutboxLevel`, `ClaimXtzFastWithdrawal` | the handlers, and the commit of an outbox level |
| `ExecuteByIndex`, `ExecuteUnknown`, `DieOnExecution` | `on_rollup_execute`: the lookup by index, its failure, and the lookup by withdrawal id, which kills the process |
| `CementCommitment`, `horizon` | expiry and sealing; the highest outbox level that has left the window |
| `CreateBridge`, `AttachOutbox`, `LinkExecution`, `ClaimPayout`, `Split` | the visit of one row by each step |
| `Restart`, `Crash`, `Synchronized` | `on_restart`, `on_synchronized` |

Abstractions. Whether the six fields of a payout agree with the L2 event is a constant of the
payout (`exact`). Payouts and executions come in any order, so the orders by level of their
walks are choices. Legs are ordered by their number, also where the code orders operations by
the L2 timestamp, which two legs of one L2 block share. The node gives a proof for any of the
unpaid messages above the horizon; below it the age check of `update_proof` has ended, since a
commitment is cemented after the challenge window of its inbox level. The rows of commitments,
the levels and the window are in `Commitments`, whose `NeverReopened` is what this relies on:
nothing below the horizon is sealed. An execution by withdrawal id kills the process whatever
its lookup finds: nothing, and the assertion reads a name the loop never bound
(`on_rollup_execute.py:39`); or a row, and the name is its relation `outbox_message`. The query
at line 25, unlike every other use of a relation in the handlers, does not fetch it, so it is a
query set: true for the assertion, and without the `message` line 81 reads, where only a
`ValueError` is caught. So no such execution is ever stored, and `DieOnExecution` is a `Restart`, the bound
`MaxCrashes` included; what the other indexes do meanwhile are the steps of the other actions. A fast
withdrawal has a hash of its own, ordinary ones alike in receiver, ticket and amount share one. Payouts name fast
withdrawals only.

### BridgeOperations

An operation is opened, gets a message nobody holds, and is closed by a leg nobody was closed
by; a payout hands its operation's message over to a new one; an operation not closed may run
out of time. There are no flags, walks, keys, statuses or orders in it. The mapping:

| BridgeOperations | DepositMatcher | WithdrawalMatcher |
|---|---|---|
| `opened` | `bridged` | `rows` |
| `messages`, `message` | `messages`, `inboxOf` | `messages`, `outboxOf` |
| `closers`, `closer` | `credits`, `creditOf` | `payments`, `paidBy` |
| `overdue` | status `inbox_matching_timeout` | status `outbox_expired` |

Handlers map to `Store`, the visits of the matcher to `Open`, `Attach`, `Close` and `HandOver`,
a commitment to `Expire`, everything else (flags, walks, sealing, restarts) to a stutter.
`HandOver` has no counterpart in deposits.

### Commitments

The matchers reduce a commitment to the rows it changes; this module has the reasons. L1
cements one commitment after the other, the index handles them in order and late, the rollup
node, which is asked for proofs, is anywhere between the start and L1.

| TLA+ | code |
|---|---|
| `head`, `cemented`, `executed` | L1: its level, the commitments it has cemented, the messages it has executed (external) |
| `node` | what the rollup node knows to be cemented (external) |
| `indexed` | `rollup_commitment` |
| `opened`, `attached`, `finished`, `status` | `bridge_operation`, and what the matcher has linked to it |
| `commitment` | the commitment stored with the proof of a message |
| `Oldest`, `Expire`, `TimeOut` | the two lists of the handler, by `created_at`, cut at 100 |
| `Awaiting`, `Due`, `Answers`, `Stored` | the count that may skip the proofs; the messages `update_proof` asks for; what the node answers; the lookup of the commitment it names |
| `OnCementCommitment`, `DieOnCement`, `Restart` | the handler with `update_proof` in one transaction; the lookup that raises; the process started again |
| `Estimate` | `estimate_outbox_message_cemented_level` |
| `OpenOperation`, `Attach`, `Finish` | what the matcher does to an operation |
| `Tick`, `Cement`, `Refresh`, `ExecuteOutboxMessage` | L1 and the node (external) |

Abstractions. The k-th commitment speaks for the inbox up to `Origination + k * Period`. L1
refuses to cement before the challenge window of a commitment is over, and to execute a message
that has left the window of active levels; both are rules of the protocol from which the code
takes its constants. Operations are numbered by `created_at`, and those of one kind have levels
in this order. `Delay` is how late L1 may cement; the estimate allows for up to 4 blocks, and
the assumption says so. The node answers a request with a proof or an error, freely, except that
it proves nothing its own commitment does not speak for.

### Registry

Three indexes, of L1 calls, of L2 credits and of L2 withdrawals, write rows that all of them
read. Each runs at its own pace; a handler that raises takes its transaction back and the process
down, and the restart reads the outbox before the indexes go on.

| TLA+ | code |
|---|---|
| `tickets` | `tezos_ticket` |
| `tokens` | `etherlink_token`: the ticket of each owner (proxy) |
| `accounts`, `due` | `l2_account`, and which unknown rows `ALIAS_RECHECK_INTERVAL` lets be asked again |
| `called`, `credited`, `withdrawn` | how far each index is; a credit's row has its ticket and token |
| `Sight` | `resolve_l2_account`: the cache, the query, the save |
| `Registrable`, `Fetch`, `Drain` | `TicketService.fetch_ticket`; the tickets the outbox messages register |
| `Deadly`, `Readable` | the metadata that kills `on_rollup_call`; that of no outbox message kills its reader |
| `Proxied`, `NewToken`, `Row`, `Fatal` | `on_deposit`: the validation, `register_etherlink_token`, the row, the ticket without token it dies of |
| `OnRollupCall`, `OnDeposit`, `OnWithdraw`, `OnHead` | the handlers |
| `DieOnHead`, `DieOnCall`, `DieOnDeposit`, `DieOnWithdraw`, `DieOnAnswer`, `Restart` | a handler that raises; `on_restart` |
| `Originate`, `Publish`, `Elapse` | the L2 node gets a record, the rollup node a message, time passes (external) |

Abstractions. A ticket is its content, classed by what reading it comes to: `listed`, registered
by configuration; `described`, with a token in its metadata; `opaque`, registered without one;
`bare`, a `ValueError`, which `on_rollup_call` takes for a call to pass by; `untyped`, a
`KeyError`, because a token no row has yet is named without its type; `garbled`, a `TypeError` or
`IndexError`, because the metadata is no map. Nobody catches the last two in `on_rollup_call`;
`from_outbox_message` turns the `KeyError` into a message skipped, and lets the other one through,
to kill the pass of the head and of every restart. A metadata whose token another ticket has
registered is `described`, with or without its type. Of an account only the kind is kept, from which
`home_runtime` and `origin` follow. The native ticket exists from `on_reindex` on and is left out,
as are names and decimals. An owner that is the receiver is the code's `proxy == l2_account`.
`on_deposit` decides between the two failures by the ticket, the token, and the exception
`register_etherlink_token` raises, and the model by the same. The log line of a
refused proxy speaks of a failed deposit, while the matcher makes a revertable one of it; the
status called "proxy not whitelisted" goes to credits whose ticket is unknown. No doc says which
is meant, so `CreditsExplained` states what the code does, and in which orders.

## Runs

| Run | Instance | Shows |
|---|---|---|
| `backfill` | 3 messages of 3 kinds, levels 1 and 2, origination 2, pages of 2, a full outbox at 2, new and legacy database, 2 crashes | `TypeOK`; `Inv`; `OwedOrServed`: every outbox level a consumed external made due is stored or owed; `NothingBelowOrigination` |
| `catch_up` | 2 messages, levels 1 and 2, full outbox at 1, 2 heads, 1 crash, 2 rollbacks, fairness | `InboxContiguous`: the cursor steps over no transfer to this rollup; `InsertsNeverCollide`; `MatcherSeesEveryRow`: no row waits for the matcher with its flag down; `KeepsPromise`: the refinement of `InboxIndex`; `EventuallyComplete`, `EventuallyRealtime` |
| `foreign_tail` | one page ending on a transfer to another rollup | violates `WalkStandsOnLastMessage` |
| `restart_then_rollback` | 3 messages, one restart, one rollback | violates `InboxContiguous` |
| `cascade` | 2 deposits of every pair of routes, of one level or two, alike within a route; identical EVM XTZ deposits credited at any two times, before and after hashes became derivable; 1 restart, 1 commitment, fairness | `TypeOK`; `MatcherInv`; `NoSharedLegs`: no message or credit serves two deposits; `OwnCredits`: a named credit closes its own deposit, another one a deposit of its value and level; `Settled`: between passes, what could be joined has its flag set; `ClosedStaysClosed`; `KeepsPromise`: the refinement; `EventuallyClosed` |
| `lost_credit` | 2 identical deposits, the first never credited | violates `ValueOnlyForOlder` |
| `splits` | 3 withdrawals, a fast one between two that share a hash, 2 payouts that name it, of one outbox level or three, in one script the fast one executed by its id, 1 restart, 1 commitment that looks at 1 operation | `TypeOK`; `WithdrawalInv`; `OwnLegs`: each operation has legs of its own, and of its withdrawal; `OneClaimant`: a claim finds its customer, alone, and one provider takes over; `Settled`; `PaidStaysPaid`; `KeepsPromise`: the refinement |
| `synchronize` | 2 withdrawals, one fast, 2 payouts, 1 restart, 1 commitment, fairness | `SynchronizedMeansDone`: at rest after `on_synchronized` nothing is left to join; `EventuallyPaid` |
| `late_payout` | 1 fast withdrawal, paid out, then executed | violates `DroppedOnlyIfLate` |
| `expired_execution` | the same, executed by id, 1 commitment | violates `ExecutionFindsMessage` |
| `commitments` | 3 operations in 4 scripts, 2 of them in the list, 4 commitments of period 3, window 2, 4 active levels, L1 up to 4 levels late, fairness | `TypeOK`; `SealedByCommitment`: a seal has a stored commitment that speaks for its message; `ClosedForCause`; `CountIsSound`: the count hides nothing that is due; `EstimateHolds`; `ExpiredForGood`: L1 executes nothing that expired; `NeverReopened`; `CementsHandled`: no crash loop lasts; `EventuallyDecided`: the limit starves nobody |
| `registry` | 2 tickets, 2 proxies, 2 users, 8 scripts of up to 3 calls, 3 credits and 2 withdrawals, 1 undecodable answer, fairness | `TypeOK`; `NeverMisclassified`: no address is ever recorded as what it is not; `CreditsExplained`: the cause of every status of a credit; `EventuallyHandled` |

Why the bounds are enough: two pages, one of them partial, need three messages with pages of
two; a continuation needs a full level and one above it; a stale cursor or queue needs one
rollback and one more pass, and two rollbacks reach every order of revert and redo of two
heads; a second crash strikes the recovery from the first. In the matcher two deposits collide
on a key; a row closed by one step needs one more pass to be touched again. A second split needs a second
payout, and a message taken from another withdrawal needs two that share a hash; the commitment
looks at one operation, so that its limit bites. In `commitments` three operations against a list of two let an older one
push a younger one out; four commitments cover the life of a message: the one before it, the one
that speaks for it, and those that close its window; a window of active levels longer than a
period and shorter than two lets proofs and expiries overlap. In `registry` the second ticket is
the one nobody lists, and two proxies compete for it; two sightings of an address around its
record need two operations. The proofs remove the bounds for
the invariants. Deadlock is checked in every run of the index; the other runs end when
everything the script has is stored and nothing is left to do.

Assumptions of the matcher's instances. `cascade` gives a credit without a derivable hash a time
within `LAYERS_TIMESTAMP_GAP_MAX` of its L1 call, and every level to one kernel: outside them
the value pass is a guess. In `cascade` a credit of the EVM XTZ route always comes;
`lost_credit` is what happens when one does not.

Fairness (`FairSpec`): weak fairness of the steps of a pass (the event loop), of head blocks
and of the rollup node. Messages, rollbacks and crashes are not fair; they are bounded, so
liveness is claimed once they stop. The matcher needs none for these properties. In
`DepositMatcher`, weak fairness of each index and of the pass: DipDup keeps calling the
handlers while there are operations, and every batch ends with a pass. The commitment and the
crash are not fair. `WithdrawalMatcher` adds weak fairness of `Synchronized`: DipDup calls
`on_synchronized` once all indexes have reached the head. `EventuallyPaid` needs it, because
attaching a message arms nothing for an execution that came first; `synchronize` has no
execution by withdrawal id, since that keeps its index from the head for ever (finding 5).

In `Commitments`, weak fairness of L1 (`Tick`, `Cement`), of the steps of the matcher that open an
operation and attach its message, of the handler and of the restart. The node's `Refresh` and its
answers are not fair. A node ahead of the index makes the handler die, at every restart, of a
commitment it has not stored; `CementsHandled` holds because the messages a proof is asked for
grow too old, after which the count lets the handler pass. `EventuallyDecided` needs fewer
operations without a message than the limit, or these would fill the list for ever; its premise
is that the matcher has done its part and two more commitments come. In `Registry`, weak fairness
of the three indexes, of the restart and of the rollup node (`Publish`); records of the L2 node
and rechecks are not fair. `EventuallyHandled` excepts the operations that stop the process at every
restart (`Impassable`): an owner of its own for a ticket without token, which `on_deposit` dies of
(`on_deposit.py:36`); the L1 call of an unlisted ticket whose metadata names a new token without
its type, or is no map, which `on_rollup_call` dies of (`ticket.py:92`, `:143`;
`on_rollup_call.py:37` catches a `ValueError` only); and the withdrawal of an unlisted ticket that
cannot be registered, for these reasons or for want of metadata (`ticket.py:69`).

## Findings

1. `foreign_tail`: the docstring of `_write_cursor_sentinel` has the sentinel stand on a
   transfer to another rollup, but the walk's `continue` leaves the cursor below it. Such a
   tail is walked again by every pass, and a page made only of such transfers keeps the
   backfill from ending. `catch_up` therefore has no such transfers.
2. `restart_then_rollback`: the backfill of a restart is not journalled, the passes before it
   are. A rollback then reverts a lower row and leaves the higher one, on which the cursor
   stands; the lower message is gone for good.
3. `lost_credit`: a pairing by value is documented as a sign of old credits or of a changed
   formula. A credit whose hash names a deposit not yet attached takes, in the same pass, any
   older open deposit of the same value in the window.
4. `late_payout`: a payout is dropped for a leg "already paid out on L1". The code knows which
   leg was indexed first, not which came first. If the execution is, the customer's operation
   gets an execution that went to the provider, and the provider gets no operation.
5. `expired_execution`: the lookup by withdrawal id asserts that it finds a message. It skips
   operations that the cement index has expired; the execution made in time then kills the
   process, at every restart. An open operation only moves the death from the assertion to line
   81, which reads the message of a relation nobody fetched.

The rollback of finding 2 also restores a deleted sentinel beside a newer one, against the
unique key of the table.

## Proofs

`RollupMessageIndexProof` proves, for every value of the constants with
`RollbackAcrossRestart = FALSE`, that the specification keeps `TypeOK`, `InboxContiguous`,
`OwedOrServed` and `InsertsNeverCollide`. The only assumption is `ConstantsAssumption`: the
constants have their types and a page holds at least one message.

None of these invariants is inductive. The tables say nothing of the page in hand, so `Walked`
and `Stored` say what the batch, the cursor and the queue hold between the statements of a
pass; `Drained` says that a level gone from memory but not from the rows has its outbox in the
batch or stored and its continuation owed; `Memory` relates the three sets of the queue object
to the rows at each step; `Closed` covers an empty window. A rollback needs more: the tables
must be safe after *every* revert, so `JournalSafe` states safety of every state the journal
can be reverted to, from the start of this process on. Its proof rests on three lemmas of
`JournalProof`: a statement's entry reverts to the table it was made on (`RevertEntry`), an
entry of another table changes nothing (`RevertOther`), and reverting in two stages is
reverting once (`RevertTwice`). `RevertNewest` ties the set definition to the framework's
newest-first loop.

`RollupMessageIndexDutiesProof` proves `NothingBelowOrigination`, `MatcherSeesEveryRow` and
`QueueDepartures` from the same assumptions, on top of that invariant. The queue must be free of
levels below the origination after every revert (`FloorJournal`), and `load` must see them all
before it drops them (`FloorCovers`). A rollback takes messages and brings none back, because the
journal has no deletion of them (`OnlyInserted`); and a pass that has committed outbox rows owes
their flag until it ends (`Offered`). `QueueDepartures` has no run of its own: `KeepsPromise`, which
`catch_up` checks, allows a level to leave by `Settle` and `Forget` only.

`ImplementsIndex` proves the refinement, `Spec => KeepsPromise`. `Inv` says that nothing is missing
below the cursor; the refinement also needs that nothing is there without a reason, which is
`CauseInv`: rows and the batch hold transfers of the window (`RowsOwn`), the cursor and every
sentinel, one that a revert brings back included, stand in the window (`StandsInWindow`), and every
level in memory, in the tables or in a journal entry is reached from an external of the inbox or was
left by the older version (`LevelsCaused`). The last two speak of the keys of the journal, since a
revert restores what an entry deleted (`KeysReverted`). With both, the rows are exactly those of the
prefix (`Stands`), in this state and in the next, and each action is shown to be its abstract step;
`SaveDelete` is `Settle` because of `Drained`, a revert is `Revert` because of `JournalSafe`.

Two theorems draw the line of the findings. `WalkWithoutForeign`: without transfers to other rollups
the walk always ends on the last message of its page, so that they alone cause finding 1. And
`InboxSafe` without its hypothesis on rollbacks is what finding 2 violates.

`DepositMatcherProof` proves `TypeOK`, `Settled`, `NoSharedLegs` and `ClosedStaysClosed` for
any set of deposits and any script, from `DepositMatcherAssumption` (the constants have their
types; levels follow the inbox; the parameters determine the value, and the value the route).
`Settled` says nothing of a pass under way, in which a flag is clear and its work undone.
`DepositInv` says of each step that its flag is set, or nothing is ready for it, or what is
ready is among the rows its walk has still to visit (`Covered`); the xtz step may leave to its
second pass what the hashes do not name (`CoveredXtz`). Walks hold rows the query still selects
(`WalkPending`), so a visit never links a linked row. A new leg arms the steps it can make ready
and makes no other ready; a join makes rows of later steps ready only with their flags, and
otherwise takes rows away (`FewerReady`, `LinkKeeps`). `ClosedStaysClosed` needs `ClosedStatus`
besides: an operation with a credit has the status of an outcome, which a commitment passes by.

`DepositMatcherCreditsProof` proves `OwnCredits` of every script that is `CreditsComplete`: each
deposit of the EVM XTZ route is credited, a credit whose hash is not derivable comes within
`LAYERS_TIMESTAMP_GAP_MAX`, and deposits alike in value and level have credits of one formula. The
scripts of `cascade` all are, and that of `lost_credit` is not. No flag says why the value pass pairs
first in, first out correctly; the argument is one of counting. Streams are indexed in their order
(`StreamsInOrder`), so the messages stored are all those up to the last; claimed messages are those
attached (`ClaimsExact`); and what an earlier step of this pass could do is done (`StepsDone`). At
the value pass no deposit of the value of a credit and of a lower level is open, since all credits of
that level came first and closed its deposits (`LowerClosed`); nor is the earliest open one of a
higher level, since then every deposit of the credit's own level would be closed, by the other
credits of that level, of which there is one too few (`OlderByLevel`). A named credit that found no
deposit by hash finds none by value (`NamedNotByValue`). `NoRoom` and `NoCover` are the counting: a
finite set does not fit into itself without one of its elements. `ValuePassForOlder` follows: under
`CreditsComplete` the property that finding 3 violates holds.

`WithdrawalMatcherProof` proves `TypeOK`, `OwnLegs`, `OneClaimant`, `Settled` and
`PaidStaysPaid` for any withdrawals, payouts and scripts, from `WithdrawalMatcherAssumption`
(the constants have their types; a fast withdrawal's hash is its own, and only fast ones are
paid out or executed by id). `WithdrawalInv` adds to the flags and the walk (`FlagsCover`,
`WalkPending`) what keeps a leg from being handed out twice: a message a row holds, and a
payout that has its row, are no candidates any more (`KeysCleared`), and a provider has a row
exactly when its customer's row names the payout (`Providers`). From the latter follows that
the row a claim splits is the customer's, unpaid and alone (`SplitRows`, `CustomerAlone`).
`BridgedFirst` says that the steps after the first find a row for every L2 leg, so that the
claim finds one at all, and that the new row, which arms nothing, will be followed by the
outbox step. The split is the delicate step: the provider's row must be no new join of the
outbox step, whose flag may be down, and is not, because it takes over whatever message, or
none, the customer's row had.

`ImplementsOperations` (in both) proves the refinement, `Spec => KeepsPromise`: from the
invariant, each action is a step of `BridgeOperations` or a stutter. The only delicate steps are
those that take a leg: that nobody holds the message or credit they take is `NoSharedLegs`, and in
the withdrawals `KeysCleared`, `Providers` and `CustomerAlone`, which make the split a `HandOver`.

`CommitmentsProof` proves, for every origination, period, window, limit and script, that the
handler's arithmetic agrees with that of L1 (`TypeOK`, `SealedByCommitment`, `ClosedForCause`,
`CountIsSound`, `EstimateHolds`, `ExpiredForGood`, `NeverReopened`), from
`CommitmentsAssumption` (types, levels above the origination and in the order of `created_at`, a
delay of at most 4). Its invariant adds to these where L1 is: a commitment is cemented no earlier
than its window allows and no later than `Delay` after, and a message that was executed is covered.
`NeverReopened` is the subtle one: `update_proof` writes `sealed` whatever the status was, and what
keeps an expired withdrawal from it is that the age check of the proofs has ended by the time the
commitment that expires it can be handled. `EstimateSound` rests on `CoveringLevel`: the level
rounded up by Python's `%` of a negative number is the inbox level of the first commitment
that speaks for the message.

`RegistryProof` proves `TypeOK`, `NeverMisclassified` and `CreditsExplained` for any tickets,
owners, addresses and chains, from `ScriptsAssumption` (a credit names an L1 call; without a
Michelson runtime every address is native), `NoneAssumption` and `FaultsAssumption`. Its invariant
adds `Registered` (a listed ticket, and one of a handled call that can be, has its row: why a
credit without ticket has its call not handled yet) and `OneToken` (no ticket has two tokens).

Only model-checked: the liveness properties (`EventuallyComplete`, `EventuallyRealtime`,
`EventuallyClosed`, `EventuallyPaid`, `CementsHandled`, `EventuallyDecided`,
`EventuallyHandled`), since the prover treats neither fairness nor `ENABLED`.

## Plan

Done: the index, both matchers, commitments, shared rows, the abstract index and operations. Left:

1. Rollbacks of rows the matcher and the handlers wrote: foreign keys cascade from shared rows,
   and a leg that is only unlinked arms no flag.
2. The routing forms of the L1 call, `on_michelson_deposit`, and token balances.

## Not modelled

Decoders and hashes (`michelson_deposit.py`, `types/output_proof`, parameter hashes) are pure
functions of bytes; the matcher sees them as keys. Generated types, configuration, SQL,
Hasura metadata and deployment files have no behaviour of their own. TzKT's own
reorganisations, as opposed to the rollbacks they cause, are not modelled: the published inbox
only grows. Token balances are two additions of one index that nothing reads. A rollback of the
index of a handler, which by cascading foreign keys takes rows of other indexes with it, is not
modelled: the matchers and `Registry` have no journal.
