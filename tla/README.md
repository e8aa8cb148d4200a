# idris2-ouc in TLA+

The Optimistic Upgrader Canister (OUC) is an Internet Computer canister, written
in Idris 2 with a C runtime around it, that takes proposals to upgrade ERC-7546
dictionary contracts on EVM chains, has auditors review them, collects
signatures and sends the upgrade transaction. It also reads EVM chains through
the EVM RPC canister, keeps a table of monitored contracts, and carries a
pool of staked auditors, rewards, a treasury and multi-chain relaying.

This directory models that program. Paths below are relative to the root of the
repository (in `PROJECT.json` they carry the prefix `src/`, which is where the
sources are unpacked).

Contents

1. Inventory: the parts of the system
2. Plan
3. The modules and how they correspond to the code
4. The runs
5. Fairness
6. What is proved
7. Where code and documents disagree
8. What only the model checker establishes, and what is not modelled

## 1. Inventory

Two worlds meet in the canister. The Idris handlers are functions from a state to
a new state or an error, so each call is atomic and a failing call changes
nothing. The C entry points (`lib/ic0/canister_entry.c`) are canister methods:
one message execution is atomic too, but a method that calls another canister
returns first and is continued by a callback, and *any* other message may run
between the two. What it leaves in C static variables for its callback is
exposed to them.

| component | state | operations | interacts with | hard behaviour | what makes it correct |
|---|---|---|---|---|---|
| Upgrade proposals `src/OUC/Functions/Core.idr`, `src/Proposals/Core.idr` | `OUCState`: id counter, list of proposals, list of reviews | submit, assign, review, prepare execution, record execution | auditors, EVM chain through an outcall | several execution requests of one proposal in flight; late, lost and untrue answers; reviews after the deadline; lookup by first match but update of every match; one review decides, whoever sent it | ids are unique; the reviews explain the state; Executed exactly when a reported success landed; every move is a legal transition |
| Lifecycle monad `src/OUC/Functions/Lifecycle.idr` | none (types) | one constructor per transition | indexes the handlers | - | it is the abstract specification of the above |
| Multi-signature voting `src/OUC/Functions/MultiSig.idr` | a `VotingSession` | create, sign as proposer, vote, status, aggregate | orchestration | threshold arithmetic written twice; a list of voters with repetitions; a declared n that nothing compares with it; the deadline against a late proposer signature | approval and rejection exclude each other and are final; only sufficiently signed upgrades are sent |
| Orchestration `src/ERC7546/*.idr` | execution record | `orchestrateUpgrade`, `getLifecycleState`, `recordUpgradeResult` | MultiSig, proposals | status derived twice, independently | the summary and the orchestration agree |
| Auditor pool `src/AuditorPool/Core.idr`, `AutoAssign.idr` | list of auditors with status, reputation, stake | register, slash, suspend, reactivate, adjust, select, assign | audit votes, rewards | three statuses written by four operations without looking; rounding of slashes | no token lost; a slash is not undone; selections differ |
| Audit votes `src/AuditorPool/Vote.idr` | `ProposalVoteState` | start, vote, evaluate | the pool it was selected from | the pool changes during the vote; the deadline; seats and voters differ | outcomes are sound, reachable and final |
| Canister outcalls `lib/ic0/canister_entry.c` | statics per method, table of monitored contracts, event count | queryDictionary, pollContract, fetchEvmLogs, testEvmRpc, testHttpGet, testEthBlockNumber, registerMonitor and callbacks | EVM RPC canister, management canister, event store | statics shared by overlapping messages; early returns without a reply; prefix comparison; fixed tables | one reply per message, about what was asked; table stable |
| Command dispatcher `src/Main.idr` | IORefs, argument slots; counters and flag in C statics | initialize, count, store an event, account commands | C entry points | IORefs that may be initial again at any call; statics that an upgrade clears | flag and database agree |
| Stable stores `lib/ic0/ic0_stubs.c` (STKV), `stable_btree.c` (STBT) | list of entries, sorted leaf, cached headers, scan cursor | put, get, clear, scan, collect | stable memory, upgrades | a scan while entries move; headers cached in statics; a leaf that cannot split; entries that hide others | a map in which a key keeps the size of its values, whatever upgrades come between |
| Upgrade hooks and event database `lib/ic0/sqlite_*.c`, `canister_entry.c`, event functions of `src/Main.idr` | database in main memory, snapshot in stable memory | init, pre and post upgrade, open, serialize, deserialize, store | fetchEvmLogs, SQLite | upgrades with a failed open, save or load; a restored database that cannot grow; a failed store that is counted | acknowledged events survive unless a call failed |
| Donations `lib/ic0/ic0_stubs.c` | table of accounts in statics | accept cycles, find or create an account, raise its tier | canister_entry.c | cycles taken before the account is looked for; names compared as far as the shorter goes; a full table | the cycles are in the accounts of their names |
| Feedback `src/OUC/Functions/Feedback.idr` | challenges, freezes, feedback | raise, freeze, resolve, resume | proposals | overwriting resolutions; freezes nobody reads | a frozen proposal is not executed |
| Rewards `src/Rewards/Core.idr` | pool balance, pending and paid rewards | collect, queue, distribute | pool, votes | duplicates; fee split with rounding | nobody is paid twice, the balance covers the payments |
| Access control, obligations `src/OUC/Functions/AccessControl.idr`, `Obligations.idr` | roles, obligations | grant, revoke, check | handlers | - | only holders of a role act |
| Multi-chain `src/MultiChain/*.idr` | collections of approvals, chain registry | start, submit, status, register | relay | shadowed collections, no expiry check | a relayed approval is backed by enough registered auditors |
| HTTP outcalls, sender `src/HttpOutcall/*.idr`, `src/EvmRpc` | pending transactions, nonces | send, poll, retry | EVM chain | retries and nonces | a transaction is sent once |
| Threshold ECDSA `lib/ic0/threshold_ecdsa.c`, `src/ThresholdECDSA` | one static status and buffer | sign, poll | management canister | overlapping requests share the slot | a signature belongs to its request |
| Protocol accounts `src/Economics/ProtocolAccount.idr`, `Tier.idr`, `Scheduler.idr` | accounts with balance, tier and expiry, fee states, last day processed | register, donate, daily charge, sync, fee sync | dispatcher, HTTP outcalls that read fees | overlapping fee reads answered out of order; three operations that write the tier; rounding; costs above the balance; one placeholder address for every registration; accounts forgotten with the IORefs | no cycle made, none lost but with its account; fees credited once; a day charged once; tier in keeping with the payments |
| Treasury and recovery: the rest of `src/Economics` | treasury, suspension, recovery, conversion requests | deposit, reserve, commit, release, distribute, recover | donations | rounding, unchecked commits | money is conserved |
| Governance, FABI, inception audit, Candid, validated values, shims | none, or none worth keeping | pure functions | - | - | - |

The full list with the modules of each part, and what is left out, is
`components` in `PROJECT.json`; `hazards` there lists what is hard to test in
this code, each at the line where it bites.

## 2. Plan

Order of work, most important behaviour first. The modules marked done exist.

| # | module | composes | state |
|---|---|---|---|
| 1 | `ProposalLifecycle` | abstract specification | done |
| 2 | `Proposals`, `UpgradeExecution` | `UpgradeExecution` extends `Proposals`; both implement `ProposalLifecycle` | done, proved |
| 3 | `MultiSig` | with the orchestration of `ERC7546.Upgrade` | done, proved |
| 4 | `AuditorPool`, `AuditVoting` | `AuditVoting` extends `AuditorPool` | done, proved |
| 5 | `CanisterOutcalls` | outcall methods, HTTP tests and the monitor table | done, proved but for liveness |
| 6 | `ProtocolAccounts` | accounts, tiers and the scheduler, with the commands of `Main` | done, proved |
| 7 | `StableStores` | both stores with upgrades; implements `SizedMap` | done, proved |
| 8 | `CanisterLifecycle` | extends `SqliteStore`: upgrades beside events, donations and counters | done, proved |
| 9 | `CommonLemmas` | least elements, prefixes, induction over finite sets, sums: cited by the proofs about 5 to 8 | done, proved |

What is left of the system is library code that no entry point of the canister
reaches (`src/Main.idr` does not import it), pure functions, and shims: section 8.

Every invariant and action property of a passing run, and both refinements, are
theorems. All modules are written without RECURSIVE operators for that purpose; `WaitingAnswered`, a
liveness property, is left to the model checker.

## 3. The modules and how they correspond to the code

`map` in `PROJECT.json` gives the source lines of every definition. Definitions
keep the names of the code; an action named like a function is that function,
its guards are the function's error cases, and a call that fails is a
stuttering step and has no action. Operators introduced by "Mutated form" are
plausible bugs; no specification uses them.

**`ProposalLifecycle`** is the promise of the indexed monad `PFR`: one action per
constructor, on the sequence of the states of all proposals in the order of
their creation. `PRequestChanges` keeps the state and is a stutter.

**`Proposals`** is `OUCState` as the handlers of `OUC.Functions.Core` read and
write it: `nextProposalId`, `proposals` and `reviews` (newest first, as the code
prepends) and the clock. `submitProposal`, `assignAuditorToProposal`,
`submitReview` and `markExecuted` are the handlers; `findById` is the first
match, `updateProposal` the map over the whole list that rewrites every match.
`isValidTransition` is the run-time table the handlers consult, with the entries
no handler uses. The payload of a proposal and the untouched fields of
`OUCState` are left out.

**`UpgradeExecution`** adds `prepareExecution` and `recordExecution` of
`Proposals.Core`. `requests` holds every execution request prepared, with what
the chain did with its transaction (`tx`) and what `recordExecution` was told
(`confirmed`: that it landed). Preparing leaves the proposal Approved, so any number of requests may be
in flight, and the same request may be answered any number of times, since `recordExecution` asks for no
request at all. An answer of success or revert is only given when the chain did so;
a timeout or an RPC error may be reported whatever the chain did or will do. After a timeout a second request
may be sent, and both transactions may land: the code does not prevent it and no property excludes it.

**`MultiSig`** is one session with `createVotingSession`, `submitProposerSignature`,
`castVote`, and `orchestrateUpgrade` as it sends a transaction. A session takes
any list of up to `MaxVoters` voters, an auditor named twice included, because
the code excludes none and automatic assignment produces such lists.
The `m` and the `n` of an m-of-n threshold are any two numbers up to `MaxDeclared`:
`createVotingSession` compares them neither with each other nor with the list, and the repository has no
caller that would. What goes wrong when `n` is less than the number of voters (`Underdeclared`) is part of
the model, and the properties say how far it goes. `sendUpgradeTransaction` is a stub (vetKey signing is not
implemented), so a transaction counts as sent when `orchestrateUpgrade` reaches it.

**`AuditorPool`** is the list of auditors and its operations, with two history
variables (`deposited`, `slashedAmount`) that record what the calls were given and
reported. Registering and slashing take any of a set of configurations (`PoolConfigs`), which differ in the stake asked for
and in the percentage slashed, 0 to 100. `autoAssignAuditors` gives the set of lists the code may choose:
where the order of equals depends on the library's sort, every outcome is one. A filtered
list is the set of the positions kept, and `nth` its n-th in the order of the list.

**`AuditVoting`** extends it by the vote: `initVoteState` takes a list selected from the
pool, `submitVote` records a vote and evaluates `checkThreshold` at once, and the
pool's own steps go on in between.

**`CanisterOutcalls`** has the statics of the C file under their names
(`g_query` stands for the pair of address and selector buffers, `g_fetch` for
the two block numbers) and `messages`, one record for each call a user made: what it
asked, whether its callback is still to come, how often `msg_reply` was executed for
it and what about. A method is one action, its two callbacks are actions of their
own that may run at any later time, in any order. Where the code writes a static
before it rejects the message, there is an action for exactly that
(`querySelectorTooLong`, `fetchNoToBlock`). Whether `call_perform` succeeds is a
choice of the environment. Addresses and selectors are sequences of digits,
because `registerMonitor` compares only as many characters as its argument has,
so that one address may be a prefix of another. The two HTTP methods share their
callbacks, which answer each of them alike. What a reply callback finds in a response follows
what `parse_http_response_body` reads: status, headers, body, whereas Candid puts the three in the order of their
hashes, which is status, body, headers.

**`ProtocolAccounts`** is the account registry with the scheduler. `accounts`,
`totalCycles`, `lastProcessedDay` and `feeStates` are the registry, the scheduler's day
and the fee registry; `donate`, `dailyDeduction`, `syncEvmFeeBalance` and the
other operators are the functions of that name. `RegisterProtocol`,
`DonateToProtocol` and `Heartbeat` are the commands of `Main.idr`. `doRegisterProtocol` registers one
placeholder address (`Placeholder`) every time, so a second registration replaces the account and what it holds;
other protocols get an account when a fee of theirs is recorded. `SyncsCompleted` is `recordSyncsCompleted`, for any
list of protocols at any time. `Reinitialize` is the loss of the IORefs: registry and scheduler live in IORefs
which, says the comment at `src/Main.idr:183`, do not persist (also `docs/integration_plan.md:173`); the model lets them persist or be
initial again before any step, both together, and keeps or resets with them the fee registry that the caller holds.
A heartbeat on a day already processed only writes its own time and has no action. The fee
balance of a protocol is read by an HTTP outcall: `ReadFee` is the read taking place on the
chain, of any protocol a caller of `getProtocolsForFeeSync` may know, and
`processOneEvmFeeSync` records the answer, whichever comes first, making an account if there is none any more. The repository
holds no caller of that function; the documentation of
`processExtendedHeartbeat` says what the caller does, and the action is that. The
environment pays fees (`Deposit`) and loses reads (`ReadFails`). `ledger` is history: what was paid
in for a protocol, what charges were reported, what was lost with its accounts, on which day its account was last charged, and
whether its reads were answered in
the order of the balances they show. The list of accounts is a function of the protocol:
`upsertAccount` keeps one account of each, and the list's order decides only which protocol an
index names. Block numbers, the due times of syncs,
and times that nothing but a report reads, are left out.

**`StableStores`** is the stable memory with the statics of both stores. An entry is a
record of its key and value, sequences of bytes; offsets are computed from the sizes as in the
code (`OffsetOf`), because the scan keeps one. STKV searches a list from the front (`stkv_find`)
and appends when a value changes its size; STBT keeps one sorted leaf (`stbt_leaf_find`,
`stbt_leaf_put`) and refuses what it cannot hold. `Upgrade` clears the statics and nothing
else. The scan is `stbt_scan_start`, then steps of `stbt_scan_next` between which any other call
may come; when an insertion has moved the entries under the cursor, the next step reads sizes from the
middle of an entry, and `scan_misread` lets it end up anywhere a size can lead it at an
entry's edge. `reader` is the caller of a scan, and `epoch` tells a clear from a loss for
the abstract specification. Both stores keep their header at offset 0, as does the snapshot of the
event database; that a canister uses one of them is an assumption (`OwnsMemory`), and nothing in the repository
calls either store. `stkv_delete` does nothing, and the tree is never more than one
level high, so the code for further levels is never run.

**`SizedMap`** is what a user may rely on: a map in which a key keeps the size of the value it was first
given, and which only a clear empties.

**`SqliteStore`** has the operators of the event database: what opening, inserting, serializing and
deserializing make of it. SQLite is external and modelled by its documented behaviour: a database made by
`sqlite3_deserialize` without `SQLITE_DESERIALIZE_RESIZEABLE` has the pages it came with.

**`CanisterLifecycle`** puts it into the canister: `canister_init`, `canister_pre_upgrade` and
`canister_post_upgrade`, between which the other update methods run. `submitProposal` and
`registerAuditor` move the counters in C statics, `storeTestEvent` and `parse_and_store_log` store an event,
`donate` takes the cycles of a message and credits them. The statics are zero after every upgrade. Whether
SQLite opens, inserts, serializes and deserializes is a choice of the environment, remembered in `trouble`: an INSERT may fail although
there is room; `arrived`,
`overcounted` and `given` are history. The names a caller can give are finitely many, because an
argument is read into `text_arg_buf`, which has 512 bytes (`canister_entry.c:232`); `DonationsKept`
sums over them. An upgrade during which a hook traps is undone by the system and is no step.

## 4. The runs

| run | configuration | what it shows |
|---|---|---|
| `upgrade_execution` | two proposals, two auditors, three reviews, two requests | the reviews on record explain each state (`ReviewHistory`); ids stay dense, so first match is only match (`IdsDescend`); an assigned auditor is never replaced (`AssignmentKept`); no request outlives its approval (`RequestsStayAuthorized`); Executed exactly when a reported success landed (`ExecutedMeansLanded`); every step is a lifecycle transition (`ImplementsLifecycle`, refinement) |
| `approval_after_expiry`, `all_assigned` | one proposal; its clock past the expiry, or a review by another auditor | documented claims that the code does not keep (section 7) |
| `multisig` | three auditors, lists of up to three voters, every threshold with m and n in 0..3 independent of the list, clock 0..2 | votes are of different required voters (`OneVoteEach`); decisions exclude each other (`NeverBothDecided`) and the summary and the orchestration agree (`ReadyIffApproved`), unless n is declared less than the voters; both ways of writing the majority bound agree (`CompleteVerifies`); only sufficiently signed upgrades are sent (`SentSufficient`); rejection is final, and approval too but for such an n (`DecisionIsFinal`) |
| `audit_voting` | two principals, stakes that cannot register or need rounding, reputation steps that hit both ends, two configurations (a tenth and the whole of the stake), one slash each | slashing neither loses nor makes a token (`StakeAccounted`); an approval has enough different voters in time (`ApprovalSound`); a rejection is declared only when approval is out of reach (`RejectionHopeless`); outcomes are final (`ConcludedIsFinal`); those assigned were active then (`AssignedWereActive`) |
| `slashed_reactivated` | the pool alone | a documented claim that the code does not keep (section 7) |
| `canister_outcalls` | two overlapping messages of any methods; two addresses, one a prefix of the other; two chains, one unknown; tables of two contracts with two selectors | each message is answered at most once, and not while a call is left behind (`OneReplyEach`); an answer is about what was asked when no other message of the method ran meanwhile (`AnswersTrueWhenAlone`); no entry of the table hides behind another (`TableUnambiguous`) and indices handed out stay good (`EntriesStable`); whatever waits is answered (`WaitingAnswered`) |
| `query_mismatch` | as above | an answer that pairs another query with this one's result (section 7) |
| `protocol_accounts` | two protocols of which one is the placeholder, one size of donation and of deposit, two reads under way, days 1 and 2, accounts registered again and forgotten at any time | balances are what was paid less what was charged and what was lost with replaced accounts, and the total is their sum (`CyclesAccounted`); an account's tier lies between what its balance and what its payments afford, and its expiry agrees (`TierFitsPayments`); every fee is credited, and once if the answers come in order (`DepositsCredited`); only a day's first heartbeat charges, also when the scheduler forgot the day (`ChargedOnceADay`) |
| `falls_without_check` | one protocol | a documented claim that the code does not keep (section 7) |
| `stable_stores` | four keys, among them the empty one and one too long, values of two sizes, room for three entries | header, statics and entries agree at every call and after every upgrade (`CountsAgree`); the leaf fits its page (`StoresTypeOK`) and is sorted (`LeafSorted`); a scan that nothing moved under gives the keys that are due and no others, each once, in order (`ScanExact`); both stores implement `SizedMap` (`ImplementsSizedMap`, refinement) |
| `canister_lifecycle` | three events, three upgrades, three names of which two begin with the third, a table of two accounts | acknowledged events survive any number of upgrades in their order, all of them unless a call failed (`EventsKept`); a log is counted and not stored only after a restore, a failed open or a failed INSERT (`OvercountExplained`); donations are where their names say, unless the table is full (`DonationsKept`); the flag tells whether there is a database (`LifecycleTypeOK`) |

Why the bounds are enough. Two proposals are needed to see one handled while the
other is looked up, and a third would only repeat that; three reviews allow a
request for changes, a decision and a review that comes too late; two
requests are what it takes for the answers of one proposal's attempts to overtake each
other. Three voters are the least for which unanimity, a majority and each
m-of-n differ, with both parities of the list and repetitions; m and n up to three are below, equal to and above the length of a list. Two auditors and a
selection of two give one auditor on two seats as well as two on two. Two messages
are what an interference needs: it is always between a waiting message and one other.
The capacities of the monitor table (16 and 8 in the code) are constants, set to
2 so that both are reached. The costs of the tiers keep the order they have in the code,
scaled so that one donation reaches the highest tier, a daily cost exceeds the month of a lower tier, and an
account falls to each of them; a late
catch-up costs more than the one deposit is worth, so that the floor at zero is met. A month of a day, a call and a
nanosecond last one step of the clock. Two days are a day that is charged, forgotten and seen again by the heartbeat, and the next one. The leaf (4032 bytes in the code) has room for three
small entries, so that the fourth key meets a full one and a larger value is refused earlier; an
insertion can come before, at and behind the cursor of a scan. Three upgrades are what it takes to save, lose and
save again; snapshots hold two rows, so that the third event makes a save fail; a restored database has room for
none or one more. The table of accounts (256 in the code) holds two of the three names.

Named bounds: `MaxProposals`, `MaxReviews`, `MaxRequests`, `MaxTime`, `MaxVoters`, `MaxDeclared`,
`MaxSent`, `MaxSlashes`, `MaxMessages`, `MaxLogs`, `MaxPaid`, `MaxWei`, `MaxReads`, `MaxEntries`,
`MaxEvents`, `MaxCount`, `MaxCycles`, `MaxUpgrades`. Symmetry is used for auditors
and principals, which are only compared for equality, and in no run with a liveness
property; protocols are not symmetric, since one of them is the placeholder. Deadlock is checked for `canister_outcalls`, `protocol_accounts`, `stable_stores` and `canister_lifecycle`, where some call is always possible;
the other specifications stop when their bounds are exhausted and everything is decided.

## 5. Fairness

Only `CanisterOutcalls` has a liveness property. Its fairness is weak fairness of
the delivery of each message's callback: the Internet Computer guarantees that
every inter-canister call that was made gets a reply or a rejection, whatever
the callee does. No fairness is assumed of callers: nobody has to send a
message, review, vote or execute. The other modules have no liveness property because
the code promises none: nothing in it evaluates a vote when its period ends or
expires a proposal, no caller of a fee sync is in the repository, and a session may wait for its proposer for ever.

## 6. What is proved

The theorems hold for all values of the constants under the assumptions declared
with them (`BoundsAssumption`, `RequestsAssumption`, `SessionBounds`,
`AccountsAssumption`, `LifecycleAssumption`, `MaxRowsAssumption`, `PoolBounds`, `VotingBounds`,
`OutcallsAssumption`, `StoresAssumption`): the bounds and costs are natural numbers, the life of a
proposal, the divisors and the capacities of the monitor table are at least one, a higher tier costs
more, addresses, keys, values and names are sequences of numbers, and the names of donors are finitely many.
The sets of auditors, voters, protocols, keys, values and prefixes may be of any size, infinite ones included.
Every proof is checked to the leaves by TLAPS.

**`UpgradeExecutionProofs`.** The invariants `IdsDescend`, `ReviewHistory`, `SingleAssignment` (a proposal out of Pending has
one auditor), `RequestsStayAuthorized` and `ExecutedMeansLanded` are not
inductive one by one. A handler checks the first match and rewrites all matches, so
that the state it checked is the state it changed needs `IdsDescend`; that a fresh
proposal has no review needs that reviews refer to ids already handed out
(`ReviewsRefer`); that the answer to a request finds its proposal still Approved or
already Executed needs that a decision is never taken back. `UpgradeInv` is their
conjunction with the types and `ReportsTrue` (a reported success landed).
`ConsProperties`, `FindByIdProperties`, `UpdateProposalProperties` and
`RewriteProperties` say what the list operators return; with them each handler
reduces to a change of one element, and there is one lemma per handler and invariant.
`UpgradeInvariance` gives the invariant and the other theorems project it; `AssignedOnce` is an action property: a proposal out of Pending is
only rewritten with its list of auditors, because the one handler that writes the list asks for Pending. And
`UpgradeRefinesLifecycle` uses it to show that every step of the handlers maps to
a transition of `PFR` or a stutter: the reversed list of states is the abstract
sequence.

**`MultiSigProofs`.** `SessionInv` is the type, one vote for each voter
(`OneVoteEach`) and what was sent being
sufficient. The combinatorial step is `VotesBounded`: votes of different voters
inject into the list of required voters, so there are no more votes than seats, even
when a voter is listed twice. From it approvals and rejections together are at most
the seats; with n no less than the seats, m approvals and more than n - m rejections are too many, hence never both enough
(`DecisionsExclusive`). For a smaller n the code itself decides both ways, and the theorems say what is left: the status is then a rejection
(`SummaryAlwaysAgrees`), and it takes a rejection cast in time to overturn an approval (`DecisionsFinal`, with `CountUnchanged`: a step that is not a vote leaves
every count alone). Nothing is assumed of the declared m and n. `CompleteAlwaysVerifies` is
the arithmetic of the two majority bounds; `SentAlwaysSufficient` counts signers instead of
signatures; `DecisionsFinal` is an action property proved from the same invariant.
`VotesAlwaysDistinct` projects the invariant.

**`ProtocolAccountsProofs`.** `AccountsInv` has two parts that disturb each other little.
`AccountsPart` is `BalancesExplained` with `TierFitsPayments`: a daily charge keeps
the lower bound of the tier only because the tier before it was within it, and the upper bound because
a charge never raises a tier. It is stated of each protocol, whether it has an account or not: an account replaced or forgotten turns its balance
into `lost` (`DroppedProperties`), and a new one begins at the lowest tier with a ledger that explains it (`CreateProperties`, `FindProperties`). `FeesPart` is `DepositsCredited` with
`ReadsSeen`: a read under way shows no more than the chain holds now. `ChargesKnown` says that no account was charged on a later day than the scheduler knows: both are
forgotten together (`ReinitializePreserves`), which is why a day processed twice charges nobody twice. `AffordableIsHighest`, `AffordableMonotone`,
`ConversionRoundsDown`, `DonateProperties` and `DeductionProperties` say what the
operators return for any costs; `CreditPreserves` is shared by donations and fee
syncs. `ChargedOnlyOnceADay` is an action property: an account above Archive pays no catch-up, so
a donation or a fee sync never takes from it, and a heartbeat takes only when it moves the day on.
`CyclesAlwaysAccounted` adds `TotalInv`, the total is the sum of the balances, which holds
of the empty registry by the lemmas on sums and is kept because every operation that changes a balance computes the total anew.

**`CanisterLifecycleProofs`.** `EventsKept` is not inductive: that an upgrade without a snapshot
loses nothing needs that an absent snapshot is an empty one, and that a refused event
is accounted for needs that a closed database, or one that cannot grow, has a reason in `trouble`. `DatabaseExplained`
states these, and `LifecycleInv` is the types with it, `EventsKept` and `OvercountExplained`. One lemma for each operator of
`SqliteStore` (`OpenTyped`, `InsertTyped`, `LoadTyped`, `SaveTyped`) says what it makes of a database, whichever way
its call ends; `PreUpgradeKeeps` and `PostUpgradeKeeps` follow the rows into the snapshot and back.
`StoreKeeps` serves both methods that store an event, and `DonateTyped` shows that the table of donors never outgrows its size, from
the fact that the lookup answers a position of the list (`FindInList`).

`DonationsAlwaysKept` needs one thing more, `DonationsInv`: no name in the table is longer than `NameLen`. Only
then does a complete name, compared as far as it goes, meet its own account and no other (`CompleteName`). A
donation raises one balance and one entry of `given` by the same amount, or, when the table is full, the
latter alone (`DonationHeld`); what other names have is not touched (`DonationApart`, `DonationCredited`).

**`AuditVotingProofs`.** `VotingInv` is that of the pool and that of the vote. `PoolInv` is the types with
one entry per auditor, `StakeAccounted`, and that nothing was slashed from who is not registered. In `VoteInv`,
`Explained` says where the votes come from: different voters, all assigned, none after the present time. A result is computed when a vote is recorded and then kept, so soundness has to be carried along: `Sound` and `Hopeless` are `ApprovalSound`
and `RejectionHopeless` of a vote as a value, proved for what `checkThreshold` answers (`ThresholdSound`). The step that is not
obvious is the rejection: the code subtracts the number of votes against from the number of seats, and an auditor
may sit on two of them. The votes are of as many different voters (`VotersCounted`), and there are no fewer seats than auditors
assigned (`AssignedCounted`), so no more auditors are left than the code thinks. Selection is proved for every criterion at once: whatever `autoAssignAuditors` may
choose is a list of positions that the filter kept (`AssignedFromActive`).

**`CanisterOutcallsProofs`.** `AnswersTrueWhenAlone` speaks of messages that were answered; the invariant speaks
of those that wait. `Undisturbed`: a message that waits and that no other of its method came between is the only one of its
method that waits, and finds the statics as it left them. Each method writes its own statics, so a message of
another method keeps it, and one of the same method ends `alone` for all. For the monitor table `TableUnambiguous`
is kept because `registerMonitor` appends only when no entry was met, with the same comparison of prefixes by which
entries are found later, and `EntriesNeverMove` follows from `PrefixAppend`.

**`StableStoresProofs`.** `MemoryInv` is `CountsAgree`, the types and `LeafOK`: the leaf is sorted and fits its page.
The order of the keys is strict, transitive and total (`KeyOrderStrict`, `KeyOrderTransitive`, `KeyOrderTotal`), which makes
`stbt_leaf_find` split a leaf at the key (`LeafFindProperties`). Offsets are defined by recursion over the leaf;
`OffsetsExist` and `OffsetsUnique` give the function that the recursion defines, and `EqualRoom` compares two leaves piece by
piece, so that an insertion costs just the room `HasRoom` asked for. `ScansAlwaysExact` rests on `CursorInv`: while nothing came
between, the offset of the cursor is where some entry begins (`OffsetsGrow`: where only one begins), the caller has the keys with the prefix
in front of that entry, and the matches have begun there or before. That the scan may stop at the first key without the prefix is
`PrefixConvex`: in the order of the keys, those with a prefix are not interrupted. An overwritten value leaves every offset
alone because its size is the same (`SameShapeScans`); and `scan_misread` is impossible for such a scan.
`StoresImplementSizedMap` is the refinement: `ListMap` and `LeafMap` say what a list and a leaf read for each key; a put on
either is a put into that function or nothing (`ListOverwritten`, `ListAppended`, `LeafPutMap`), and making the memory ready,
reading, scanning and upgrading leave it alone (`ReadyKeepsMap`). `NextMaps` puts them together, one case for each action.

**`CommonLemmas`.** The library's induction theorems take an operator as parameter, which the provers cannot
instantiate. Two facts stand in for them: a set of naturals that is not empty has a least element
(`MinProperties`), for the least counterexample; and `SubsetInduction`, in which the property is a *set* of subsets. With the latter
it is proved what the recursive function behind `MapThenSumSet` computes for any finite set (`SumsExist`, `SumsAgree`,
`SumStep`), and from that how a sum moves with one term of it (`SumChanges`, `SumGrows`).

The strengthenings (`UpgradeInv`, `SessionInv`, `AccountsInv`, `TotalInv`, `LifecycleInv`, `DonationsInv`, `VotingInv`,
`StoresInv`, `CursorInv`, and `Undisturbed` with the table and statics of `OutcallsInv`) hold as invariants of the
components' runs too; the types in `OutcallsInv` mix numbers and pairs, which TLC does not compare.

Beyond the prover: liveness under fairness, and ENABLED.

## 7. Where code and documents disagree

* **Expiry.** `docs/Auditor-Workflow.md:301` says missing votes cause expiration, not
  approval. No handler reads `expiresAt` and nothing calls `expireProposal`: a review
  after the expiry approves (`approval_after_expiry`).
* **All assigned auditors.** `docs/Auditor-Workflow.md:299` says all assigned auditors must approve, `docs/OUC-Spec.md:64` and `:127` define
  and draw it so, and `docs/Auditor-Workflow.md:119` collects n-of-n signatures. `submitReview` lets one review decide and never asks
  who was assigned: an auditor who was not approves the proposal alone (`all_assigned`). `ReviewHistory` claims no more than that some
  review explains the state.
* **Slashing.** `src/Integration/SPEC.toml:201` says a slashed auditor cannot be
  reactivated. `suspendAuditor` overwrites the status, after which
  `reactivateAuditor` sees a suspended auditor (`slashed_reactivated`).
* **queryDictionary.** `lib/ic0/canister_entry.c:2036` describes the answer as the
  implementation of the dictionary and selector it names. The callback takes those two
  from static variables a later message has overwritten (`query_mismatch`).
* **Tiers.** `docs/economics/ouc.md:107` changes the tier of a donation's receiver only if the
  new one is higher, and downgrades only in the daily check. `donate` takes whatever the balance
  affords for a full month: after a day's charge a small donation, or a fee sync that finds nothing new,
  lowers the tier (`falls_without_check`).


The following were met while modelling; the modules do what the code does.

* **Reassignment.** `docs/Auditor-Workflow.md:281` reassigns the proposal of an unavailable auditor, and `assignedAuditors` is a list. The
  one handler that writes it asks for a Pending proposal, so a proposal has one auditor and keeps that one (`AssignmentKept`).
* **Thresholds.** `isVotingFailed` is commented as the threshold that cannot be reached. With a declared n below the number of voters it
  holds of sessions whose threshold is reached: they are called ready by the summary and rejected by the status, and an approval can be
  overturned, after its transaction was sent too (`Underdeclared`).
* **Selection.** `src/AuditorPool/AutoAssign.idr:143` says the same auditor may be
  selected twice if the pool is small. Every criterion but Random selects
  the same auditor however large the pool is.
* **Registered protocols.** `doRegisterProtocol` is commented as generating an address from the number of accounts. It uses the same one always,
  and the new account takes the place of the old one with its balance (`src/Main.idr:402`); `BalancesExplained` counts these cycles as lost.
* **IORefs.** `src/Main.idr:183` and `docs/integration_plan.md:173` say IORefs do not persist between calls, and only the initialization flag is
  kept in C for it. Wherever that is so the accounts are gone, and whatever was donated or credited with them; a fee registry that
  is kept never credits those fees again, and one that is not credits them from the start (`Reinitialize`). A day processed may be processed again.
* **Counters and accounts.** `lib/ic0/canister_entry.c:572` calls the store of the proposal
  counter persistent, as `lib/ic0/ic0_stubs.c` calls both counters. They are statics: an upgrade restarts them, so
  ids of proposals are handed out again, and empties the table of donors while the cycles stay with the canister
  (`canister_pre_upgrade`).
* **A restored database.** After an upgrade the event database cannot grow (`HasSpace`). An INSERT may fail for any other error too. `storeTestEvent` then
  answers 0, and `fetchEvmLogs` goes on reporting the logs as stored (`overcounted`).
* **Failed hooks.** A save that fails is only logged, and the next load restores the snapshot of an earlier upgrade; a
  load that fails leaves an empty database, whose next save replaces the snapshot.
* **A full table of donors.** The cycles are accepted before the account is looked for (`donate`); with the table full they are
  in no account.
* **Errors of `submitProposal`.** Its check of the text length never fires, because `parse_candid_text_arg` answers
  0 for an error and not less.
* **HTTP responses.** The comment in `parse_http_response_body` gives the order of the fields as body, headers,
  status and the code reads status, headers, body; responses come as status, body, headers. Only a response without
  headers and body is read as it is, so `testEthBlockNumber` answers an error for an ordinary one.
* **STKV.** A put with a value of another size appends an entry that `stkv_get` never reaches; a put of a key longer than 256 bytes
  is appended every time and never found.

## 8. What only the model checker establishes, and what is not modelled

Of the passing runs only `WaitingAnswered` is checked and not proved: it is a liveness property under fairness. The
runs that expect a violation are counterexamples on small instances. That the mutated forms break the properties is also
the model checker's to show.

Not modelled in the modules that exist: the payload of proposals, calldata and
signature encodings; the rounding of `half` is exact. In `MultiSig` the errors of `validateUpgradeRequest` and of encoding
the signatures, which end `orchestrateUpgrade` before anything is sent, are sendings that do not happen. A `PoolConfig` that slashes more than
100 percent, against the comment of the field, is excluded: the code checks nothing and would report more than the stake. When a
sync falls due (`isSyncDue`, which takes nanoseconds where its callers pass seconds) is only reported, and syncs are recorded at any time. `StableStores`
refuses every key and value above the maximal size; `stable_btree.c:431` cuts the length to 16 bits first, so that of one of 65536 bytes or more the
beginning is stored, which is not modelled. In
`CanisterOutcalls` the messages refused before any static is written and the content of responses beyond
the question they answer are left out, as is an upgrade between a call and its callback: a canister is
stopped for an upgrade, and stopping waits for open calls. In `CanisterLifecycle` the creation of the tables is part of
opening the database; the rows are counted, not measured, and the format and checksum of a snapshot are always in order
because it is written within one message by the only writer.

Modelled, and not claimed by any property, because no document says what should hold: the reply that a poll of an unknown chain never gets; the
second transaction that lands when a timeout is retried; the second credit of a fee when answers come out of order; the vote
of an auditor suspended or slashed since the selection; a session or vote that nothing ever decides.

Not modelled at all (`not_modelled` in `PROJECT.json`, with the reason for each):

* Library code that `src/Main.idr` does not import, so that no entry point reaches it: feedback with challenges and freezes,
  rewards, access control and obligations, the relay, approvals for several chains, the transaction sender, treasury and
  recovery. Each is a set of functions on lists that their callers would keep. Known hazards there: a frozen proposal is executed
  because no handler reads the freezes; a reward may be queued twice while a payment removes every entry that matches; shares of the
  treasury are rounded down one by one while the whole pool counts as distributed; a second collection of approvals hides the first.
* `src/OUC/Storages/StableMemory.idr` keeps its buffer in main memory, and its deserializer always returns nothing.
* `lib/ic0/threshold_ecdsa.c` is not linked by `scripts/build-canister.sh`, and its callbacks are placeholders.
* Pure functions without state: governance assessments in floating point, FABI scores, Candid encoders, validated values,
  text helpers; queries and the HTTP gateway, which only read; run-time shims.
