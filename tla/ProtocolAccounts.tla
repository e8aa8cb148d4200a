-------------------------- MODULE ProtocolAccounts --------------------------
(***************************************************************************)
(* The cycles accounts of the monitored protocols: Economics.Tier,         *)
(* Economics.ProtocolAccount and Economics.Scheduler, as the commands of   *)
(* Main.idr and the callers Scheduler describes drive them.                *)
(*                                                                         *)
(* Donations and fees found on the EVM chain are credited to an account    *)
(* and raise its service tier; the first heartbeat of a day charges every  *)
(* account and lowers the tier of those that cannot pay.  The fee balance  *)
(* of a protocol is read by an HTTP outcall, so it is known only when the  *)
(* answer comes, and several reads may be under way.                       *)
(*                                                                         *)
(* A timestamp is what the commands pass, seconds.  Functions that take    *)
(* nanoseconds divide or multiply by NsPerSec all the same, and so does    *)
(* this module.  Times, block numbers and counters that nothing but a      *)
(* report reads are left out, and of expiresAt all but whether there is one. *)
(* The list of accounts is a function of the protocol: upsertAccount keeps *)
(* it free of a second account, and its order decides only which protocol  *)
(* the index in a donation names, where any may be meant.                  *)
(*                                                                         *)
(* The accounts and the scheduler's day are kept in IORefs, which do not   *)
(* outlive an upgrade and, as Main.idr and docs/integration_plan.md say,   *)
(* may not outlive a command: they may be initial again at any time.       *)
(***************************************************************************)
EXTENDS Integers, Sequences, SequencesExt, Functions

CONSTANTS
  Protocols,       \* contract addresses of the protocols
  Placeholder,     \* the address doRegisterProtocol registers, whatever the chain
  MonthlyCost,     \* tierMonthlyCost
  DaysPerMonth,    \* 30
  SecondsPerDay,   \* 86400
  NsPerSec,        \* 1_000_000_000
  SecondsPerCall,  \* one catch-up call: 1000 blocks of 12 seconds
  CallCost,        \* cycles of a catch-up call, 500_000_000
  WeiPerUnit,      \* 1e12
  CyclesPerUnit,   \* weiToCyclesRate
  FeeSyncInterval, \* feeSyncIntervalSec
  Donations,       \* amounts that may be donated
  Deposits,        \* amounts that may be deposited on the chain
  MaxPaid,         \* bound on the cycles paid in
  MaxWei,          \* bound on the sum of the balances on the chain
  MaxReads,        \* bound on the reads under way
  MaxTime          \* bound on the clock

Archive == 0
Tier == Archive .. 3     \* Archive, Economy, Standard, RealTime: serializeTier

ASSUME AccountsAssumption ==
  /\ Placeholder \in Protocols
  /\ MonthlyCost \in [Tier -> Nat]
  /\ \A t \in Tier \ {Archive} : MonthlyCost[t] > MonthlyCost[t - 1]
  /\ {DaysPerMonth, SecondsPerDay, NsPerSec, SecondsPerCall, WeiPerUnit}
       \subseteq Nat \ {0}
  /\ {CallCost, CyclesPerUnit, FeeSyncInterval, MaxPaid, MaxWei, MaxReads, MaxTime}
       \subseteq Nat
  /\ Donations \subseteq Nat /\ Deposits \subseteq Nat

VARIABLES
  accounts,         \* of AccountRegistry: the account of each protocol that has one
  totalCycles,      \* of AccountRegistry
  lastProcessedDay, \* of SchedulerState
  feeStates,        \* EvmFeeRegistry; without an entry, the initial state
  evmBalance,       \* the fee balances on the chain
  reads,            \* fee balances read on the chain, the answer still to come
  now,              \* seconds
  ledger            \* history: what was paid in, charged and lost

vars == <<accounts, totalCycles, lastProcessedDay, feeStates, evmBalance, reads,
          now, ledger>>

---------------------------------------------------------------------------
(* Economics.Tier.                                                         *)

calculateAffordableTier(balance) ==
  LET afforded == {Archive} \cup {t \in Tier : balance >= MonthlyCost[t]}
  IN  CHOOSE t \in afforded : \A u \in afforded : u <= t

tierDailyCost(tier) == MonthlyCost[tier] \div DaysPerMonth

\* minus of Data.Nat
Monus(m, n) == IF m >= n THEN m - n ELSE 0

---------------------------------------------------------------------------
(* Economics.ProtocolAccount: one account.                                 *)

createAccount ==
  [balance |-> 0, tier |-> Archive, lastSyncAt |-> now, expires |-> FALSE]

calculateCatchUpCost(lastSyncAt) ==
  ((Monus(now, lastSyncAt) \div NsPerSec) \div SecondsPerCall + 1) * CallCost

\* Mutated form: the cost of catching up is subtracted without a floor.
DonateOverdraws(acc, amount) ==
  LET newBalance  == acc.balance + amount
      upgraded    == calculateAffordableTier(newBalance) > acc.tier
      catchUpCost == IF upgraded /\ acc.tier = Archive
                       THEN calculateCatchUpCost(acc.lastSyncAt)
                       ELSE 0
      finalTier   == calculateAffordableTier(newBalance - catchUpCost)
  IN  [ account |-> [acc EXCEPT !.balance = newBalance - catchUpCost,
                                !.tier    = finalTier,
                                !.expires = finalTier > Archive],
        catchUpCost |-> catchUpCost ]

(* The tier is computed from the new balance, and once more from what the  *)
(* catch-up leaves of it.  The result names the whole cost, also when the  *)
(* balance did not cover it.                                               *)
donate(acc, amount) ==
  LET newBalance  == acc.balance + amount
      upgraded    == calculateAffordableTier(newBalance) > acc.tier
      catchUpCost == IF upgraded /\ acc.tier = Archive
                       THEN calculateCatchUpCost(acc.lastSyncAt)
                       ELSE 0
      balance     == Monus(newBalance, catchUpCost)
      finalTier   == calculateAffordableTier(balance)
  IN  [ account |-> [acc EXCEPT !.balance = balance,
                                !.tier    = finalTier,
                                !.expires = finalTier > Archive],
        catchUpCost |-> catchUpCost ]

\* Mutated form: an account that falls to Archive keeps its expiry.
DeductKeepsExpiry(acc) ==
  IF acc.balance >= tierDailyCost(acc.tier)
    THEN [acc EXCEPT !.balance = @ - tierDailyCost(acc.tier)]
    ELSE LET tier == calculateAffordableTier(acc.balance)
         IN  [acc EXCEPT !.balance = Monus(@, tierDailyCost(tier)),
                         !.tier    = tier]

dailyDeduction(acc) ==
  IF acc.balance >= tierDailyCost(acc.tier)
    THEN [acc EXCEPT !.balance = @ - tierDailyCost(acc.tier)]
    ELSE LET tier == calculateAffordableTier(acc.balance)
         IN  [acc EXCEPT !.balance = Monus(@, tierDailyCost(tier)),
                         !.tier    = tier,
                         !.expires = @ /\ tier # Archive]

---------------------------------------------------------------------------
(* Economics.ProtocolAccount: the registry.                                *)

\* The sum upsertAccount and processDailyDeductions compute anew each time.
TotalBalance(accs) == SumFunction([p \in DOMAIN accs |-> accs[p].balance])

With(p, acc) ==
  [q \in DOMAIN accounts \cup {p} |-> IF q = p THEN acc ELSE accounts[q]]

\* Mutated form: the new balance is added to the old total.
UpsertAddsToTotal(p, acc) ==
  /\ accounts' = With(p, acc)
  /\ totalCycles' = totalCycles + acc.balance

upsertAccount(p, acc) ==
  /\ accounts' = With(p, acc)
  /\ totalCycles' = TotalBalance(accounts')

findAccount(p) == IF p \in DOMAIN accounts THEN accounts[p] ELSE createAccount

processDailyDeductions ==
  /\ accounts' = [p \in DOMAIN accounts |-> dailyDeduction(accounts[p])]
  /\ totalCycles' = TotalBalance(accounts')

---------------------------------------------------------------------------
(* Fees on the chain.                                                      *)

weiToCycles(wei) == (wei \div WeiPerUnit) * CyclesPerUnit

initialEvmFeeState ==
  [lastSyncedBalance |-> 0, totalDeposited |-> 0, totalCredited |-> 0,
   lastFeeSyncAt |-> 0]

\* Mutated form: the balance read is not kept for the next time.
SyncKeepsBalance(feeState, acc, balance) ==
  LET newDeposit == Monus(balance, feeState.lastSyncedBalance)
  IN  [ feeState |->
          [ feeState EXCEPT !.totalDeposited = @ + newDeposit,
                            !.totalCredited  = @ + weiToCycles(newDeposit),
                            !.lastFeeSyncAt  = now ],
        newCycles |-> weiToCycles(newDeposit),
        donation  |-> donate(acc, weiToCycles(newDeposit)) ]

(* The balance read becomes the last one synced also when it is lower; and *)
(* the account is donated to also when there is nothing new.               *)
syncEvmFeeBalance(feeState, acc, balance) ==
  LET newDeposit == Monus(balance, feeState.lastSyncedBalance)
  IN  [ feeState |->
          [ lastSyncedBalance |-> balance,
            totalDeposited    |-> feeState.totalDeposited + newDeposit,
            totalCredited     |-> feeState.totalCredited + weiToCycles(newDeposit),
            lastFeeSyncAt     |-> now ],
        newCycles |-> weiToCycles(newDeposit),
        donation  |-> donate(acc, weiToCycles(newDeposit)) ]

isFeeSyncDue(feeState) ==
  \/ feeState.lastFeeSyncAt = 0
  \/ Monus(now, feeState.lastFeeSyncAt) >= FeeSyncInterval

---------------------------------------------------------------------------
(* The history of a protocol: the cycles paid in, the charges reported, the *)
(* cycles lost with an account that was replaced or forgotten; the day its *)
(* account was last charged; and whether every answer to a read of its fee *)
(* balance showed at least what the one before it showed.                  *)
emptyLedger ==
  [paid |-> 0, reported |-> 0, lost |-> 0, chargedOn |-> 0, inOrder |-> TRUE]

PaidIn == SumFunction([p \in Protocols |-> ledger[p].paid])

Paid(p, cycles, reported) ==
  [ledger EXCEPT ![p].paid = @ + cycles, ![p].reported = @ + reported]

BalanceOf(p) == IF p \in DOMAIN accounts THEN accounts[p].balance ELSE 0

\* The account of each protocol in P is dropped, with what it holds.
Dropped(P) ==
  [ p \in Protocols |->
      IF p \in P
        THEN [ledger[p] EXCEPT !.lost = @ + BalanceOf(p), !.chargedOn = 0]
        ELSE ledger[p] ]

noFeeStates == [p \in Protocols |-> initialEvmFeeState]

Init ==
  /\ accounts = << >>
  /\ totalCycles = 0
  /\ lastProcessedDay = 0
  /\ feeStates = noFeeStates
  /\ evmBalance = [p \in Protocols |-> 0]
  /\ reads = << >>
  /\ now = SecondsPerDay
  /\ ledger = [p \in Protocols |-> emptyLedger]

(* The IORefs of the registry and the scheduler are initial again, both at  *)
(* once.  The repository keeps the fee registry nowhere: whoever calls with *)
(* it may have lost it too.                                                 *)
Reinitialize ==
  /\ accounts' = << >>
  /\ totalCycles' = 0
  /\ lastProcessedDay' = 0
  /\ feeStates' \in {feeStates, noFeeStates}
  /\ ledger' = Dropped(Protocols)
  /\ UNCHANGED <<evmBalance, reads, now>>

(* doRegisterProtocol: always of the same address, so that registering a   *)
(* second time replaces the account, whatever it holds.                    *)
RegisterProtocol ==
  /\ upsertAccount(Placeholder, createAccount)
  /\ ledger' = Dropped({Placeholder})
  /\ UNCHANGED <<lastProcessedDay, feeStates, evmBalance, reads, now>>

\* doDonateToProtocol
DonateToProtocol(p, amount) ==
  /\ p \in DOMAIN accounts
  /\ PaidIn + amount <= MaxPaid
  /\ LET result == donate(accounts[p], amount)
     IN  /\ upsertAccount(p, result.account)
         /\ ledger' = Paid(p, amount, result.catchUpCost)
  /\ UNCHANGED <<lastProcessedDay, feeStates, evmBalance, reads, now>>

\* Mutated form: the day processed is not kept.
DailyTickForgets(day) ==
  /\ processDailyDeductions
  /\ UNCHANGED lastProcessedDay

(* However many days have passed since the last one, one day is charged.   *)
processDailyTick(day) ==
  /\ processDailyDeductions
  /\ lastProcessedDay' = day

\* DeductionResult.amountDeducted, summed over the days.
Charged(day) ==
  [ p \in Protocols |->
      IF p \in DOMAIN accounts
        THEN [ledger[p] EXCEPT !.reported = @ + accounts[p].balance
                                              - dailyDeduction(accounts[p]).balance,
                               !.chargedOn = day]
        ELSE ledger[p] ]

(* doHeartbeat; on a day already processed it changes nothing that is kept. *)
Heartbeat ==
  LET day == now \div SecondsPerDay
  IN  /\ day > lastProcessedDay
      /\ processDailyTick(day)
      /\ ledger' = Charged(day)
      /\ UNCHANGED <<feeStates, evmBalance, reads, now>>

(* recordSyncsCompleted, of any protocols a caller says were synced: it     *)
(* checks neither that they were due nor how long ago they were named.      *)
SyncsCompleted(P) ==
  /\ accounts' = [ p \in DOMAIN accounts |->
                     IF p \in P THEN [accounts[p] EXCEPT !.lastSyncAt = now]
                                ELSE accounts[p] ]
  /\ totalCycles' = TotalBalance(accounts')
  /\ UNCHANGED <<lastProcessedDay, feeStates, evmBalance, reads, now, ledger>>

(* getProtocolsForFeeSync names, of the protocols its caller knows, one     *)
(* whose fee sync is due, and the caller has the balance read on the chain. *)
(* processExtendedHeartbeat knows those with an account; the account may be *)
(* gone when the answer comes, and processOneEvmFeeSync makes one.  Until   *)
(* an answer is recorded every heartbeat names the protocol again.          *)
ReadFee(p) ==
  /\ isFeeSyncDue(feeStates[p])
  /\ Len(reads) < MaxReads
  /\ reads' = Append(reads, [protocol |-> p, balance |-> evmBalance[p]])
  /\ UNCHANGED <<accounts, totalCycles, lastProcessedDay, feeStates, evmBalance, now, ledger>>

(* processOneEvmFeeSync, when the answer to any of the reads comes.        *)
processOneEvmFeeSync(k) ==
  /\ k \in DOMAIN reads
  /\ LET p       == reads[k].protocol
         balance == reads[k].balance
         result  == syncEvmFeeBalance(feeStates[p], findAccount(p), balance)
     IN  /\ PaidIn + result.newCycles <= MaxPaid
         /\ feeStates' = [feeStates EXCEPT ![p] = result.feeState]
         /\ upsertAccount(p, result.donation.account)
         /\ ledger' = [Paid(p, result.newCycles, result.donation.catchUpCost)
                        EXCEPT ![p].inOrder =
                          @ /\ balance >= feeStates[p].lastSyncedBalance]
  /\ reads' = RemoveAt(reads, k)
  /\ UNCHANGED <<lastProcessedDay, evmBalance, now>>

\* A read that failed or timed out is forgotten.
ReadFails(k) ==
  /\ k \in DOMAIN reads
  /\ reads' = RemoveAt(reads, k)
  /\ UNCHANGED <<accounts, totalCycles, lastProcessedDay, feeStates, evmBalance, now, ledger>>

\* Somebody pays fees to the contract of a protocol.
Deposit(p, wei) ==
  /\ SumFunction(evmBalance) + wei <= MaxWei
  /\ evmBalance' = [evmBalance EXCEPT ![p] = @ + wei]
  /\ UNCHANGED <<accounts, totalCycles, lastProcessedDay, feeStates, reads, now, ledger>>

Tick ==
  /\ now < MaxTime
  /\ now' = now + 1
  /\ UNCHANGED <<accounts, totalCycles, lastProcessedDay, feeStates, evmBalance, reads, ledger>>

Next ==
  \/ RegisterProtocol \/ Reinitialize
  \/ \E p \in Protocols : ReadFee(p)
  \/ \E p \in Protocols, amount \in Donations : DonateToProtocol(p, amount)
  \/ \E k \in DOMAIN reads : processOneEvmFeeSync(k) \/ ReadFails(k)
  \/ \E p \in Protocols, wei \in Deposits : Deposit(p, wei)
  \/ Heartbeat
  \/ \E P \in SUBSET DOMAIN accounts : SyncsCompleted(P)
  \/ Tick

Spec == Init /\ [][Next]_vars

---------------------------------------------------------------------------
(* What the accounts promise.                                              *)

Account == [balance: Nat, tier: Tier, lastSyncAt: Nat, expires: BOOLEAN]
EvmFeeState == [lastSyncedBalance: Nat, totalDeposited: Nat, totalCredited: Nat,
                lastFeeSyncAt: Nat]

\* Every part of the state is of its type: no balance, charge or total of a
\* protocol is ever below zero.
AccountsTypeOK ==
  /\ DOMAIN accounts \subseteq Protocols
  /\ accounts \in [DOMAIN accounts -> Account]
  /\ lastProcessedDay \in Nat
  /\ feeStates \in [Protocols -> EvmFeeState]
  /\ evmBalance \in [Protocols -> Nat]
  /\ reads \in Seq([protocol: Protocols, balance: Nat])
  /\ now \in Nat
  /\ ledger \in [Protocols -> [paid: Nat, reported: Nat, lost: Nat,
                               chargedOn: Nat, inOrder: BOOLEAN]]

BalancesExplained ==
  \A p \in Protocols :
    /\ BalanceOf(p) + ledger[p].lost <= ledger[p].paid
    /\ ledger[p].paid <= BalanceOf(p) + ledger[p].lost + ledger[p].reported

\* The registry's total is the sum of the balances; and all that was ever paid
\* in for a protocol is in its balance, was charged (the part of a charge beyond
\* the balance being waived), or was in an account when that was registered anew
\* or the registry re-initialized.  Donations, fee syncs, catch-ups and daily
\* charges make no cycle and lose none; registering again loses the balance.
CyclesAccounted ==
  /\ totalCycles = TotalBalance(accounts)
  /\ BalancesExplained

\* An account is served at least at the tier its balance affords for a month
\* and at most at the tier all it was paid, less what was lost with accounts
\* before it, would have afforded; it has an expiry exactly when it is above Archive.  Three operations write the tier,
\* each with a rule of its own.
TierFitsPayments ==
  \A p \in DOMAIN accounts :
    /\ calculateAffordableTier(accounts[p].balance) <= accounts[p].tier
    /\ accounts[p].tier <= calculateAffordableTier(ledger[p].paid - ledger[p].lost)
    /\ accounts[p].expires <=> accounts[p].tier > Archive

\* Every wei seen on the chain is credited, and by one fee registry only once
\* as long as the answers to the reads come in the order of the balances they
\* show, however many reads overlap and whatever becomes of the accounts; cycles are rounded down in each sync, never up.
DepositsCredited ==
  \A p \in Protocols :
    LET fee == feeStates[p]
    IN  /\ fee.lastSyncedBalance <= fee.totalDeposited
        /\ fee.lastSyncedBalance <= evmBalance[p]
        /\ ledger[p].inOrder => fee.totalDeposited = fee.lastSyncedBalance
        /\ fee.totalCredited <= weiToCycles(fee.totalDeposited)

\* The account a protocol has after a step is the one it had before.
Keeps(p) == /\ p \in DOMAIN accounts'
            /\ ~(p = Placeholder /\ RegisterProtocol)

\* An account above Archive loses cycles only in the first heartbeat of a
\* day, then no more than the daily cost of its tier, and never twice for one
\* day, whatever donations, fee syncs and further heartbeats the day brings.
\* The day processed may be forgotten; but the accounts are forgotten with it.
ChargedOnceADay ==
  [][\A p \in DOMAIN accounts :
       /\ accounts[p].tier > Archive
       /\ Keeps(p)
       /\ accounts'[p].balance < accounts[p].balance
       => /\ lastProcessedDay' > lastProcessedDay
          /\ lastProcessedDay' > ledger[p].chargedOn
          /\ accounts[p].balance - accounts'[p].balance
               <= tierDailyCost(accounts[p].tier)]_vars

\* docs/economics/ouc.md: a donation sets the tier "if newTier > currentTier",
\* and dailyTierCheck is what downgrades.  So only the daily check lowers the
\* tier of an account that is not replaced.
FallsOnlyAtDailyCheck ==
  [][\A p \in DOMAIN accounts :
       /\ Keeps(p)
       /\ accounts'[p].tier < accounts[p].tier
       => lastProcessedDay' > lastProcessedDay]_vars
=============================================================================
