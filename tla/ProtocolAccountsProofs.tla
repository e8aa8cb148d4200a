----------------------- MODULE ProtocolAccountsProofs -----------------------
(***************************************************************************)
(* Theorems about ProtocolAccounts, for any protocols, costs and bounds.   *)
(***************************************************************************)
EXTENDS ProtocolAccounts, CommonLemmas

---------------------------------------------------------------------------
(* The tiers and costs.                                                    *)

\* The affordable tier is the highest whose monthly cost the balance covers.
LEMMA AffordableIsHighest ==
  ASSUME NEW b \in Nat
  PROVE  /\ calculateAffordableTier(b) \in Tier
         /\ \A t \in Tier : b >= MonthlyCost[t] => t <= calculateAffordableTier(b)
         /\ \/ calculateAffordableTier(b) = Archive
            \/ b >= MonthlyCost[calculateAffordableTier(b)]
<1> DEFINE afforded == {Archive} \cup {t \in Tier : b >= MonthlyCost[t]}
           highest(t) == t \in afforded /\ \A u \in afforded : u <= t
<1>1. \E t \in afforded : \A u \in afforded : u <= t
  <2>1. CASE 3 \in afforded
    BY <2>1 DEF Tier, Archive
  <2>2. CASE 3 \notin afforded /\ 2 \in afforded
    BY <2>2 DEF Tier, Archive
  <2>3. CASE 3 \notin afforded /\ 2 \notin afforded /\ 1 \in afforded
    BY <2>3 DEF Tier, Archive
  <2>4. CASE 3 \notin afforded /\ 2 \notin afforded /\ 1 \notin afforded
    BY <2>4 DEF Tier, Archive
  <2>5. QED
    BY <2>1, <2>2, <2>3, <2>4
<1>2. /\ calculateAffordableTier(b) \in afforded
      /\ \A u \in afforded : u <= calculateAffordableTier(b)
  BY <1>1 DEF calculateAffordableTier
<1>3. QED
  BY <1>2 DEF Tier, Archive

\* A larger balance affords at least the tier of a smaller one.
LEMMA AffordableMonotone ==
  ASSUME NEW b \in Nat, NEW c \in Nat, b <= c
  PROVE  calculateAffordableTier(b) <= calculateAffordableTier(c)
<1>1. CASE calculateAffordableTier(b) = Archive
  BY <1>1, AffordableIsHighest DEF Tier, Archive
<1>2. CASE b >= MonthlyCost[calculateAffordableTier(b)]
  <2>1. /\ calculateAffordableTier(b) \in Tier
        /\ MonthlyCost[calculateAffordableTier(b)] \in Nat
    BY AffordableIsHighest, AccountsAssumption
  <2>2. c >= MonthlyCost[calculateAffordableTier(b)]
    BY <1>2, <2>1
  <2>3. QED
    BY <2>1, <2>2, AffordableIsHighest
<1>3. QED
  BY <1>1, <1>2, AffordableIsHighest

\* The quotient of naturals is a natural.
LEMMA QuotientIsNat ==
  ASSUME NEW m \in Nat, NEW n \in Nat \ {0}
  PROVE  m \div n \in Nat
  OBVIOUS

LEMMA MonusProperties ==
  ASSUME NEW m \in Nat, NEW n \in Nat
  PROVE  /\ Monus(m, n) \in Nat
         /\ Monus(m, n) <= m
         /\ m <= Monus(m, n) + n
         /\ n = 0 => Monus(m, n) = m
         /\ m <= n => Monus(m, n) = 0
  BY DEF Monus

LEMMA DailyCostIsNat ==
  ASSUME NEW t \in Tier
  PROVE  tierDailyCost(t) \in Nat
  BY QuotientIsNat, AccountsAssumption DEF tierDailyCost

LEMMA CatchUpCostIsNat ==
  ASSUME now \in Nat, NEW t \in Nat
  PROVE  calculateCatchUpCost(t) \in Nat
<1>1. Monus(now, t) \div NsPerSec \in Nat
  BY MonusProperties, QuotientIsNat, AccountsAssumption
<1>2. (Monus(now, t) \div NsPerSec) \div SecondsPerCall \in Nat
  BY <1>1, QuotientIsNat, AccountsAssumption
<1>3. QED
  BY <1>2, AccountsAssumption DEF calculateCatchUpCost

\* Rounded down apart, two amounts give no more than together.
LEMMA QuotientsAddUp ==
  ASSUME NEW a \in Nat, NEW b \in Nat, NEW n \in Nat \ {0}
  PROVE  (a \div n) + (b \div n) <= (a + b) \div n
<1>1. /\ a \div n \in Nat /\ b \div n \in Nat /\ (a + b) \div n \in Nat
  BY QuotientIsNat
<1>2. n * (a \div n) <= a /\ n * (b \div n) <= b
  OBVIOUS
<1>3. a + b < n * ((a + b) \div n) + n
  OBVIOUS
<1>4. n * ((a \div n) + (b \div n)) <= a + b
  BY <1>1, <1>2
<1>5. QED
  BY <1>1, <1>3, <1>4

LEMMA ConversionRoundsDown ==
  ASSUME NEW a \in Nat, NEW b \in Nat
  PROVE  /\ weiToCycles(a) \in Nat
         /\ weiToCycles(a) + weiToCycles(b) <= weiToCycles(a + b)
<1> DEFINE x == a \div WeiPerUnit
           y == b \div WeiPerUnit
           z == (a + b) \div WeiPerUnit
<1>1. /\ WeiPerUnit \in Nat \ {0} /\ CyclesPerUnit \in Nat
  BY AccountsAssumption
<1>2. x \in Nat /\ y \in Nat /\ z \in Nat /\ x + y <= z
  BY <1>1, QuotientIsNat, QuotientsAddUp
<1> HIDE DEF x, y, z
<1>3. x * CyclesPerUnit + y * CyclesPerUnit <= z * CyclesPerUnit
  BY <1>1, <1>2
<1>4. x * CyclesPerUnit \in Nat
  BY <1>1, <1>2
<1>5. QED
  BY <1>3, <1>4 DEF weiToCycles, x, y, z

---------------------------------------------------------------------------
(* What the operations do to one account.                                  *)

\* An account is served as its balance affords and expires as its tier says.
Fits(acc) == /\ calculateAffordableTier(acc.balance) <= acc.tier
             /\ acc.expires <=> acc.tier > Archive

\* A donation adds its amount, less at most the catch-up cost it reports, and
\* reports one only for an account in Archive; the tier is what is affordable.
LEMMA DonateProperties ==
  ASSUME now \in Nat, NEW acc \in Account, NEW amount \in Nat
  PROVE  LET result == donate(acc, amount)
         IN  /\ result.account \in Account
             /\ result.catchUpCost \in Nat
             /\ result.account.balance <= acc.balance + amount
             /\ acc.balance + amount <= result.account.balance + result.catchUpCost
             /\ result.account.tier = calculateAffordableTier(result.account.balance)
             /\ Fits(result.account)
             /\ acc.tier > Archive =>
                  result.account.balance = acc.balance + amount
<1> DEFINE newBalance  == acc.balance + amount
           upgraded    == calculateAffordableTier(newBalance) > acc.tier
           catchUpCost == IF upgraded /\ acc.tier = Archive
                            THEN calculateCatchUpCost(acc.lastSyncAt)
                            ELSE 0
           balance     == Monus(newBalance, catchUpCost)
           finalTier   == calculateAffordableTier(balance)
           expires     == finalTier > Archive
           account     == [acc EXCEPT !.balance = balance,
                                      !.tier    = finalTier,
                                      !.expires = expires]
<1>1. /\ acc.balance \in Nat /\ acc.tier \in Tier
      /\ acc.lastSyncAt \in Nat /\ acc.expires \in BOOLEAN
      /\ acc = [balance |-> acc.balance, tier |-> acc.tier,
                lastSyncAt |-> acc.lastSyncAt, expires |-> acc.expires]
  BY DEF Account
<1>2. newBalance \in Nat
  BY <1>1
<1>3. /\ catchUpCost \in Nat
      /\ acc.tier > Archive => catchUpCost = 0
  BY <1>1, CatchUpCostIsNat DEF Archive, Tier
<1> HIDE DEF catchUpCost, newBalance
<1>4. /\ balance \in Nat /\ balance <= newBalance
      /\ newBalance <= balance + catchUpCost
      /\ catchUpCost = 0 => balance = newBalance
  BY <1>2, <1>3, MonusProperties
<1>5. finalTier \in Tier
  BY <1>4, AffordableIsHighest
<1> HIDE DEF balance, finalTier
<1>6. expires \in BOOLEAN
  OBVIOUS
<1> HIDE DEF expires
<1>7. /\ account \in Account
      /\ account.balance = balance /\ account.tier = finalTier
      /\ account.expires = expires
  BY <1>1, <1>4, <1>5, <1>6 DEF Account
<1> HIDE DEF account
<1>8. finalTier <= finalTier
  BY <1>5 DEF Tier
<1>9. Fits(account)
  BY <1>7, <1>8 DEF Fits, finalTier, expires
<1>10. donate(acc, amount) = [account |-> account, catchUpCost |-> catchUpCost]
  BY DEF donate, account, expires, finalTier, balance, catchUpCost, newBalance
<1>11. QED
  BY <1>1, <1>3, <1>4, <1>7, <1>9, <1>10 DEF newBalance, finalTier

\* A daily charge takes at most the daily cost of the tier, never raises the
\* tier, and leaves a tier the rest of the balance still asks for.
LEMMA DeductionProperties ==
  ASSUME NEW acc \in Account, Fits(acc)
  PROVE  LET new == dailyDeduction(acc)
         IN  /\ new \in Account
             /\ Fits(new)
             /\ new.tier <= acc.tier
             /\ new.balance <= acc.balance
             /\ acc.balance - new.balance <= tierDailyCost(acc.tier)
<1>1. /\ acc.balance \in Nat /\ acc.tier \in Tier /\ acc.tier \in Int
      /\ acc.lastSyncAt \in Nat /\ acc.expires \in BOOLEAN
      /\ acc = [balance |-> acc.balance, tier |-> acc.tier,
                lastSyncAt |-> acc.lastSyncAt, expires |-> acc.expires]
  BY DEF Account, Tier, Archive
<1>2. tierDailyCost(acc.tier) \in Nat
  BY <1>1, DailyCostIsNat
<1>3. CASE acc.balance >= tierDailyCost(acc.tier)
  <2> DEFINE balance == acc.balance - tierDailyCost(acc.tier)
  <2>1. balance \in Nat /\ balance <= acc.balance
    BY <1>1, <1>2, <1>3
  <2>2. dailyDeduction(acc) = [balance |-> balance, tier |-> acc.tier,
                               lastSyncAt |-> acc.lastSyncAt, expires |-> acc.expires]
    BY <1>1, <1>3 DEF dailyDeduction
  <2>3. acc.balance - balance <= tierDailyCost(acc.tier)
    BY <1>1, <1>2
  <2>4. calculateAffordableTier(balance) <= calculateAffordableTier(acc.balance)
    BY <1>1, <2>1, AffordableMonotone
  <2>5. calculateAffordableTier(balance) \in Int /\ calculateAffordableTier(acc.balance) \in Int
    BY <1>1, <2>1, AffordableIsHighest DEF Tier, Archive
  <2> HIDE DEF balance
  <2>6. calculateAffordableTier(balance) <= acc.tier
    BY <1>1, <2>4, <2>5 DEF Fits
  <2>7. dailyDeduction(acc) \in Account
    BY <1>1, <2>1, <2>2 DEF Account
  <2>8. Fits(dailyDeduction(acc))
    BY <1>1, <2>2, <2>6 DEF Fits
  <2>9. QED
    BY <1>1, <2>1, <2>2, <2>3, <2>7, <2>8
<1>4. CASE ~(acc.balance >= tierDailyCost(acc.tier))
  <2> DEFINE tier    == calculateAffordableTier(acc.balance)
             balance == Monus(acc.balance, tierDailyCost(tier))
             expires == acc.expires /\ tier # Archive
  <2>1. /\ tier \in Tier /\ tier <= acc.tier
        /\ tier \in Int /\ (tier # Archive <=> tier > Archive)
    BY <1>1, AffordableIsHighest DEF Fits, Tier, Archive
  <2>2. balance \in Nat /\ balance <= acc.balance
    BY <1>1, <2>1, DailyCostIsNat, MonusProperties
  <2>3. calculateAffordableTier(balance) <= tier
    BY <1>1, <2>2, AffordableMonotone
  <2>4. dailyDeduction(acc) = [balance |-> balance, tier |-> tier,
                               lastSyncAt |-> acc.lastSyncAt, expires |-> expires]
    BY <1>1, <1>4 DEF dailyDeduction
  <2> HIDE DEF tier, balance
  <2>5. expires <=> tier > Archive
    BY <1>1, <2>1 DEF Fits, Archive
  <2>6. acc.balance - balance <= tierDailyCost(acc.tier)
    BY <1>1, <1>2, <1>4, <2>2
  <2>7. expires \in BOOLEAN
    OBVIOUS
  <2> HIDE DEF expires
  <2>8. dailyDeduction(acc) \in Account
    BY <1>1, <2>1, <2>2, <2>4, <2>7 DEF Account
  <2>9. Fits(dailyDeduction(acc))
    BY <2>3, <2>4, <2>5 DEF Fits
  <2>10. QED
    BY <2>1, <2>2, <2>4, <2>6, <2>8, <2>9
<1>5. QED
  BY <1>3, <1>4

---------------------------------------------------------------------------
(* The inductive invariant.  What the registry holds depends only on what  *)
(* was paid and charged; what was credited from the chain, on the reads.   *)

LedgerEntry == [paid: Nat, reported: Nat, lost: Nat, chargedOn: Nat, inOrder: BOOLEAN]
Read == [protocol: Protocols, balance: Nat]

\* A balance is what was paid and not lost, less at most what was reported.
Explained(balance, e) == /\ balance + e.lost <= e.paid
                         /\ e.paid <= balance + e.lost + e.reported

\* An account is served at no more than its payments would have afforded.
Served(acc, e) == /\ Fits(acc)
                  /\ acc.tier <= calculateAffordableTier(e.paid - e.lost)

AccountsPart ==
  /\ DOMAIN accounts \subseteq Protocols
  /\ accounts \in [DOMAIN accounts -> Account]
  /\ ledger \in [Protocols -> LedgerEntry]
  /\ \A p \in Protocols : Explained(BalanceOf(p), ledger[p])
  /\ \A p \in DOMAIN accounts : Served(accounts[p], ledger[p])

\* Nothing was charged for a day after the last one processed.
ChargesKnown == \A p \in Protocols : ledger[p].chargedOn <= lastProcessedDay

\* A read shows no more than the balance of its protocol now.
ReadsSeen ==
  \A k \in DOMAIN reads : reads[k].balance <= evmBalance[reads[k].protocol]

FeesPart ==
  /\ feeStates \in [Protocols -> EvmFeeState]
  /\ evmBalance \in [Protocols -> Nat]
  /\ reads \in Seq(Read)
  /\ DepositsCredited
  /\ ReadsSeen

AccountsInv ==
  /\ lastProcessedDay \in Nat
  /\ now \in Nat
  /\ AccountsPart
  /\ ChargesKnown
  /\ FeesPart

LEMMA InitInv == Init => AccountsInv
<1> SUFFICES ASSUME Init
             PROVE  AccountsInv
  OBVIOUS
<1> USE DEF Init
<1>1. DOMAIN accounts = {} /\ DOMAIN reads = {}
  OBVIOUS
<1>2. SecondsPerDay \in Nat
  BY AccountsAssumption
<1>3. emptyLedger \in LedgerEntry /\ initialEvmFeeState \in EvmFeeState
  BY DEF emptyLedger, LedgerEntry, initialEvmFeeState, EvmFeeState
<1>4. AccountsPart
  <2>1. ledger \in [Protocols -> LedgerEntry]
    BY <1>3
  <2>2. accounts \in [DOMAIN accounts -> Account]
    BY <1>1
  <2>3. \A p \in Protocols : Explained(BalanceOf(p), ledger[p])
    BY <1>1 DEF Explained, BalanceOf, emptyLedger
  <2>4. QED
    BY <1>1, <2>1, <2>2, <2>3 DEF AccountsPart
<1>5. ChargesKnown
  BY DEF ChargesKnown, emptyLedger
<1>6. FeesPart
  <2>1. feeStates \in [Protocols -> EvmFeeState]
    BY <1>3 DEF noFeeStates
  <2>2. DepositsCredited
    <3>1. weiToCycles(0) \in Nat
      BY ConversionRoundsDown
    <3>2. QED
      BY <3>1 DEF DepositsCredited, noFeeStates, initialEvmFeeState
  <2>3. ReadsSeen
    BY <1>1 DEF ReadsSeen
  <2>4. QED
    BY <2>1, <2>2, <2>3 DEF FeesPart
<1>7. QED
  BY <1>2, <1>4, <1>5, <1>6 DEF AccountsInv

\* With replaces or adds one account.
LEMMA WithProperties ==
  ASSUME AccountsPart, NEW p \in Protocols, NEW acc \in Account,
         accounts' = With(p, acc)
  PROVE  /\ DOMAIN accounts' = DOMAIN accounts \cup {p}
         /\ DOMAIN accounts' \subseteq Protocols
         /\ accounts' \in [DOMAIN accounts' -> Account]
         /\ accounts'[p] = acc
         /\ \A q \in DOMAIN accounts : q # p => accounts'[q] = accounts[q]
  BY DEF AccountsPart, With

\* A new account is empty, in Archive, and affords nothing more.
LEMMA CreateProperties ==
  ASSUME now \in Nat
  PROVE  /\ createAccount \in Account
         /\ createAccount.balance = 0
         /\ Fits(createAccount)
         /\ \A b \in Nat : createAccount.tier <= calculateAffordableTier(b)
<1>1. /\ createAccount \in Account
      /\ createAccount.balance = 0 /\ createAccount.tier = Archive
      /\ createAccount.expires = FALSE
  BY DEF createAccount, Account, Tier, Archive
<1>2. calculateAffordableTier(0) = Archive
  <2>1. \A t \in Tier \ {Archive} : ~(0 >= MonthlyCost[t])
    BY AccountsAssumption DEF Tier, Archive
  <2>2. QED
    BY <2>1, AffordableIsHighest
<1>3. \A b \in Nat : Archive <= calculateAffordableTier(b)
  BY AffordableIsHighest DEF Tier, Archive
<1>4. QED
  BY <1>1, <1>2, <1>3 DEF Fits, Archive

\* The account found for a protocol, or the one made for it, holds its balance.
LEMMA FindProperties ==
  ASSUME AccountsPart, now \in Nat, NEW p \in Protocols
  PROVE  /\ findAccount(p) \in Account
         /\ findAccount(p).balance = BalanceOf(p)
<1>1. CASE p \in DOMAIN accounts
  BY <1>1 DEF AccountsPart, findAccount, BalanceOf
<1>2. CASE p \notin DOMAIN accounts
  BY <1>2, CreateProperties DEF findAccount, BalanceOf
<1>3. QED
  BY <1>1, <1>2

\* A donation of any origin leaves every account explained and well served.
LEMMA CreditPreserves ==
  ASSUME AccountsPart, now \in Nat,
         NEW p \in Protocols, NEW amount \in Nat,
         accounts' = With(p, donate(findAccount(p), amount).account),
         ledger' \in [Protocols -> LedgerEntry],
         ledger'[p].paid = ledger[p].paid + amount,
         ledger'[p].reported = ledger[p].reported
                                 + donate(findAccount(p), amount).catchUpCost,
         ledger'[p].lost = ledger[p].lost,
         \A q \in Protocols : q # p => ledger'[q] = ledger[q]
  PROVE  AccountsPart'
<1> DEFINE result == donate(findAccount(p), amount)
<1>1. findAccount(p) \in Account /\ findAccount(p).balance = BalanceOf(p)
  BY FindProperties
<1>2. /\ result.account \in Account
      /\ result.catchUpCost \in Nat
      /\ result.account.balance <= findAccount(p).balance + amount
      /\ findAccount(p).balance + amount <= result.account.balance + result.catchUpCost
      /\ result.account.tier = calculateAffordableTier(result.account.balance)
      /\ Fits(result.account)
  BY <1>1, DonateProperties
<1> HIDE DEF result
<1>3. accounts' = With(p, result.account)
  BY DEF result
<1>4. /\ DOMAIN accounts' = DOMAIN accounts \cup {p}
      /\ DOMAIN accounts' \subseteq Protocols
      /\ accounts' \in [DOMAIN accounts' -> Account]
      /\ accounts'[p] = result.account
      /\ \A q \in DOMAIN accounts : q # p => accounts'[q] = accounts[q]
  BY <1>2, <1>3, WithProperties
<1> DEFINE b == BalanceOf(p)
           c == result.account.balance
           e == ledger[p]
           f == ledger'[p]
<1>5. /\ e \in LedgerEntry /\ f \in LedgerEntry
      /\ Explained(b, e)
      /\ f.paid = e.paid + amount
      /\ f.reported = e.reported + result.catchUpCost
      /\ f.lost = e.lost
      /\ b \in Nat /\ c \in Nat
      /\ c <= b + amount /\ b + amount <= c + result.catchUpCost
  BY <1>1, <1>2 DEF AccountsPart, Account, result
<1>6. Explained(c, f) /\ f.paid - f.lost \in Nat /\ c <= f.paid - f.lost
  <2> HIDE DEF b, c, e, f
  <2>1. /\ e.paid \in Nat /\ e.lost \in Nat /\ e.reported \in Nat
    BY <1>5 DEF LedgerEntry
  <2>2. QED
    BY <1>2, <1>5, <2>1 DEF Explained
<1>7. \A q \in Protocols : Explained(BalanceOf(q)', ledger'[q])
  <2> SUFFICES ASSUME NEW q \in Protocols
               PROVE  Explained(BalanceOf(q)', ledger'[q])
    OBVIOUS
  <2>1. CASE q = p
    BY <2>1, <1>4, <1>6 DEF BalanceOf
  <2>2. CASE q # p
    <3>1. BalanceOf(q)' = BalanceOf(q) /\ ledger'[q] = ledger[q]
      BY <2>2, <1>4 DEF BalanceOf
    <3>2. QED
      BY <3>1 DEF AccountsPart
  <2>3. QED
    BY <2>1, <2>2
<1>8. \A q \in DOMAIN accounts' : Served(accounts'[q], ledger'[q])
  <2> SUFFICES ASSUME NEW q \in DOMAIN accounts'
               PROVE  Served(accounts'[q], ledger'[q])
    OBVIOUS
  <2>1. CASE q = p
    <3>1. calculateAffordableTier(c) <= calculateAffordableTier(f.paid - f.lost)
      BY <1>5, <1>6, AffordableMonotone
    <3>2. QED
      BY <2>1, <3>1, <1>2, <1>4 DEF Served
  <2>2. CASE q # p
    <3>1. q \in DOMAIN accounts /\ accounts'[q] = accounts[q] /\ ledger'[q] = ledger[q]
      BY <2>2, <1>4
    <3>2. QED
      BY <3>1 DEF AccountsPart
  <2>3. QED
    BY <2>1, <2>2
<1>9. QED
  BY <1>4, <1>7, <1>8 DEF AccountsPart, Explained, Served, Fits, calculateAffordableTier

---------------------------------------------------------------------------
(* Each action preserves the invariant.                                    *)

\* What is known of the chain stands as long as no read is recorded, also when
\* the fee registry begins anew.
LEMMA FeesUndisturbed ==
  ASSUME AccountsInv, feeStates' \in {feeStates, noFeeStates},
         UNCHANGED <<evmBalance, reads>>,
         \A p \in Protocols : ledger'[p].inOrder = ledger[p].inOrder
  PROVE  FeesPart'
<1>1. ReadsSeen'
  BY DEF AccountsInv, FeesPart, ReadsSeen
<1>2. CASE feeStates' = feeStates
  <2>1. DepositsCredited'
    BY <1>2 DEF AccountsInv, FeesPart, DepositsCredited, weiToCycles
  <2>2. QED
    BY <1>1, <1>2, <2>1 DEF AccountsInv, FeesPart
<1>3. CASE feeStates' = noFeeStates
  <2>1. feeStates' \in [Protocols -> EvmFeeState]
    BY <1>3 DEF noFeeStates, initialEvmFeeState, EvmFeeState
  <2>2. weiToCycles(0) \in Nat
    BY ConversionRoundsDown
  <2>3. DepositsCredited'
    BY <1>3, <2>2 DEF AccountsInv, FeesPart, DepositsCredited, noFeeStates,
                      initialEvmFeeState, weiToCycles
  <2>4. QED
    BY <1>1, <2>1, <2>3 DEF AccountsInv, FeesPart
<1>4. QED
  BY <1>2, <1>3

\* What Dropped writes into the history.
LEMMA DroppedProperties ==
  ASSUME AccountsInv, NEW P \in SUBSET Protocols, ledger' = Dropped(P)
  PROVE  /\ ledger' \in [Protocols -> LedgerEntry]
         /\ \A p \in P : /\ Explained(0, ledger'[p])
                         /\ ledger'[p].paid - ledger'[p].lost \in Nat
         /\ \A p \in Protocols \ P : ledger'[p] = ledger[p]
         /\ \A p \in Protocols : /\ ledger'[p].inOrder = ledger[p].inOrder
                                 /\ \/ ledger'[p].chargedOn = 0
                                    \/ ledger'[p].chargedOn = ledger[p].chargedOn
         /\ \A p \in P : ledger'[p].chargedOn = 0
<1>1. ASSUME NEW p \in P
      PROVE  /\ ledger'[p] \in LedgerEntry
             /\ Explained(0, ledger'[p])
             /\ ledger'[p].paid - ledger'[p].lost \in Nat
             /\ ledger'[p].inOrder = ledger[p].inOrder
             /\ ledger'[p].chargedOn = 0
  <2> DEFINE e == ledger[p]
             b == BalanceOf(p)
             f == [paid |-> e.paid, reported |-> e.reported, lost |-> e.lost + b,
                   chargedOn |-> 0, inOrder |-> e.inOrder]
  <2>1. /\ e \in LedgerEntry /\ Explained(b, e)
        /\ e = [paid |-> e.paid, reported |-> e.reported, lost |-> e.lost,
                chargedOn |-> e.chargedOn, inOrder |-> e.inOrder]
    BY DEF AccountsInv, AccountsPart, LedgerEntry
  <2>2. b \in Nat
    BY DEF AccountsInv, AccountsPart, BalanceOf, Account
  <2>3. ledger'[p] = [e EXCEPT !.lost = @ + b, !.chargedOn = 0]
    BY DEF Dropped
  <2> HIDE DEF e, b
  <2>4. ledger'[p] = f
    BY <2>1, <2>3
  <2>5. /\ e.paid \in Nat /\ e.reported \in Nat /\ e.lost \in Nat /\ e.inOrder \in BOOLEAN
    BY <2>1 DEF LedgerEntry
  <2>6. e.lost + b \in Nat
    BY <2>2, <2>5
  <2>7. f \in LedgerEntry
    BY <2>5, <2>6 DEF LedgerEntry
  <2>8. Explained(0, f) /\ f.paid - f.lost \in Nat
    BY <2>1, <2>2, <2>5 DEF Explained
  <2>9. QED
    BY <2>4, <2>7, <2>8 DEF e
<1>2. \A p \in Protocols \ P : ledger'[p] = ledger[p]
  BY DEF Dropped
<1>3. ledger' \in [Protocols -> LedgerEntry]
  <2>1. ledger' = [p \in Protocols |-> ledger'[p]]
    BY DEF Dropped
  <2>2. \A p \in Protocols : ledger'[p] \in LedgerEntry
    BY <1>1, <1>2 DEF AccountsInv, AccountsPart
  <2>3. QED
    BY <2>1, <2>2
<1>4. QED
  BY <1>1, <1>2, <1>3

LEMMA RegisterPreserves ==
  ASSUME AccountsInv, RegisterProtocol
  PROVE  AccountsInv'
<1>1. /\ accounts' = With(Placeholder, createAccount)
      /\ ledger' = Dropped({Placeholder})
      /\ UNCHANGED <<lastProcessedDay, feeStates, evmBalance, reads, now>>
      /\ Placeholder \in Protocols /\ {Placeholder} \in SUBSET Protocols
      /\ now \in Nat /\ AccountsPart
  BY AccountsAssumption DEF RegisterProtocol, upsertAccount, AccountsInv
<1>2. /\ createAccount \in Account
      /\ createAccount.balance = 0
      /\ Fits(createAccount)
      /\ \A b \in Nat : createAccount.tier <= calculateAffordableTier(b)
  BY <1>1, CreateProperties
<1>3. /\ DOMAIN accounts' = DOMAIN accounts \cup {Placeholder}
      /\ DOMAIN accounts' \subseteq Protocols
      /\ accounts' \in [DOMAIN accounts' -> Account]
      /\ accounts'[Placeholder] = createAccount
      /\ \A q \in DOMAIN accounts : q # Placeholder => accounts'[q] = accounts[q]
  BY <1>1, <1>2, WithProperties
<1>4. /\ ledger' \in [Protocols -> LedgerEntry]
      /\ Explained(0, ledger'[Placeholder])
      /\ ledger'[Placeholder].paid - ledger'[Placeholder].lost \in Nat
      /\ \A q \in Protocols : q # Placeholder => ledger'[q] = ledger[q]
      /\ \A q \in Protocols : /\ ledger'[q].inOrder = ledger[q].inOrder
                              /\ \/ ledger'[q].chargedOn = 0
                                 \/ ledger'[q].chargedOn = ledger[q].chargedOn
  BY <1>1, DroppedProperties
<1>5. \A q \in Protocols : Explained(BalanceOf(q)', ledger'[q])
  <2> SUFFICES ASSUME NEW q \in Protocols
               PROVE  Explained(BalanceOf(q)', ledger'[q])
    OBVIOUS
  <2>1. CASE q = Placeholder
    BY <2>1, <1>2, <1>3, <1>4 DEF BalanceOf
  <2>2. CASE q # Placeholder
    <3>1. BalanceOf(q)' = BalanceOf(q) /\ ledger'[q] = ledger[q]
      BY <2>2, <1>3, <1>4 DEF BalanceOf
    <3>2. QED
      BY <3>1 DEF AccountsInv, AccountsPart
  <2>3. QED
    BY <2>1, <2>2
<1>6. \A q \in DOMAIN accounts' : Served(accounts'[q], ledger'[q])
  <2> SUFFICES ASSUME NEW q \in DOMAIN accounts'
               PROVE  Served(accounts'[q], ledger'[q])
    OBVIOUS
  <2>1. CASE q = Placeholder
    BY <2>1, <1>2, <1>3, <1>4 DEF Served
  <2>2. CASE q # Placeholder
    <3>1. q \in DOMAIN accounts /\ accounts'[q] = accounts[q] /\ ledger'[q] = ledger[q]
      BY <2>2, <1>3, <1>4
    <3>2. QED
      BY <3>1 DEF AccountsInv, AccountsPart
  <2>3. QED
    BY <2>1, <2>2
<1>7. AccountsPart'
  BY <1>3, <1>4, <1>5, <1>6 DEF AccountsPart, Explained, Served, Fits, calculateAffordableTier
<1>8. ChargesKnown'
  <2> SUFFICES ASSUME NEW q \in Protocols
               PROVE  ledger'[q].chargedOn <= lastProcessedDay'
    BY DEF ChargesKnown
  <2>1. /\ lastProcessedDay \in Nat /\ lastProcessedDay' = lastProcessedDay
        /\ ledger[q].chargedOn <= lastProcessedDay
    BY <1>1 DEF AccountsInv, ChargesKnown
  <2>2. CASE ledger'[q].chargedOn = 0
    BY <2>1, <2>2
  <2>3. CASE ledger'[q].chargedOn = ledger[q].chargedOn
    BY <2>1, <2>3
  <2>4. QED
    BY <1>4, <2>2, <2>3
<1>9. FeesPart'
  BY <1>1, <1>4, FeesUndisturbed
<1>10. QED
  BY <1>1, <1>7, <1>8, <1>9 DEF AccountsInv

LEMMA ReinitializePreserves ==
  ASSUME AccountsInv, Reinitialize
  PROVE  AccountsInv'
<1>1. /\ DOMAIN accounts' = {} /\ lastProcessedDay' = 0
      /\ feeStates' \in {feeStates, noFeeStates}
      /\ ledger' = Dropped(Protocols) /\ Protocols \in SUBSET Protocols
      /\ UNCHANGED <<evmBalance, reads, now>>
  BY DEF Reinitialize
<1>2. /\ ledger' \in [Protocols -> LedgerEntry]
      /\ \A p \in Protocols : /\ Explained(0, ledger'[p])
                              /\ ledger'[p].inOrder = ledger[p].inOrder
                              /\ ledger'[p].chargedOn = 0
  BY <1>1, DroppedProperties
<1>3. AccountsPart'
  <2>1. accounts' \in [DOMAIN accounts' -> Account]
    BY <1>1 DEF Reinitialize
  <2>2. \A p \in Protocols : Explained(BalanceOf(p)', ledger'[p])
    BY <1>1, <1>2 DEF BalanceOf
  <2>3. QED
    BY <1>1, <1>2, <2>1, <2>2 DEF AccountsPart, Explained
<1>4. ChargesKnown'
  BY <1>1, <1>2 DEF ChargesKnown
<1>5. FeesPart'
  BY <1>1, <1>2, FeesUndisturbed
<1>6. QED
  BY <1>1, <1>3, <1>4, <1>5 DEF AccountsInv

\* What Paid writes into the history.
LEMMA PaidProperties ==
  ASSUME AccountsPart, NEW p \in Protocols, NEW cycles \in Nat, NEW reported \in Nat
  PROVE  /\ Paid(p, cycles, reported) \in [Protocols -> LedgerEntry]
         /\ Paid(p, cycles, reported)[p].paid = ledger[p].paid + cycles
         /\ Paid(p, cycles, reported)[p].reported = ledger[p].reported + reported
         /\ Paid(p, cycles, reported)[p].lost = ledger[p].lost
         /\ \A q \in Protocols :
              /\ Paid(p, cycles, reported)[q].inOrder = ledger[q].inOrder
              /\ Paid(p, cycles, reported)[q].chargedOn = ledger[q].chargedOn
         /\ \A q \in Protocols : q # p => Paid(p, cycles, reported)[q] = ledger[q]
<1> DEFINE first == [ledger EXCEPT ![p].paid = @ + cycles]
<1>1. /\ first \in [Protocols -> LedgerEntry]
      /\ first[p].paid = ledger[p].paid + cycles
      /\ first[p].reported = ledger[p].reported
      /\ first[p].lost = ledger[p].lost
      /\ \A q \in Protocols : /\ first[q].inOrder = ledger[q].inOrder
                              /\ first[q].chargedOn = ledger[q].chargedOn
      /\ \A q \in Protocols : q # p => first[q] = ledger[q]
  BY DEF AccountsPart, LedgerEntry
<1>2. Paid(p, cycles, reported) = [first EXCEPT ![p].reported = @ + reported]
  BY DEF Paid
<1> HIDE DEF first
<1>3. QED
  BY <1>1, <1>2 DEF LedgerEntry

LEMMA DonationPreserves ==
  ASSUME AccountsInv, NEW p \in Protocols, NEW amount \in Donations,
         DonateToProtocol(p, amount)
  PROVE  AccountsInv'
<1> DEFINE result == donate(findAccount(p), amount)
<1>1. /\ findAccount(p) = accounts[p]
      /\ accounts' = With(p, result.account)
      /\ ledger' = Paid(p, amount, result.catchUpCost)
      /\ UNCHANGED <<lastProcessedDay, feeStates, evmBalance, reads, now>>
  BY DEF DonateToProtocol, upsertAccount, findAccount
<1>2. amount \in Nat
  BY AccountsAssumption
<1>3. result.account \in Account /\ result.catchUpCost \in Nat
  BY <1>2, FindProperties, DonateProperties DEF AccountsInv
<1> HIDE DEF result
<1>4. /\ ledger' \in [Protocols -> LedgerEntry]
      /\ ledger'[p].paid = ledger[p].paid + amount
      /\ ledger'[p].reported = ledger[p].reported + result.catchUpCost
      /\ ledger'[p].lost = ledger[p].lost
      /\ \A q \in Protocols : /\ ledger'[q].inOrder = ledger[q].inOrder
                              /\ ledger'[q].chargedOn = ledger[q].chargedOn
      /\ \A q \in Protocols : q # p => ledger'[q] = ledger[q]
  BY <1>1, <1>2, <1>3, PaidProperties DEF AccountsInv
<1>5. AccountsPart'
  BY <1>1, <1>2, <1>4, CreditPreserves DEF AccountsInv, result
<1>6. ChargesKnown'
  BY <1>1, <1>4 DEF AccountsInv, ChargesKnown
<1>7. FeesPart'
  BY <1>1, <1>4, FeesUndisturbed
<1>8. QED
  BY <1>1, <1>5, <1>6, <1>7 DEF AccountsInv

LEMMA HeartbeatPreserves ==
  ASSUME AccountsInv, Heartbeat
  PROVE  /\ AccountsInv'
         /\ lastProcessedDay' > lastProcessedDay
         /\ \A p \in DOMAIN accounts :
              accounts[p].balance - accounts'[p].balance
                <= tierDailyCost(accounts[p].tier)
<1> DEFINE day == now \div SecondsPerDay
<1>1. /\ accounts' = [p \in DOMAIN accounts |-> dailyDeduction(accounts[p])]
      /\ lastProcessedDay' = day
      /\ lastProcessedDay' > lastProcessedDay
      /\ ledger' = Charged(day)
      /\ UNCHANGED <<feeStates, evmBalance, reads, now>>
  BY DEF Heartbeat, processDailyTick, processDailyDeductions
<1>2. day \in Nat
  BY QuotientIsNat, AccountsAssumption DEF AccountsInv
<1> HIDE DEF day
<1>3. ASSUME NEW p \in DOMAIN accounts
      PROVE  /\ p \in Protocols
             /\ accounts[p] \in Account /\ Served(accounts[p], ledger[p])
             /\ accounts'[p] = dailyDeduction(accounts[p])
             /\ accounts'[p] \in Account /\ Fits(accounts'[p])
             /\ accounts'[p].tier <= accounts[p].tier
             /\ accounts'[p].balance <= accounts[p].balance
             /\ accounts[p].balance - accounts'[p].balance
                  <= tierDailyCost(accounts[p].tier)
  <2>1. p \in Protocols /\ accounts[p] \in Account /\ Served(accounts[p], ledger[p])
    BY DEF AccountsInv, AccountsPart
  <2>2. accounts'[p] = dailyDeduction(accounts[p])
    BY <1>1
  <2>3. QED
    BY <2>1, <2>2, DeductionProperties DEF Served
<1>4. /\ DOMAIN accounts' = DOMAIN accounts
      /\ DOMAIN accounts' \subseteq Protocols
      /\ accounts' \in [DOMAIN accounts' -> Account]
  BY <1>1, <1>3
<1>5. ASSUME NEW p \in DOMAIN accounts
      PROVE  /\ ledger'[p] \in LedgerEntry
             /\ ledger'[p].paid = ledger[p].paid
             /\ ledger'[p].lost = ledger[p].lost
             /\ ledger'[p].chargedOn = day
             /\ ledger'[p].inOrder = ledger[p].inOrder
             /\ ledger'[p].reported = ledger[p].reported + accounts[p].balance
                                                         - accounts'[p].balance
  <2> DEFINE e == ledger[p]
             reported == e.reported + accounts[p].balance - accounts'[p].balance
  <2>1. /\ e \in LedgerEntry
        /\ e = [paid |-> e.paid, reported |-> e.reported, lost |-> e.lost,
                chargedOn |-> e.chargedOn, inOrder |-> e.inOrder]
    BY <1>3 DEF AccountsInv, AccountsPart, LedgerEntry
  <2>2. reported \in Nat
    <3>1. /\ accounts[p].balance \in Nat /\ accounts'[p].balance \in Nat
          /\ accounts'[p].balance <= accounts[p].balance
      BY <1>3 DEF Account
    <3>2. e.reported \in Nat
      BY <2>1 DEF LedgerEntry
    <3>3. QED
      BY <3>1, <3>2
  <2>3. ledger'[p] = [e EXCEPT !.reported = reported, !.chargedOn = day]
    BY <1>1, <1>3 DEF Charged
  <2> HIDE DEF reported, e
  <2>4. ledger'[p] = [paid |-> e.paid, reported |-> reported, lost |-> e.lost,
                      chargedOn |-> day, inOrder |-> e.inOrder]
    BY <2>1, <2>3
  <2>5. QED
    BY <1>2, <2>1, <2>2, <2>4 DEF LedgerEntry, reported, e
<1>6. \A p \in Protocols : p \notin DOMAIN accounts => ledger'[p] = ledger[p]
  BY <1>1 DEF Charged
<1>7. ledger' \in [Protocols -> LedgerEntry]
  <2>1. ledger' = [p \in Protocols |-> ledger'[p]]
    BY <1>1 DEF Charged
  <2>2. \A p \in Protocols : ledger'[p] \in LedgerEntry
    BY <1>5, <1>6 DEF AccountsInv, AccountsPart
  <2>3. QED
    BY <2>1, <2>2
<1>8. \A p \in Protocols : ledger'[p].inOrder = ledger[p].inOrder
  BY <1>5, <1>6
<1>9. \A p \in Protocols : Explained(BalanceOf(p)', ledger'[p])
  <2> SUFFICES ASSUME NEW p \in Protocols
               PROVE  Explained(BalanceOf(p)', ledger'[p])
    OBVIOUS
  <2>1. CASE p \in DOMAIN accounts
    <3>1. /\ BalanceOf(p) = accounts[p].balance
          /\ BalanceOf(p)' = accounts'[p].balance
      BY <2>1, <1>4 DEF BalanceOf
    <3>2. /\ accounts[p].balance \in Nat /\ accounts'[p].balance \in Nat
          /\ accounts'[p].balance <= accounts[p].balance
          /\ ledger[p].paid \in Nat /\ ledger[p].reported \in Nat /\ ledger[p].lost \in Nat
          /\ Explained(accounts[p].balance, ledger[p])
      BY <2>1, <3>1, <1>3 DEF AccountsInv, AccountsPart, LedgerEntry, Account
    <3>3. QED
      BY <2>1, <3>1, <3>2, <1>5 DEF Explained
  <2>2. CASE p \notin DOMAIN accounts
    <3>1. BalanceOf(p)' = BalanceOf(p) /\ ledger'[p] = ledger[p]
      BY <2>2, <1>4, <1>6 DEF BalanceOf
    <3>2. QED
      BY <3>1 DEF AccountsInv, AccountsPart
  <2>3. QED
    BY <2>1, <2>2
<1>10. \A p \in DOMAIN accounts' : Served(accounts'[p], ledger'[p])
  <2> SUFFICES ASSUME NEW p \in DOMAIN accounts
               PROVE  Served(accounts'[p], ledger'[p])
    BY <1>4
  <2> DEFINE most == calculateAffordableTier(ledger[p].paid - ledger[p].lost)
  <2>1. accounts[p].tier <= most /\ most = calculateAffordableTier(ledger'[p].paid - ledger'[p].lost)
    BY <1>3, <1>5 DEF Served
  <2>2. accounts[p].tier \in Int /\ accounts'[p].tier \in Int
    BY <1>3 DEF Account, Tier, Archive
  <2>3. most \in Int
    <3>1. ledger[p].paid - ledger[p].lost \in Nat
      <4>1. /\ BalanceOf(p) \in Nat
            /\ Explained(BalanceOf(p), ledger[p])
            /\ ledger[p] \in LedgerEntry
        BY <1>3 DEF AccountsInv, AccountsPart, BalanceOf, Account
      <4>2. QED
        BY <4>1 DEF Explained, LedgerEntry
    <3>2. QED
      BY <3>1, AffordableIsHighest DEF Tier, Archive
  <2> HIDE DEF most
  <2>4. accounts'[p].tier <= most
    BY <1>3, <2>1, <2>2, <2>3
  <2>5. QED
    BY <1>3, <2>1, <2>4 DEF Served
<1>11. AccountsPart'
  BY <1>4, <1>7, <1>9, <1>10
     DEF AccountsPart, Explained, Served, Fits, calculateAffordableTier
<1>12. ChargesKnown'
  <2> SUFFICES ASSUME NEW p \in Protocols
               PROVE  ledger'[p].chargedOn <= lastProcessedDay'
    BY DEF ChargesKnown
  <2>1. CASE p \in DOMAIN accounts
    BY <2>1, <1>1, <1>2, <1>5
  <2>2. CASE p \notin DOMAIN accounts
    <3>1. /\ ledger'[p].chargedOn \in Nat
          /\ ledger'[p].chargedOn <= lastProcessedDay /\ lastProcessedDay \in Nat
      BY <2>2, <1>6 DEF AccountsInv, AccountsPart, ChargesKnown, LedgerEntry
    <3>2. QED
      BY <3>1, <1>1, <1>2
  <2>3. QED
    BY <2>1, <2>2
<1>13. FeesPart'
  BY <1>1, <1>8, FeesUndisturbed
<1>14. QED
  BY <1>1, <1>2, <1>3, <1>11, <1>12, <1>13 DEF AccountsInv

LEMMA SyncsCompletedPreserves ==
  ASSUME AccountsInv, NEW P \in SUBSET DOMAIN accounts, SyncsCompleted(P)
  PROVE  /\ AccountsInv'
         /\ \A p \in DOMAIN accounts : accounts'[p].balance = accounts[p].balance
<1>1. /\ DOMAIN accounts' = DOMAIN accounts
      /\ UNCHANGED <<lastProcessedDay, feeStates, evmBalance, reads, now, ledger>>
  BY DEF SyncsCompleted
<1>2. ASSUME NEW p \in DOMAIN accounts
      PROVE  /\ accounts'[p] \in Account
             /\ accounts'[p].balance = accounts[p].balance
             /\ accounts'[p].tier = accounts[p].tier
             /\ accounts'[p].expires = accounts[p].expires
  <2>1. accounts[p] \in Account /\ now \in Nat
    BY DEF AccountsInv, AccountsPart
  <2>2. \/ accounts'[p] = [accounts[p] EXCEPT !.lastSyncAt = now]
        \/ accounts'[p] = accounts[p]
    BY DEF SyncsCompleted
  <2>3. QED
    BY <2>1, <2>2 DEF Account
<1>3. accounts' \in [DOMAIN accounts' -> Account]
  <2>1. accounts' = [p \in DOMAIN accounts |-> accounts'[p]]
    BY DEF SyncsCompleted
  <2>2. QED
    BY <1>2, <2>1
<1>4. \A p \in Protocols : BalanceOf(p)' = BalanceOf(p)
  BY <1>1, <1>2 DEF BalanceOf
<1>5. \A p \in DOMAIN accounts' : Served(accounts'[p], ledger'[p])
  <2> SUFFICES ASSUME NEW p \in DOMAIN accounts
               PROVE  Served(accounts'[p], ledger'[p])
    BY <1>1
  <2>1. Served(accounts[p], ledger[p])
    BY DEF AccountsInv, AccountsPart
  <2>2. QED
    BY <2>1, <1>1, <1>2 DEF Served, Fits
<1>6. AccountsPart'
  BY <1>1, <1>3, <1>4, <1>5
     DEF AccountsInv, AccountsPart, Explained, Served, Fits, calculateAffordableTier
<1>7. FeesPart' /\ ChargesKnown'
  BY <1>1, FeesUndisturbed DEF AccountsInv, ChargesKnown
<1>8. QED
  BY <1>1, <1>2, <1>6, <1>7 DEF AccountsInv

\* Nothing but the accounts, the ledger and the day matters to these parts.
LEMMA AccountsUndisturbed ==
  ASSUME AccountsInv, UNCHANGED <<accounts, ledger, lastProcessedDay>>
  PROVE  AccountsPart' /\ ChargesKnown'
  BY DEF AccountsInv, AccountsPart, ChargesKnown, BalanceOf, Explained, Served, Fits,
         calculateAffordableTier

LEMMA RemoveAtProperties ==
  ASSUME NEW S, NEW s \in Seq(S), NEW k \in DOMAIN s
  PROVE  /\ RemoveAt(s, k) \in Seq(S)
         /\ \A j \in DOMAIN RemoveAt(s, k) : \E i \in DOMAIN s : RemoveAt(s, k)[j] = s[i]
<1> DEFINE front == SubSeq(s, 1, k - 1)
           back  == SubSeq(s, k + 1, Len(s))
<1>1. /\ k \in Nat \ {0} /\ k <= Len(s) /\ Len(s) \in Nat /\ DOMAIN s = 1..Len(s)
  OBVIOUS
<1>2. /\ front \in Seq(S) /\ Len(front) = k - 1
      /\ \A j \in 1..(k - 1) : front[j] = s[j]
  BY <1>1
<1>3. /\ back \in Seq(S) /\ Len(back) = Len(s) - k
      /\ \A j \in 1..(Len(s) - k) : back[j] = s[j + k]
  BY <1>1
<1>4. RemoveAt(s, k) = front \o back
  BY DEF RemoveAt
<1> HIDE DEF front, back
<1>5. /\ front \o back \in Seq(S)
      /\ DOMAIN (front \o back) = 1..(Len(s) - 1)
      /\ \A j \in 1..(Len(s) - 1) :
           (front \o back)[j] = IF j <= k - 1 THEN front[j] ELSE back[j - (k - 1)]
  <2>1. Len(front) = k - 1 /\ Len(front) + Len(back) = Len(s) - 1
    BY <1>1, <1>2, <1>3
  <2>2. /\ front \o back \in Seq(S)
        /\ Len(front \o back) = Len(front) + Len(back)
        /\ \A j \in 1..(Len(front) + Len(back)) :
             (front \o back)[j] = IF j <= Len(front) THEN front[j]
                                                    ELSE back[j - Len(front)]
    BY <1>2, <1>3, ConcatProperties
  <2>3. DOMAIN (front \o back) = 1..Len(front \o back)
    BY <2>2
  <2>4. DOMAIN (front \o back) = 1..(Len(s) - 1)
    BY <2>1, <2>2, <2>3
  <2>5. \A j \in 1..(Len(s) - 1) :
           (front \o back)[j] = IF j <= k - 1 THEN front[j] ELSE back[j - (k - 1)]
    BY <2>1, <2>2
  <2>6. QED
    BY <2>2, <2>4, <2>5
<1>6. ASSUME NEW j \in 1..(Len(s) - 1)
      PROVE  \E i \in DOMAIN s : (front \o back)[j] = s[i]
  <2>1. CASE j <= k - 1
    <3>1. j \in 1..(k - 1) /\ j \in DOMAIN s
      BY <2>1, <1>1
    <3>2. (front \o back)[j] = s[j]
      BY <2>1, <3>1, <1>2, <1>5
    <3>3. QED
      BY <3>1, <3>2
  <2>2. CASE ~(j <= k - 1)
    <3>1. j - (k - 1) \in 1..(Len(s) - k) /\ j + 1 \in DOMAIN s
      BY <2>2, <1>1
    <3>2. (front \o back)[j] = s[(j - (k - 1)) + k]
      BY <2>2, <3>1, <1>3, <1>5
    <3>3. QED
      BY <3>1, <3>2, <1>1
  <2>3. QED
    BY <2>1, <2>2
<1>7. QED
  BY <1>4, <1>5, <1>6

\* Fees that are paid, and reads begun or given up, change no account.
LEMMA ChainPreserves ==
  ASSUME AccountsInv,
         \/ \E p \in Protocols : ReadFee(p)
         \/ \E k \in DOMAIN reads : ReadFails(k)
         \/ \E p \in Protocols, wei \in Deposits : Deposit(p, wei)
  PROVE  AccountsInv'
<1>1. UNCHANGED <<accounts, lastProcessedDay, feeStates, now, ledger>>
  BY DEF ReadFee, ReadFails, Deposit
<1>2. AccountsPart' /\ ChargesKnown'
  BY <1>1, AccountsUndisturbed
<1>3. /\ feeStates \in [Protocols -> EvmFeeState]
      /\ evmBalance \in [Protocols -> Nat]
      /\ reads \in Seq(Read)
      /\ DepositsCredited /\ ReadsSeen
      /\ DOMAIN accounts \subseteq Protocols
  BY DEF AccountsInv, AccountsPart, FeesPart
<1>4. CASE \E p \in Protocols : ReadFee(p)
  <2>1. PICK p \in Protocols :
          /\ reads' = Append(reads, [protocol |-> p, balance |-> evmBalance[p]])
          /\ evmBalance' = evmBalance
    BY <1>4 DEF ReadFee
  <2>2. [protocol |-> p, balance |-> evmBalance[p]] \in Read
    BY <1>3 DEF Read
  <2>3. /\ reads' \in Seq(Read)
        /\ \A k \in DOMAIN reads' :
             \/ k \in DOMAIN reads /\ reads'[k] = reads[k]
             \/ reads'[k] = [protocol |-> p, balance |-> evmBalance[p]]
    BY <1>3, <2>1, <2>2
  <2>4. evmBalance[p] <= evmBalance[p]
    BY <1>3
  <2>5. ReadsSeen'
    BY <1>1, <1>3, <2>1, <2>3, <2>4 DEF ReadsSeen
  <2>6. DepositsCredited'
    BY <1>1, <1>3, <2>1 DEF DepositsCredited, weiToCycles
  <2>7. QED
    BY <1>1, <1>2, <1>3, <2>1, <2>3, <2>5, <2>6 DEF AccountsInv, FeesPart
<1>5. CASE \E k \in DOMAIN reads : ReadFails(k)
  <2>1. PICK k \in DOMAIN reads : /\ reads' = RemoveAt(reads, k)
                                 /\ evmBalance' = evmBalance
    BY <1>5 DEF ReadFails
  <2>2. /\ reads' \in Seq(Read)
        /\ \A j \in DOMAIN reads' : \E i \in DOMAIN reads : reads'[j] = reads[i]
    BY <1>3, <2>1, RemoveAtProperties
  <2>3. ReadsSeen'
    BY <1>1, <1>3, <2>1, <2>2 DEF ReadsSeen
  <2>4. DepositsCredited'
    BY <1>1, <1>3, <2>1 DEF DepositsCredited, weiToCycles
  <2>5. QED
    BY <1>1, <1>2, <1>3, <2>1, <2>2, <2>3, <2>4 DEF AccountsInv, FeesPart
<1>6. CASE \E p \in Protocols, wei \in Deposits : Deposit(p, wei)
  <2>1. PICK p \in Protocols, wei \in Deposits :
          /\ evmBalance' = [evmBalance EXCEPT ![p] = @ + wei]
          /\ reads' = reads
    BY <1>6 DEF Deposit
  <2>2. wei \in Nat
    BY AccountsAssumption
  <2>3. /\ evmBalance' \in [Protocols -> Nat]
        /\ \A q \in Protocols : evmBalance[q] <= evmBalance'[q]
    BY <1>3, <2>1, <2>2
  <2>4. ASSUME NEW m \in Nat, NEW q \in Protocols, m <= evmBalance[q]
        PROVE  m <= evmBalance'[q]
    BY <1>3, <2>3, <2>4
  <2>5. ReadsSeen'
    <3>1. \A k \in DOMAIN reads : reads[k].balance \in Nat /\ reads[k].protocol \in Protocols
      <4>1. \A k \in DOMAIN reads : reads[k] \in Read
        BY <1>3
      <4>2. QED
        BY <4>1 DEF Read
    <3>2. QED
      BY <1>1, <1>3, <2>1, <2>4, <3>1 DEF ReadsSeen
  <2>6. DepositsCredited'
    <3>1. \A q \in Protocols : feeStates[q].lastSyncedBalance \in Nat
      BY <1>3 DEF EvmFeeState
    <3>2. QED
      BY <1>1, <1>3, <2>4, <3>1 DEF DepositsCredited, weiToCycles
  <2>7. QED
    BY <1>1, <1>2, <1>3, <2>1, <2>3, <2>5, <2>6 DEF AccountsInv, FeesPart
<1>7. QED
  BY <1>4, <1>5, <1>6

\* The answer to a read credits what is new in it, if it shows more than the
\* last answer recorded; an account above Archive loses nothing by it.
LEMMA FeeSyncPreserves ==
  ASSUME AccountsInv, NEW k \in DOMAIN reads, processOneEvmFeeSync(k)
  PROVE  /\ AccountsInv'
         /\ \A p \in DOMAIN accounts :
              accounts[p].tier > Archive => accounts'[p].balance >= accounts[p].balance
<1> DEFINE p       == reads[k].protocol
           balance == reads[k].balance
           fee     == feeStates[p]
           deposit == Monus(balance, fee.lastSyncedBalance)
           cycles  == weiToCycles(deposit)
           acc     == findAccount(p)
           result  == donate(acc, cycles)
           entered == Paid(p, cycles, result.catchUpCost)
           order   == entered[p].inOrder /\ balance >= fee.lastSyncedBalance
           synced  == [ lastSyncedBalance |-> balance,
                        totalDeposited    |-> fee.totalDeposited + deposit,
                        totalCredited     |-> fee.totalCredited + cycles,
                        lastFeeSyncAt     |-> now ]
<1>1. /\ p \in Protocols
      /\ balance \in Nat /\ balance <= evmBalance[p] /\ evmBalance[p] \in Nat
      /\ fee \in EvmFeeState /\ acc \in Account
      /\ now \in Nat /\ AccountsPart
  <2>1. reads[k] \in Read
    BY DEF AccountsInv, FeesPart
  <2>2. /\ p \in Protocols /\ now \in Nat /\ AccountsPart
        /\ balance \in Nat /\ balance <= evmBalance[p] /\ evmBalance[p] \in Nat
        /\ fee \in EvmFeeState
    BY <2>1 DEF AccountsInv, FeesPart, ReadsSeen, Read
  <2>3. acc \in Account
    BY <2>2, FindProperties
  <2>4. QED
    BY <2>2, <2>3
<1>2. /\ feeStates' = [feeStates EXCEPT ![p] = synced]
      /\ accounts' = With(p, result.account)
      /\ ledger' = [entered EXCEPT ![p].inOrder = order]
      /\ reads' = RemoveAt(reads, k)
      /\ UNCHANGED <<lastProcessedDay, evmBalance, now>>
  <2>1. syncEvmFeeBalance(fee, acc, balance)
          = [feeState |-> synced, newCycles |-> cycles, donation |-> result]
    BY DEF syncEvmFeeBalance
  <2> DEFINE r == syncEvmFeeBalance(fee, acc, balance)
  <2>2. /\ feeStates' = [feeStates EXCEPT ![p] = r.feeState]
        /\ accounts' = With(p, r.donation.account)
        /\ ledger' = [Paid(p, r.newCycles, r.donation.catchUpCost) EXCEPT
                        ![p].inOrder = @ /\ balance >= fee.lastSyncedBalance]
        /\ reads' = RemoveAt(reads, k)
        /\ UNCHANGED <<lastProcessedDay, evmBalance, now>>
    BY DEF processOneEvmFeeSync, upsertAccount
  <2>3. r = [feeState |-> synced, newCycles |-> cycles, donation |-> result]
    BY <2>1
  <2> HIDE DEF r, synced, cycles, result
  <2>4. r.feeState = synced /\ r.newCycles = cycles /\ r.donation = result
    BY <2>3
  <2>5. QED
    BY <2>2, <2>4
<1>3. /\ fee.lastSyncedBalance \in Nat /\ fee.totalDeposited \in Nat
      /\ fee.totalCredited \in Nat
  BY <1>1 DEF EvmFeeState
<1>4. deposit \in Nat /\ cycles \in Nat
  <2>1. deposit \in Nat
    BY <1>1, <1>3, MonusProperties
  <2> HIDE DEF deposit
  <2>2. QED
    BY <2>1, ConversionRoundsDown
<1>5. /\ result.account \in Account /\ result.catchUpCost \in Nat
      /\ acc.tier > Archive => result.account.balance = acc.balance + cycles
  BY <1>1, <1>4, DonateProperties
<1>6. /\ entered \in [Protocols -> LedgerEntry]
      /\ entered[p].paid = ledger[p].paid + cycles
      /\ entered[p].reported = ledger[p].reported + result.catchUpCost
      /\ entered[p].inOrder = ledger[p].inOrder
      /\ entered[p].lost = ledger[p].lost
      /\ entered[p].chargedOn = ledger[p].chargedOn
      /\ \A q \in Protocols : q # p => entered[q] = ledger[q]
  <2> HIDE DEF cycles, result, p
  <2>1. QED
    BY <1>1, <1>4, <1>5, PaidProperties
<1>7. order \in BOOLEAN /\ order = (ledger[p].inOrder /\ balance >= fee.lastSyncedBalance)
  BY <1>6
<1> HIDE DEF order, entered
<1>8. /\ ledger' \in [Protocols -> LedgerEntry]
      /\ ledger'[p].paid = ledger[p].paid + cycles
      /\ ledger'[p].reported = ledger[p].reported + result.catchUpCost
      /\ ledger'[p].inOrder = order
      /\ ledger'[p].lost = ledger[p].lost
      /\ ledger'[p].chargedOn = ledger[p].chargedOn
      /\ \A q \in Protocols : q # p => ledger'[q] = ledger[q]
  <2> HIDE DEF p, cycles, result
  <2>1. ledger' = [entered EXCEPT ![p].inOrder = order]
    BY <1>2
  <2>2. QED
    BY <1>1, <1>6, <1>7, <2>1 DEF LedgerEntry
<1>9. AccountsPart' /\ ChargesKnown'
  <2>1. AccountsPart'
    BY <1>1, <1>2, <1>4, <1>8, CreditPreserves
  <2>2. \A q \in Protocols : ledger'[q].chargedOn = ledger[q].chargedOn
    BY <1>8
  <2>3. ChargesKnown'
    BY <2>2, <1>2 DEF AccountsInv, ChargesKnown
  <2>4. QED
    BY <2>1, <2>3
<1>10. DepositsCredited'
  <2> SUFFICES ASSUME NEW q \in Protocols
               PROVE  /\ feeStates'[q].lastSyncedBalance <= feeStates'[q].totalDeposited
                      /\ feeStates'[q].lastSyncedBalance <= evmBalance'[q]
                      /\ ledger'[q].inOrder =>
                           feeStates'[q].totalDeposited = feeStates'[q].lastSyncedBalance
                      /\ feeStates'[q].totalCredited
                           <= weiToCycles(feeStates'[q].totalDeposited)
    BY DEF DepositsCredited, weiToCycles
  <2>1. CASE q # p
    BY <2>1, <1>1, <1>2, <1>8 DEF AccountsInv, FeesPart, DepositsCredited
  <2>2. CASE q = p
    <3>1. feeStates'[q] = synced
      BY <2>2, <1>1, <1>2 DEF AccountsInv, FeesPart
    <3>2. /\ fee.lastSyncedBalance <= fee.totalDeposited
          /\ ledger[p].inOrder => fee.totalDeposited = fee.lastSyncedBalance
          /\ fee.totalCredited <= weiToCycles(fee.totalDeposited)
      BY <1>1 DEF AccountsInv, FeesPart, DepositsCredited
    <3>3. /\ balance <= deposit + fee.lastSyncedBalance
          /\ balance >= fee.lastSyncedBalance =>
               balance = fee.lastSyncedBalance + deposit
      BY <1>1, <1>3 DEF Monus
    <3>4. /\ weiToCycles(fee.totalDeposited) \in Nat
          /\ weiToCycles(fee.totalDeposited) + cycles
               <= weiToCycles(fee.totalDeposited + deposit)
          /\ weiToCycles(fee.totalDeposited + deposit) \in Nat
      <4> HIDE DEF deposit, fee
      <4>1. cycles = weiToCycles(deposit)
        OBVIOUS
      <4>2. fee.totalDeposited + deposit \in Nat
        BY <1>3, <1>4
      <4>3. /\ weiToCycles(fee.totalDeposited) \in Nat
            /\ weiToCycles(fee.totalDeposited) + weiToCycles(deposit)
                 <= weiToCycles(fee.totalDeposited + deposit)
        BY <1>3, <1>4, ConversionRoundsDown
      <4>4. weiToCycles(fee.totalDeposited + deposit) \in Nat
        BY <4>2, ConversionRoundsDown
      <4> HIDE DEF cycles
      <4>5. QED
        BY <4>1, <4>3, <4>4
    <3>5. /\ synced.lastSyncedBalance = balance
          /\ synced.totalDeposited = fee.totalDeposited + deposit
          /\ synced.totalCredited = fee.totalCredited + cycles
      OBVIOUS
    <3>6. ledger'[q].inOrder => ledger[p].inOrder /\ balance >= fee.lastSyncedBalance
      BY <2>2, <1>7, <1>8
    <3> HIDE DEF synced, cycles, deposit, fee, balance, p
    <3>7. balance <= fee.totalDeposited + deposit
      BY <1>1, <1>3, <1>4, <3>2, <3>3
    <3>8. fee.totalCredited + cycles <= weiToCycles(fee.totalDeposited + deposit)
      BY <1>3, <1>4, <3>2, <3>4
    <3>9. ledger'[q].inOrder => fee.totalDeposited + deposit = balance
      BY <1>3, <1>4, <3>2, <3>3, <3>6
    <3>10. balance <= evmBalance'[q]
      BY <2>2, <1>1, <1>2
    <3>11. QED
      BY <3>1, <3>5, <3>7, <3>8, <3>9, <3>10
  <2>3. QED
    BY <2>1, <2>2
<1>11. feeStates' \in [Protocols -> EvmFeeState]
  <2>1. synced \in EvmFeeState
    BY <1>1, <1>3, <1>4 DEF EvmFeeState
  <2>2. QED
    BY <1>2, <2>1 DEF AccountsInv, FeesPart
<1>12. reads' \in Seq(Read) /\ ReadsSeen'
  <2>1. /\ reads' \in Seq(Read)
        /\ \A j \in DOMAIN reads' : \E i \in DOMAIN reads : reads'[j] = reads[i]
    BY <1>2, RemoveAtProperties DEF AccountsInv, FeesPart
  <2>2. QED
    BY <1>2, <2>1 DEF AccountsInv, FeesPart, ReadsSeen
<1>13. AccountsInv'
  BY <1>2, <1>9, <1>10, <1>11, <1>12 DEF AccountsInv, FeesPart
<1>14. ASSUME NEW q \in DOMAIN accounts, accounts[q].tier > Archive
       PROVE  accounts'[q].balance >= accounts[q].balance
  <2>1. accounts[q].balance \in Nat
    BY DEF AccountsInv, AccountsPart, Account
  <2>2. CASE q = p
    <3>1. acc = accounts[p]
      BY <2>2 DEF findAccount
    <3>2. accounts'[q] = result.account
      BY <2>2, <1>2 DEF With
    <3>3. QED
      BY <2>1, <2>2, <3>1, <3>2, <1>4, <1>5, <1>14
  <2>3. CASE q # p
    BY <2>1, <2>3, <1>2 DEF With
  <2>4. QED
    BY <2>2, <2>3
<1>15. QED
  BY <1>13, <1>14

LEMMA TickPreserves ==
  ASSUME AccountsInv, Tick
  PROVE  AccountsInv'
<1>1. /\ UNCHANGED <<accounts, lastProcessedDay, feeStates, evmBalance, reads, ledger>>
      /\ now' \in Nat
  BY DEF Tick, AccountsInv
<1>2. AccountsPart' /\ ChargesKnown'
  BY <1>1, AccountsUndisturbed
<1>3. FeesPart'
  BY <1>1, FeesUndisturbed
<1>4. QED
  BY <1>1, <1>2, <1>3 DEF AccountsInv

LEMMA StutterPreserves ==
  ASSUME AccountsInv, UNCHANGED vars
  PROVE  AccountsInv'
<1>1. UNCHANGED <<accounts, lastProcessedDay, feeStates, evmBalance, reads, now, ledger>>
  BY DEF vars
<1>2. AccountsPart' /\ ChargesKnown'
  BY <1>1, AccountsUndisturbed
<1>3. FeesPart'
  BY <1>1, FeesUndisturbed
<1>4. QED
  BY <1>1, <1>2, <1>3 DEF AccountsInv

---------------------------------------------------------------------------
(* The theorems.                                                           *)

\* The invariant holds in every reachable state.
THEOREM AccountsInvariance == Spec => []AccountsInv
<1>1. Init => AccountsInv
  BY InitInv
<1>2. AccountsInv /\ [Next]_vars => AccountsInv'
  <2> SUFFICES ASSUME AccountsInv, [Next]_vars
               PROVE  AccountsInv'
    OBVIOUS
  <2>1. CASE RegisterProtocol \/ Reinitialize
    BY <2>1, RegisterPreserves, ReinitializePreserves
  <2>2. CASE \E p \in Protocols, amount \in Donations : DonateToProtocol(p, amount)
    BY <2>2, DonationPreserves
  <2>3. CASE \E k \in DOMAIN reads : processOneEvmFeeSync(k)
    BY <2>3, FeeSyncPreserves
  <2>4. CASE \/ \E p \in Protocols : ReadFee(p)
             \/ \E k \in DOMAIN reads : ReadFails(k)
             \/ \E p \in Protocols, wei \in Deposits : Deposit(p, wei)
    BY <2>4, ChainPreserves
  <2>5. CASE Heartbeat
    BY <2>5, HeartbeatPreserves
  <2>6. CASE \E P \in SUBSET DOMAIN accounts : SyncsCompleted(P)
    BY <2>6, SyncsCompletedPreserves
  <2>7. CASE Tick
    BY <2>7, TickPreserves
  <2>8. CASE UNCHANGED vars
    BY <2>8, StutterPreserves
  <2>9. QED
    BY <2>1, <2>2, <2>3, <2>4, <2>5, <2>6, <2>7, <2>8 DEF Next
<1>3. QED
  BY <1>1, <1>2, PTL DEF Spec

\* No balance, charge or total is ever below zero, whatever the costs.
THEOREM AccountsTypeCorrect == Spec => []AccountsTypeOK
<1>1. AccountsInv => AccountsTypeOK
  BY DEF AccountsInv, AccountsPart, FeesPart, AccountsTypeOK, LedgerEntry, Read
<1>2. QED
  BY <1>1, AccountsInvariance, PTL

\* What was paid in for a protocol is in its balance, was charged (the part of a
\* charge beyond the balance being waived), or was lost with an account that was
\* registered anew or re-initialized.
THEOREM BalancesAlwaysExplained == Spec => []BalancesExplained
<1>1. AccountsInv => BalancesExplained
  BY DEF AccountsInv, AccountsPart, BalancesExplained, Explained
<1>2. QED
  BY <1>1, AccountsInvariance, PTL

\* Each operation computes the total anew or leaves it and the balances alone.
TotalInv == totalCycles = TotalBalance(accounts)

\* The registry's total is the sum of the balances, each of which is explained,
\* after any sequence of registrations, donations, syncs, charges and losses.
THEOREM CyclesAlwaysAccounted == Spec => []CyclesAccounted
<1>1. ASSUME DOMAIN accounts = {}, totalCycles = 0
      PROVE  TotalInv
  <2> DEFINE balances == [p \in DOMAIN accounts |-> accounts[p].balance]
  <2>1. DOMAIN balances = {}
    BY <1>1
  <2>2. TotalBalance(accounts) = SumFunction(balances)
    BY DEF TotalBalance
  <2> HIDE DEF balances
  <2>3. SumFunction(balances) = SumOver(balances, {})
    BY <2>1, SumFunctionIsComputed
  <2> QED BY <1>1, <2>2, <2>3, SumOfNone DEF TotalInv
<1>2. Init => TotalInv
  BY <1>1 DEF Init
<1>3. ASSUME Reinitialize
      PROVE  TotalInv'
  <2> DEFINE balances == [p \in DOMAIN accounts' |-> accounts'[p].balance]
  <2>1. DOMAIN balances = {} /\ totalCycles' = 0
    BY <1>3 DEF Reinitialize
  <2>2. TotalBalance(accounts') = SumFunction(balances)
    BY DEF TotalBalance
  <2> HIDE DEF balances
  <2>3. SumFunction(balances) = SumOver(balances, {})
    BY <2>1, SumFunctionIsComputed
  <2> QED BY <2>1, <2>2, <2>3, SumOfNone DEF TotalInv, TotalBalance
<1>4. TotalInv /\ [Next]_vars => TotalInv'
  <2> SUFFICES ASSUME TotalInv, [Next]_vars
               PROVE  TotalInv'
    OBVIOUS
  <2>1. CASE totalCycles' = TotalBalance(accounts')
    BY <2>1 DEF TotalInv, TotalBalance
  <2>2. CASE UNCHANGED <<accounts, totalCycles>>
    BY <2>2 DEF TotalInv, TotalBalance
  <2>3. CASE \/ RegisterProtocol
             \/ \E p \in Protocols, amount \in Donations : DonateToProtocol(p, amount)
             \/ \E k \in DOMAIN reads : processOneEvmFeeSync(k)
             \/ Heartbeat
             \/ \E P \in SUBSET DOMAIN accounts : SyncsCompleted(P)
    BY <2>1, <2>3 DEF RegisterProtocol, DonateToProtocol, processOneEvmFeeSync,
                      Heartbeat, processDailyTick, processDailyDeductions,
                      SyncsCompleted, upsertAccount
  <2>4. CASE \/ \E p \in Protocols : ReadFee(p)
             \/ \E k \in DOMAIN reads : ReadFails(k)
             \/ \E p \in Protocols, wei \in Deposits : Deposit(p, wei)
             \/ Tick \/ UNCHANGED vars
    BY <2>2, <2>4 DEF ReadFee, ReadFails, Deposit, Tick, vars
  <2> QED BY <1>3, <2>3, <2>4 DEF Next
<1>5. TotalInv /\ BalancesExplained => CyclesAccounted
  BY DEF TotalInv, CyclesAccounted
<1> QED BY <1>2, <1>4, <1>5, BalancesAlwaysExplained, PTL DEF Spec

\* An account is served at a tier between what its balance and what all the
\* payments not lost before it afford.
THEOREM TiersAlwaysFit == Spec => []TierFitsPayments
<1>1. AccountsInv => TierFitsPayments
  BY DEF AccountsInv, AccountsPart, TierFitsPayments, Served, Fits
<1>2. QED
  BY <1>1, AccountsInvariance, PTL

\* Fees on the chain are credited in full, and once by one registry if the
\* answers come in order, for any number of overlapping reads.
THEOREM DepositsAlwaysCredited == Spec => []DepositsCredited
<1>1. AccountsInv => DepositsCredited
  BY DEF AccountsInv, FeesPart
<1>2. QED
  BY <1>1, AccountsInvariance, PTL

\* Only the first heartbeat of a day takes cycles from an account above
\* Archive, no more than the daily cost of its tier, and nothing for a day it
\* was charged for, whenever the day processed was forgotten.
THEOREM ChargedOnlyOnceADay == Spec => ChargedOnceADay
<1> DEFINE Charge ==
      \A p \in DOMAIN accounts :
        /\ accounts[p].tier > Archive
        /\ Keeps(p)
        /\ accounts'[p].balance < accounts[p].balance
        => /\ lastProcessedDay' > lastProcessedDay
           /\ lastProcessedDay' > ledger[p].chargedOn
           /\ accounts[p].balance - accounts'[p].balance
                <= tierDailyCost(accounts[p].tier)
<1>1. AccountsInv /\ [Next]_vars => [Charge]_vars
  <2> SUFFICES ASSUME AccountsInv, Next
               PROVE  Charge
    OBVIOUS
  <2> SUFFICES ASSUME NEW p \in DOMAIN accounts,
                      accounts[p].tier > Archive,
                      Keeps(p),
                      accounts'[p].balance < accounts[p].balance
               PROVE  /\ lastProcessedDay' > lastProcessedDay
                      /\ lastProcessedDay' > ledger[p].chargedOn
                      /\ accounts[p].balance - accounts'[p].balance
                           <= tierDailyCost(accounts[p].tier)
    OBVIOUS
  <2>1. /\ p \in Protocols /\ accounts[p] \in Account /\ now \in Nat
        /\ accounts[p].balance \in Nat /\ ledger[p].chargedOn \in Nat
        /\ lastProcessedDay \in Nat /\ ledger[p].chargedOn <= lastProcessedDay
    BY DEF AccountsInv, AccountsPart, Account, ChargesKnown, LedgerEntry
  <2>2. CASE RegisterProtocol \/ Reinitialize
    <3>1. RegisterProtocol /\ p # Placeholder
      BY <2>2 DEF Keeps, Reinitialize
    <3>2. accounts'[p] = accounts[p]
      BY <3>1 DEF RegisterProtocol, upsertAccount, With
    <3>3. QED
      BY <2>1, <3>2
  <2>3. CASE \E q \in Protocols, amount \in Donations : DonateToProtocol(q, amount)
    <3>1. PICK q \in Protocols, amount \in Donations :
            accounts' = With(q, donate(accounts[q], amount).account)
      BY <2>3 DEF DonateToProtocol, upsertAccount
    <3>2. amount \in Nat
      BY AccountsAssumption
    <3>3. donate(accounts[p], amount).account.balance = accounts[p].balance + amount
      BY <2>1, <3>2, DonateProperties
    <3>4. accounts'[p].balance >= accounts[p].balance
      BY <2>1, <3>1, <3>2, <3>3 DEF With
    <3>5. accounts'[p].balance \in Int
      BY <2>1, <3>1, <3>2, <3>3 DEF With
    <3>6. QED
      BY <2>1, <3>4, <3>5
  <2>4. CASE \E k \in DOMAIN reads : processOneEvmFeeSync(k)
    <3>1. accounts'[p].balance >= accounts[p].balance
      BY <2>4, FeeSyncPreserves
    <3>2. accounts'[p].balance \in Int
      <4>1. AccountsInv' /\ p \in DOMAIN accounts'
        BY <2>4, FeeSyncPreserves DEF processOneEvmFeeSync, upsertAccount, With
      <4>2. QED
        BY <4>1 DEF AccountsInv, AccountsPart, Account
    <3>3. QED
      BY <2>1, <3>1, <3>2
  <2>5. CASE Heartbeat
    <3>1. /\ lastProcessedDay' > lastProcessedDay /\ lastProcessedDay' \in Nat
          /\ accounts[p].balance - accounts'[p].balance
               <= tierDailyCost(accounts[p].tier)
      BY <2>5, HeartbeatPreserves DEF AccountsInv
    <3>2. QED
      BY <2>1, <3>1
  <2>6. CASE \E P \in SUBSET DOMAIN accounts : SyncsCompleted(P)
    BY <2>1, <2>6, SyncsCompletedPreserves
  <2>7. CASE \/ \E q \in Protocols : ReadFee(q)
             \/ \E k \in DOMAIN reads : ReadFails(k)
             \/ \E q \in Protocols, wei \in Deposits : Deposit(q, wei)
             \/ Tick
    <3>1. accounts' = accounts
      BY <2>7 DEF ReadFee, ReadFails, Deposit, Tick
    <3>2. QED
      BY <2>1, <3>1
  <2>8. QED
    BY <2>2, <2>3, <2>4, <2>5, <2>6, <2>7 DEF Next
<1>2. QED
  BY <1>1, AccountsInvariance, PTL DEF Spec, ChargedOnceADay
=============================================================================
