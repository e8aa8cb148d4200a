------------------------- MODULE CanisterLifecycle --------------------------
(***************************************************************************)
(* The canister from its installation through any number of upgrades: what *)
(* its update methods keep in C statics (canister_entry.c, ic0_stubs.c),   *)
(* what they keep in the event database, and which of it an upgrade brings *)
(* back.  An upgrade runs pre_upgrade in the old code and post_upgrade in  *)
(* the new, whose statics are all zero; only stable memory passes from one *)
(* to the other.  A trap in either undoes the upgrade and is no step.      *)
(*                                                                         *)
(* An event is the number of its arrival: the first that was acknowledged  *)
(* is 1.  Names of protocols are sequences because donate compares them as *)
(* far as the shorter goes.  last_sync_block and expires_at of an account  *)
(* are written and never read, and are left out.                           *)
(***************************************************************************)
EXTENDS SqliteStore, SequencesExt

CONSTANTS
  Names,          \* protocol names a caller may give
  NameLen,        \* PROTOCOL_ID_LEN, 42 in the code
  Amounts,        \* cycles that may come with a donation
  TierCost,       \* cost of tiers 1, 2 and 3, ascending
  MaxAccounts,    \* MAX_PROTOCOL_ACCOUNTS, 256 in the code
  Rooms,          \* rows a restored database may have space for
  MaxEvents, MaxCount, MaxCycles, MaxUpgrades   \* bounds of the model

ASSUME LifecycleAssumption ==
  /\ Names \subseteq Seq(Nat) \ {<< >>} /\ IsFiniteSet(Names)
  /\ NameLen \in Nat /\ Amounts \subseteq Nat /\ Rooms \subseteq Nat
  /\ TierCost \in [1..3 -> Nat \ {0}]
  /\ MaxAccounts \in Nat /\ MaxEvents \in Nat /\ MaxCount \in Nat
  /\ MaxCycles \in Nat /\ MaxUpgrades \in Nat

VARIABLES
  phase,       \* "empty" before canister_init, "upgrading" between the hooks
  initialized, \* ouc_state_initialized
  proposals,   \* ouc_proposal_count
  auditors,    \* ouc_auditor_count
  accounts,    \* protocol_accounts, up to protocol_account_count
  db,          \* the database behind g_db
  snapshot,    \* what stable memory holds of it
  arrived,     \* events acknowledged so far
  overcounted, \* logs that were reported as stored and refused
  trouble,     \* what went wrong or was restored so far
  given,       \* cycles taken under each name since the last upgrade
  upgrades     \* upgrades so far

statics == <<initialized, proposals, auditors, accounts>>
vars == <<phase, statics, db, snapshot, arrived, overcounted, trouble, given, upgrades>>

Accounts == [protocol_id : Seq(Nat), balance : Nat, tier : 0..3]

NothingGiven == [name \in Names |-> 0]

---------------------------------------------------------------------------
(* Installation and upgrade.                                               *)

\* Mutated form: the flag is set whatever became of the database.
InitFlagAlways(restored, opens) ==
  /\ db' = sql_open(restored, opens)
  /\ initialized' = TRUE

\* CMD_INIT opens a database unless one is open, creates the tables that are
\* missing, and sets the flag to whether that succeeded.
initGlobalState(restored, opens) ==
  /\ db' = sql_open(restored, opens)
  /\ initialized' = db'.open

\* The ghost: a call that failed is remembered.
Note(what, failed) == IF failed THEN trouble \cup {what} ELSE trouble

canister_init ==
  /\ phase = "empty"
  /\ \E opens \in BOOLEAN :
       /\ initGlobalState(Closed, opens)
       /\ trouble' = Note("open", ~opens)
  /\ phase' = "running"
  /\ UNCHANGED <<proposals, auditors, accounts, snapshot, arrived, overcounted, given, upgrades>>

\* A save that fails is logged and the upgrade goes on.  The statics are those
\* of the new code.
canister_pre_upgrade ==
  /\ phase = "running" /\ upgrades < MaxUpgrades
  /\ \E serializes \in BOOLEAN :
       /\ snapshot' = sqlite_stable_save(db, snapshot, serializes)
       /\ trouble' = Note("save", ~saves(db, serializes))
  /\ phase' = "upgrading" /\ upgrades' = upgrades + 1
  /\ db' = Closed /\ initialized' = FALSE
  /\ proposals' = 0 /\ auditors' = 0 /\ accounts' = << >>
  /\ given' = NothingGiven
  /\ UNCHANGED <<arrived, overcounted>>

\* Mutated form: CMD_INIT comes first, and what it opened is not replaced.
PostUpgradeInitFirst ==
  /\ phase = "upgrading"
  /\ \E opens \in BOOLEAN : /\ initGlobalState(Closed, opens)
                            /\ trouble' = Note("open", ~opens)
  /\ phase' = "running"
  /\ UNCHANGED <<proposals, auditors, accounts, snapshot, arrived, overcounted, given, upgrades>>

\* Mutated form: also a failed load returns without CMD_INIT.
PostUpgradeReturnsEarly ==
  /\ phase = "upgrading"
  /\ \E loads, opens \in BOOLEAN, room \in Rooms :
       LET there    == sqlite_stable_has_snapshot(snapshot)
           restored == IF there THEN sqlite_stable_load(snapshot, room, loads) ELSE Closed
       IN  /\ initGlobalState(restored, opens /\ ~there)
           /\ trouble' = trouble \cup (IF restored.open THEN {"restored"} ELSE {})
                           \cup (IF there /\ ~loads THEN {"load"} ELSE {})
                           \cup (IF ~there /\ ~opens THEN {"open"} ELSE {})
  /\ phase' = "running"
  /\ UNCHANGED <<proposals, auditors, accounts, snapshot, arrived, overcounted, given, upgrades>>

\* A snapshot is restored if there is one; if that fails, or there is none,
\* CMD_INIT finds no database and opens an empty one.
canister_post_upgrade ==
  /\ phase = "upgrading"
  /\ \E loads, opens \in BOOLEAN, room \in Rooms :
       LET there    == sqlite_stable_has_snapshot(snapshot)
           restored == IF there THEN sqlite_stable_load(snapshot, room, loads) ELSE Closed
       IN  /\ initGlobalState(restored, opens)
           /\ trouble' = trouble \cup (IF restored.open THEN {"restored"} ELSE {})
                           \cup (IF there /\ ~loads THEN {"load"} ELSE {})
                           \cup (IF ~restored.open /\ ~opens THEN {"open"} ELSE {})
  /\ phase' = "running"
  /\ UNCHANGED <<proposals, auditors, accounts, snapshot, arrived, overcounted, given, upgrades>>

---------------------------------------------------------------------------
(* Update methods on the counters.  Their queries, suspendAuditor and      *)
(* reactivateAuditor (the list of auditors is empty) change nothing.       *)

\* The text is never refused: parse_candid_text_arg answers 0, and not less,
\* when it fails.  The id is the old count.
submitProposal ==
  /\ phase = "running" /\ proposals < MaxCount
  /\ proposals' = proposals + 1
  /\ UNCHANGED <<phase, initialized, auditors, accounts, db, snapshot, arrived,
                 overcounted, trouble, given, upgrades>>

\* Refused until CMD_INIT has succeeded.
registerAuditor ==
  /\ phase = "running" /\ initialized /\ auditors < MaxCount
  /\ auditors' = auditors + 1
  /\ UNCHANGED <<phase, initialized, proposals, accounts, db, snapshot, arrived,
                 overcounted, trouble, given, upgrades>>

---------------------------------------------------------------------------
(* Events.                                                                 *)

\* The event is stored, or refused with -1 and nothing changes.  With space
\* for it too, SQLite may fail the insert.
doStoreTestEvent(inserts) ==
  /\ IF HasSpace(db) /\ inserts
       THEN /\ arrived < MaxEvents /\ arrived' = arrived + 1
            /\ db' = Insert(db, arrived + 1)
       ELSE UNCHANGED <<arrived, db>>
  /\ trouble' = Note("insert", HasSpace(db) /\ ~inserts)

\* The caller is given the new count, or 0 for a refusal.
storeTestEvent ==
  /\ phase = "running"
  /\ \E inserts \in BOOLEAN : doStoreTestEvent(inserts)
  /\ UNCHANGED <<phase, statics, snapshot, overcounted, given, upgrades>>

\* A log that fetchEvmLogs has brought is counted whatever came of storing it.
parse_and_store_log ==
  /\ phase = "running"
  /\ \E inserts \in BOOLEAN :
       /\ doStoreTestEvent(inserts)
       /\ overcounted' = IF HasSpace(db) /\ inserts THEN overcounted ELSE 1
  /\ UNCHANGED <<phase, statics, snapshot, given, upgrades>>

---------------------------------------------------------------------------
(* Donations.                                                              *)

\* A name as far as it is looked at.
Cut(name) == IF Len(name) > NameLen THEN SubSeq(name, 1, NameLen) ELSE name

\* The first account whose name begins with what was given, or 0.
find_protocol_account(name) ==
  SelectInSeq(accounts, LAMBDA a : IsPrefix(Cut(name), a.protocol_id))

calculate_tier(balance) ==
  IF balance >= TierCost[3] THEN 3
  ELSE IF balance >= TierCost[2] THEN 2
  ELSE IF balance >= TierCost[1] THEN 1
  ELSE 0

NewAccount(name) ==
  [protocol_id |-> Cut(name), balance |-> 0, tier |-> 0]

\* The account that a donation goes to, 0 when the table is full, and the
\* table with it.
account_of(name) ==
  LET i == find_protocol_account(name)
  IN  IF i > 0 THEN i ELSE IF Len(accounts) < MaxAccounts THEN Len(accounts) + 1 ELSE 0

WithAccount(name) ==
  IF account_of(name) > Len(accounts) THEN Append(accounts, NewAccount(name)) ELSE accounts

\* Mutated form: the tier is computed from the donation, not the balance.
DonateByAmount(name, amount) ==
  LET i == account_of(name)
      a == WithAccount(name)[i]
      t == calculate_tier(amount)
  IN  IF i = 0 THEN accounts
      ELSE [ WithAccount(name) EXCEPT ![i].balance = @ + amount,
                                      ![i].tier = IF t > a.tier THEN t ELSE a.tier ]

\* The accounts after a donation; a tier is raised and never lowered.
ouc_donate(name, amount) ==
  LET i == account_of(name)
      a == WithAccount(name)[i]
      t == calculate_tier(a.balance + amount)
  IN  IF i = 0 THEN accounts
      ELSE [ WithAccount(name) EXCEPT ![i].balance = @ + amount,
                                      ![i].tier = IF t > a.tier THEN t ELSE a.tier ]

\* The cycles are taken before an account is looked for.
donate(name, amount) ==
  /\ phase = "running" /\ given[name] + amount <= MaxCycles
  /\ given' = [given EXCEPT ![name] = @ + amount]
  /\ accounts' = ouc_donate(name, amount)
  /\ UNCHANGED <<phase, initialized, proposals, auditors, db, snapshot, arrived,
                 overcounted, trouble, upgrades>>

---------------------------------------------------------------------------

Init == /\ phase = "empty"
        /\ initialized = FALSE /\ proposals = 0 /\ auditors = 0 /\ accounts = << >>
        /\ db = Closed /\ snapshot = NoSnapshot
        /\ arrived = 0 /\ overcounted = 0 /\ trouble = {}
        /\ given = NothingGiven /\ upgrades = 0

Next == \/ canister_init \/ canister_pre_upgrade \/ canister_post_upgrade
        \/ submitProposal \/ registerAuditor
        \/ storeTestEvent \/ parse_and_store_log
        \/ \E name \in Names, amount \in Amounts : donate(name, amount)

Spec == Init /\ [][Next]_vars

---------------------------------------------------------------------------

\* The types of statics, database and snapshot.  A canister whose flag says
\* that it is initialized has a database, and the other way round.
LifecycleTypeOK ==
  /\ phase \in {"empty", "running", "upgrading"}
  /\ initialized \in BOOLEAN /\ proposals \in Nat /\ auditors \in Nat
  /\ accounts \in Seq(Accounts) /\ Len(accounts) <= MaxAccounts
  /\ db \in Databases /\ snapshot \in Snapshots
  /\ arrived \in Nat /\ overcounted \in 0..1
  /\ trouble \subseteq {"open", "save", "load", "restored", "insert"}
  /\ given \in [Names -> Nat] /\ upgrades \in Nat
  /\ initialized <=> db.open
  /\ phase # "running" => ~db.open

\* Events in the order in which they arrived, none twice and none made up.
Arrivals(rows) ==
  /\ \A i \in DOMAIN rows : rows[i] \in 1..arrived
  /\ \A i, j \in DOMAIN rows : i < j => rows[i] < rows[j]

\* The events the canister has, or will have when its upgrade has loaded them.
Kept == IF phase = "upgrading" THEN snapshot.rows ELSE db.rows

\* Through any number of upgrades the database and the snapshot hold events
\* that were acknowledged, in their order; and all of them as long as every
\* database was opened, every save was made and every load succeeded, whatever
\* inserts were refused.
EventsKept ==
  /\ Arrivals(db.rows) /\ Arrivals(snapshot.rows)
  /\ trouble \subseteq {"restored", "insert"} => Len(Kept) = arrived

\* eventsStored, the answer of fetchEvmLogs, exceeds what was stored only
\* after the database was restored by an upgrade, which leaves it unable to
\* grow, could not be opened, or failed an insert it had the space for.
OvercountExplained ==
  overcounted > 0 => trouble \cap {"restored", "open", "insert"} # {}

TotalOf(f) == MapThenSumSet(LAMBDA x : f[x], DOMAIN f)

\* No two accounts have one name, and each has the tier its balance pays for.
AccountsApart ==
  /\ \A i, j \in DOMAIN accounts :
       accounts[i].protocol_id = accounts[j].protocol_id => i = j
  /\ \A i \in DOMAIN accounts : accounts[i].tier = calculate_tier(accounts[i].balance)

Balances == [i \in DOMAIN accounts |-> accounts[i].balance]

\* Cycles that were taken and are in no account: none until the table is full.
CyclesHeld ==
  LET missing == TotalOf(given) - TotalOf(Balances)
  IN  missing >= 0 /\ (missing > 0 => Len(accounts) = MaxAccounts)

\* What was taken under a complete name is in the account of that name.
NameCredited(name) ==
  \/ \E i \in DOMAIN accounts : /\ accounts[i].protocol_id = name
                                /\ accounts[i].balance >= given[name]
  \/ given[name] = 0
  \/ Len(accounts) = MaxAccounts /\ find_protocol_account(name) = 0

\* Between two upgrades no two accounts have one name, each has the tier that
\* its balance pays for, the cycles taken under a complete name are in the
\* account of that name, and none are missing from the accounts unless the
\* table is full.
DonationsKept ==
  /\ AccountsApart
  /\ CyclesHeld
  /\ \A name \in Names : Len(name) = NameLen => NameCredited(name)
=============================================================================
