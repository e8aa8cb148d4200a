----------------------- MODULE CanisterLifecycleProofs -----------------------
(***************************************************************************)
(* Theorems about CanisterLifecycle, for any names, costs and bounds, and  *)
(* whichever calls fail: types, the events that upgrades keep, and what    *)
(* explains a log that is counted and was not stored.                      *)
(***************************************************************************)
EXTENDS CanisterLifecycle, CommonLemmas

\* What the events need: a closed database and an absent snapshot are empty,
\* and a database that is closed or cannot grow has a reason.
DatabaseExplained ==
  /\ ~db.open => db = Closed
  /\ ~snapshot.magic => snapshot = NoSnapshot
  /\ phase = "running" /\ ~db.open => "open" \in trouble
  /\ db.open /\ ~db.growable => "restored" \in trouble

\* The inductive invariant.
LifecycleInv ==
  LifecycleTypeOK /\ EventsKept /\ OvercountExplained /\ DatabaseExplained

---------------------------------------------------------------------------
(* Donations.                                                              *)

\* The lookup answers the position of an account whose name begins with what
\* was given, or 0 when there is none.
LEMMA FindInList ==
  ASSUME accounts \in Seq(Accounts), NEW name
  PROVE  LET i == find_protocol_account(name)
         IN  /\ i \in 0..Len(accounts)
             /\ i # 0 => IsPrefix(Cut(name), accounts[i].protocol_id)
             /\ i = 0 => \A j \in DOMAIN accounts :
                           ~IsPrefix(Cut(name), accounts[j].protocol_id)
<1> DEFINE I == { i \in 1..Len(accounts) : IsPrefix(Cut(name), accounts[i].protocol_id) }
<1>1. find_protocol_account(name) = IF I # {} THEN Min(I) ELSE 0
  BY DEF find_protocol_account, SelectInSeq
<1>2. Len(accounts) \in Nat /\ DOMAIN accounts = 1..Len(accounts)
  OBVIOUS
<1>3. CASE I = {}
  BY <1>1, <1>2, <1>3
<1>4. CASE I # {}
  <2>1. I \in SUBSET Nat
    BY <1>2
  <2>2. Min(I) \in I
    BY <1>4, <2>1, MinProperties
  <2>3. find_protocol_account(name) = Min(I)
    BY <1>1, <1>4
  <2>4. Min(I) # 0
    BY <1>2, <2>2
  <2>5. QED
    BY <1>2, <2>2, <2>3, <2>4
<1>5. QED
  BY <1>3, <1>4

LEMMA TierInRange ==
  ASSUME NEW b \in Nat
  PROVE  calculate_tier(b) \in 0..3
  BY DEF calculate_tier

LEMMA NewAccountTyped ==
  ASSUME NEW name \in Names
  PROVE  NewAccount(name) \in Accounts
<1>1. name \in Seq(Nat) /\ NameLen \in Nat
  BY LifecycleAssumption
<1>2. Cut(name) \in Seq(Nat)
  BY <1>1, SubSeqProperties DEF Cut
<1>3. QED
  BY <1>2 DEF NewAccount, Accounts

LEMMA AccountChanged ==
  ASSUME NEW b \in Accounts, NEW sum \in Nat, NEW tier \in 0..3
  PROVE  [b EXCEPT !.balance = sum, !.tier = tier] \in Accounts
  BY DEF Accounts

\* A donation keeps the table within its size and its accounts typed.
LEMMA DonateTyped ==
  ASSUME accounts \in Seq(Accounts), Len(accounts) <= MaxAccounts,
         NEW name \in Names, NEW amount \in Nat
  PROVE  /\ ouc_donate(name, amount) \in Seq(Accounts)
         /\ Len(ouc_donate(name, amount)) <= MaxAccounts
<1> DEFINE i == account_of(name)
           list == WithAccount(name)
           a == list[i]
           t == calculate_tier(a.balance + amount)
           new == [a EXCEPT !.balance = @ + amount, !.tier = IF t > a.tier THEN t ELSE a.tier]
<1>1. Len(accounts) \in Nat /\ MaxAccounts \in Nat
  BY LifecycleAssumption
<1>2. find_protocol_account(name) \in 0..Len(accounts)
  BY FindInList
<1>3. CASE i = 0
  BY <1>3 DEF ouc_donate
<1>4. CASE i # 0
  <2>1. /\ i \in 1..(Len(accounts) + 1)
        /\ i = Len(accounts) + 1 => Len(accounts) < MaxAccounts
    BY <1>1, <1>2, <1>4 DEF account_of
  <2>2. /\ list \in Seq(Accounts)
        /\ i \in 1..Len(list)
        /\ Len(list) <= MaxAccounts
    BY <1>1, <2>1, NewAccountTyped DEF WithAccount
  <2>3. a \in Accounts
    BY <2>2
  <2>4. /\ a.balance \in Nat /\ a.tier \in 0..3 /\ a.protocol_id \in Seq(Nat)
    BY <2>3 DEF Accounts
  <2>5. t \in 0..3
    BY <2>4, TierInRange
  <2> HIDE DEF i, t
  <2>6. new \in Accounts
    <3> DEFINE tier == IF t > a.tier THEN t ELSE a.tier
               sum  == a.balance + amount
    <3>1. tier \in 0..3 /\ sum \in Nat
      BY <2>4, <2>5
    <3> HIDE DEF a, tier, sum
    <3>2. [a EXCEPT !.balance = sum, !.tier = tier] \in Accounts
      BY <2>3, <3>1, AccountChanged
    <3>3. QED
      BY <3>2 DEF a, tier, sum
  <2>7. ouc_donate(name, amount) = [list EXCEPT ![i] = new]
    BY <1>4, <2>2 DEF ouc_donate, i, t
  <2> HIDE DEF list, new
  <2>8. QED
    BY <2>2, <2>6, <2>7
<1>5. QED
  BY <1>3, <1>4

---------------------------------------------------------------------------
(* The database and its snapshot, one operator of SqliteStore at a time.   *)

LEMMA ClosedTyped ==
  /\ Closed \in Databases /\ ~ Closed.open /\ Closed.rows = << >>
  /\ NoSnapshot \in Snapshots /\ ~ NoSnapshot.magic /\ NoSnapshot.rows = << >>
  BY DEF Closed, Databases, NoSnapshot, Snapshots

\* Opening keeps a database that is open, and else gives an empty one that
\* can grow, or fails.
LEMMA OpenTyped ==
  ASSUME NEW d \in Databases, NEW ok \in BOOLEAN, ~ d.open => d = Closed
  PROVE  /\ sql_open(d, ok) \in Databases
         /\ d.open => sql_open(d, ok) = d
         /\ ~ d.open => sql_open(d, ok).rows = << >>
         /\ ~ d.open => (sql_open(d, ok).open <=> ok)
         /\ ~ d.open /\ ok => sql_open(d, ok).growable
         /\ ~ d.open /\ ~ ok => sql_open(d, ok) = Closed
<1> DEFINE new == [Closed EXCEPT !.open = TRUE, !.growable = TRUE]
<1>1. new \in Databases /\ new.open /\ new.growable /\ new.rows = << >>
  BY ClosedTyped DEF Databases
<1> HIDE DEF new
<1>2. sql_open(d, ok) = IF d.open THEN d ELSE IF ok THEN new ELSE Closed
  BY DEF sql_open, sqlite3_open, new
<1>3. CASE d.open
  BY <1>2, <1>3
<1>4. CASE ~ d.open /\ ok
  BY <1>1, <1>2, <1>4
<1>5. CASE ~ d.open /\ ~ ok
  BY <1>2, <1>5, ClosedTyped
<1>6. QED
  BY <1>3, <1>4, <1>5

\* An insertion adds a row at the end and leaves the rest of the database.
LEMMA InsertTyped ==
  ASSUME NEW d \in Databases, HasSpace(d), NEW row \in Nat
  PROVE  /\ Insert(d, row) \in Databases
         /\ Insert(d, row).open
         /\ Insert(d, row).growable = d.growable
         /\ Insert(d, row).rows = Append(d.rows, row)
<1>1. /\ d.open \in BOOLEAN /\ d.growable \in BOOLEAN
      /\ d.rows \in Seq(Nat) /\ d.room \in Nat
  BY DEF Databases
<1>2. d.open /\ (d.growable \/ d.room > 0)
  BY DEF HasSpace
<1> DEFINE rows == Append(d.rows, row)
           room == IF d.growable THEN d.room ELSE d.room - 1
<1>3. rows \in Seq(Nat)
  BY <1>1
<1>4. room \in Nat
  <2>1. CASE d.growable
    BY <1>1, <2>1
  <2>2. CASE ~ d.growable
    BY <1>1, <1>2, <2>2
  <2>3. QED
    BY <2>1, <2>2
<1>5. Insert(d, row) = [d EXCEPT !.rows = rows, !.room = room]
  BY DEF Insert
<1> HIDE DEF rows, room
<1>6. /\ [d EXCEPT !.rows = rows, !.room = room] \in Databases
      /\ [d EXCEPT !.rows = rows, !.room = room].open = d.open
      /\ [d EXCEPT !.rows = rows, !.room = room].growable = d.growable
      /\ [d EXCEPT !.rows = rows, !.room = room].rows = rows
  BY <1>3, <1>4, Zenon DEF Databases
<1>7. QED
  BY <1>2, <1>5, <1>6, Zenon DEF rows

\* A load gives the rows of the snapshot in a database that cannot grow.
LEMMA LoadTyped ==
  ASSUME NEW s \in Snapshots, NEW room \in Nat, NEW ok \in BOOLEAN
  PROVE  /\ sqlite_stable_load(s, room, ok) \in Databases
         /\ sqlite_stable_load(s, room, ok).open <=> ok
         /\ ok => sqlite_stable_load(s, room, ok).rows = s.rows
         /\ ~ ok => sqlite_stable_load(s, room, ok) = Closed
<1> DEFINE new == [open |-> TRUE, rows |-> s.rows, growable |-> FALSE, room |-> room]
<1>1. s.rows \in Seq(Nat)
  BY DEF Snapshots
<1>2. new \in Databases /\ new.open /\ new.rows = s.rows
  BY <1>1 DEF Databases
<1> HIDE DEF new
<1>3. sqlite_stable_load(s, room, ok) = IF ok THEN new ELSE Closed
  BY DEF sqlite_stable_load, sql_deserialize, new
<1>4. CASE ok
  BY <1>2, <1>3, <1>4
<1>5. CASE ~ ok
  BY <1>3, <1>5, ClosedTyped
<1>6. QED
  BY <1>4, <1>5

LEMMA SaveTyped ==
  ASSUME NEW d \in Databases, NEW s \in Snapshots, NEW ok \in BOOLEAN
  PROVE  /\ sqlite_stable_save(d, s, ok) \in Snapshots
         /\ saves(d, ok) => /\ sqlite_stable_save(d, s, ok).magic
                            /\ sqlite_stable_save(d, s, ok).rows = d.rows
         /\ ~ saves(d, ok) => sqlite_stable_save(d, s, ok) = s
  BY DEF sqlite_stable_save, Snapshots, Databases

---------------------------------------------------------------------------
(* Rows.                                                                   *)

\* The numbers of the rows are those of the arrivals up to n, and ascend.
ArrivalsUpTo(rows, n) ==
  /\ \A i \in DOMAIN rows : rows[i] \in 1..n
  /\ \A i, j \in DOMAIN rows : i < j => rows[i] < rows[j]

LEMMA ArrivalsEmpty == \A n : ArrivalsUpTo(<< >>, n)
  BY DEF ArrivalsUpTo

LEMMA ArrivalsLater ==
  ASSUME NEW n \in Nat, NEW rows, ArrivalsUpTo(rows, n)
  PROVE  ArrivalsUpTo(rows, n + 1)
  BY DEF ArrivalsUpTo

LEMMA ArrivalsAppend ==
  ASSUME NEW n \in Nat, NEW rows \in Seq(Nat), ArrivalsUpTo(rows, n)
  PROVE  ArrivalsUpTo(Append(rows, n + 1), n + 1)
<1> DEFINE new == Append(rows, n + 1)
<1>1. /\ DOMAIN new = 1..Len(rows) + 1 /\ DOMAIN rows = 1..Len(rows)
      /\ Len(rows) \in Nat
      /\ \A i \in 1..Len(rows) : new[i] = rows[i]
      /\ new[Len(rows) + 1] = n + 1
  OBVIOUS
<1>2. /\ \A i \in 1..Len(rows) : rows[i] \in 1..n
      /\ \A i, j \in 1..Len(rows) : i < j => rows[i] < rows[j]
  BY <1>1 DEF ArrivalsUpTo
<1> HIDE DEF new
<1>3. ASSUME NEW i \in DOMAIN new
      PROVE  new[i] \in 1..(n + 1)
  <2>1. CASE i \in 1..Len(rows)
    BY <1>1, <1>2, <2>1
  <2>2. CASE i = Len(rows) + 1
    BY <1>1, <2>2
  <2>3. QED
    BY <1>1, <2>1, <2>2
<1>4. ASSUME NEW i \in DOMAIN new, NEW j \in DOMAIN new, i < j
      PROVE  new[i] < new[j]
  <2>1. i \in 1..Len(rows) /\ new[i] = rows[i] /\ rows[i] \in 1..n
    BY <1>1, <1>2, <1>4
  <2>2. CASE j \in 1..Len(rows)
    BY <1>1, <1>2, <1>4, <2>1, <2>2
  <2>3. CASE j = Len(rows) + 1
    BY <1>1, <2>1, <2>3
  <2>4. QED
    BY <1>1, <2>2, <2>3
<1>5. QED
  BY <1>3, <1>4 DEF ArrivalsUpTo, new

---------------------------------------------------------------------------
(* The invariant.                                                          *)

EventState == <<phase, initialized, db, snapshot, arrived, overcounted, trouble>>

\* A step that leaves the events alone has only the types to show.
LEMMA EventsUntouched ==
  ASSUME LifecycleInv, UNCHANGED EventState, LifecycleTypeOK'
  PROVE  LifecycleInv'
<1>1. Kept' = Kept
  BY DEF Kept, EventState
<1>2. EventsKept'
  BY <1>1 DEF LifecycleInv, EventsKept, Arrivals, EventState
<1>3. OvercountExplained'
  BY DEF LifecycleInv, OvercountExplained, EventState
<1>4. DatabaseExplained'
  BY DEF LifecycleInv, DatabaseExplained, EventState
<1>5. QED
  BY <1>2, <1>3, <1>4 DEF LifecycleInv

LEMMA InitEstablishes == Init => LifecycleInv
<1> SUFFICES ASSUME Init PROVE LifecycleInv
  OBVIOUS
<1>1. /\ phase = "empty" /\ ~ initialized /\ accounts = << >> /\ db = Closed
      /\ snapshot = NoSnapshot /\ arrived = 0 /\ trouble = {}
  BY DEF Init
<1>2. NothingGiven \in [Names -> Nat]
  BY DEF NothingGiven
<1>3. LifecycleTypeOK
  <2>1. accounts \in Seq(Accounts) /\ Len(accounts) <= MaxAccounts
    BY <1>1, LifecycleAssumption
  <2>2. initialized <=> db.open
    BY <1>1, ClosedTyped
  <2>3. initialized \in BOOLEAN
    BY Zenon DEF Init
  <2>4. /\ phase = "empty" /\ proposals = 0 /\ auditors = 0 /\ arrived = 0
        /\ overcounted = 0 /\ trouble = {} /\ given = NothingGiven /\ upgrades = 0
    BY DEF Init
  <2>5. db \in Databases /\ snapshot \in Snapshots /\ ~ db.open
    BY <1>1, ClosedTyped
  <2>6. QED
    BY <1>2, <2>1, <2>2, <2>3, <2>4, <2>5 DEF LifecycleTypeOK
<1>4. EventsKept
  <2>1. Kept = << >>
    BY <1>1, ClosedTyped DEF Kept
  <2>2. Arrivals(db.rows) /\ Arrivals(snapshot.rows)
    BY <1>1, ClosedTyped DEF Arrivals
  <2>3. QED
    BY <1>1, <2>1, <2>2 DEF EventsKept
<1>5. OvercountExplained
  BY DEF Init, OvercountExplained
<1>6. DatabaseExplained
  BY <1>1, ClosedTyped DEF DatabaseExplained
<1>7. QED
  BY <1>3, <1>4, <1>5, <1>6 DEF LifecycleInv

LEMMA SubmitKeeps == LifecycleInv /\ submitProposal => LifecycleInv'
<1> SUFFICES ASSUME LifecycleInv, submitProposal PROVE LifecycleInv'
  OBVIOUS
<1>1. UNCHANGED EventState
  BY DEF submitProposal, EventState
<1>2. LifecycleTypeOK'
  BY DEF LifecycleInv, LifecycleTypeOK, submitProposal
<1>3. QED
  BY <1>1, <1>2, EventsUntouched

LEMMA RegisterKeeps == LifecycleInv /\ registerAuditor => LifecycleInv'
<1> SUFFICES ASSUME LifecycleInv, registerAuditor PROVE LifecycleInv'
  OBVIOUS
<1>1. UNCHANGED EventState
  BY DEF registerAuditor, EventState
<1>2. LifecycleTypeOK'
  BY DEF LifecycleInv, LifecycleTypeOK, registerAuditor
<1>3. QED
  BY <1>1, <1>2, EventsUntouched

LEMMA DonateKeeps ==
  ASSUME LifecycleInv, NEW name \in Names, NEW amount \in Amounts, donate(name, amount)
  PROVE  LifecycleInv'
<1>1. UNCHANGED EventState
  BY DEF donate, EventState
<1>2. amount \in Nat
  BY LifecycleAssumption
<1>3. accounts' \in Seq(Accounts) /\ Len(accounts)' <= MaxAccounts
  BY <1>2, DonateTyped DEF LifecycleInv, LifecycleTypeOK, donate
<1>4. given' \in [Names -> Nat]
  BY <1>2 DEF LifecycleInv, LifecycleTypeOK, donate
<1>5. LifecycleTypeOK'
  BY <1>3, <1>4 DEF LifecycleInv, LifecycleTypeOK, donate
<1>6. QED
  BY <1>1, <1>5, EventsUntouched

---------------------------------------------------------------------------
(* The steps that touch the events.                                        *)

\* An event that is stored comes last and has the next number.
LEMMA StoreKeeps ==
  ASSUME LifecycleInv, phase = "running", NEW inserts \in BOOLEAN,
         doStoreTestEvent(inserts),
         UNCHANGED <<phase, statics, snapshot, given, upgrades>>,
         \/ UNCHANGED overcounted
         \/ overcounted' = IF HasSpace(db) /\ inserts THEN overcounted ELSE 1
  PROVE  LifecycleInv'
<1>1. /\ db \in Databases /\ snapshot \in Snapshots /\ arrived \in Nat
      /\ Arrivals(db.rows) /\ Arrivals(snapshot.rows)
      /\ trouble \subseteq {"restored", "insert"} => Len(db.rows) = arrived
      /\ trouble \subseteq {"open", "save", "load", "restored", "insert"}
  BY DEF LifecycleInv, LifecycleTypeOK, EventsKept, Kept
<1>2. /\ db.rows \in Seq(Nat)
      /\ trouble \subseteq trouble'
      /\ trouble' \subseteq {"open", "save", "load", "restored", "insert"}
      /\ HasSpace(db) /\ ~inserts => "insert" \in trouble'
      /\ trouble' \subseteq {"restored", "insert"} => Len(db.rows) = arrived
  BY <1>1 DEF Databases, doStoreTestEvent, Note
<1>3. overcounted' \in 0..1 /\ OvercountExplained'
  <2>1. CASE overcounted' = overcounted
    BY <1>2, <2>1 DEF LifecycleInv, LifecycleTypeOK, OvercountExplained
  <2>2. CASE overcounted' = 1 /\ ~ (HasSpace(db) /\ inserts)
    <3>1. trouble' \cap {"restored", "open", "insert"} # {}
      BY <1>2, <2>2 DEF LifecycleInv, DatabaseExplained, HasSpace
    <3>2. QED
      BY <2>2, <3>1 DEF OvercountExplained
  <2>3. QED
    BY <2>1, <2>2
<1>4. CASE HasSpace(db) /\ inserts
  <2>1. arrived' = arrived + 1 /\ db' = Insert(db, arrived + 1)
    BY <1>4 DEF doStoreTestEvent
  <2>2. /\ db' \in Databases /\ db'.open
        /\ db'.growable = db.growable
        /\ db'.rows = Append(db.rows, arrived + 1)
    BY <1>1, <1>4, <2>1, InsertTyped
  <2>3. db.open
    BY <1>4 DEF HasSpace
  <2>4. LifecycleTypeOK'
    BY <1>1, <1>2, <1>3, <2>1, <2>2, <2>3 DEF LifecycleInv, LifecycleTypeOK, statics
  <2>5. Arrivals(db.rows)'
    <3>1. ArrivalsUpTo(db.rows, arrived)
      BY <1>1 DEF Arrivals, ArrivalsUpTo
    <3>2. ArrivalsUpTo(Append(db.rows, arrived + 1), arrived + 1)
      BY <1>1, <1>2, <3>1, ArrivalsAppend
    <3>3. QED
      BY <2>1, <2>2, <3>2 DEF Arrivals, ArrivalsUpTo
  <2>6. Arrivals(snapshot.rows)'
    <3>1. ArrivalsUpTo(snapshot.rows, arrived)
      BY <1>1 DEF Arrivals, ArrivalsUpTo
    <3>2. ArrivalsUpTo(snapshot.rows, arrived + 1)
      BY <1>1, <3>1, ArrivalsLater
    <3>3. QED
      BY <2>1, <3>2 DEF Arrivals, ArrivalsUpTo
  <2>7. trouble' \subseteq {"restored", "insert"} => Len(Kept') = arrived'
    <3>1. Kept' = Append(db.rows, arrived + 1)
      BY <2>2 DEF Kept
    <3>2. Len(Kept') = Len(db.rows) + 1
      BY <1>2, <3>1
    <3>3. QED
      BY <1>2, <2>1, <3>2
  <2>8. DatabaseExplained'
    BY <1>2, <2>2, <2>3 DEF LifecycleInv, DatabaseExplained
  <2>9. QED
    BY <1>3, <2>4, <2>5, <2>6, <2>7, <2>8 DEF LifecycleInv, EventsKept
<1>5. CASE ~ (HasSpace(db) /\ inserts)
  <2>1. UNCHANGED <<arrived, db>>
    BY <1>5 DEF doStoreTestEvent
  <2>2. Kept' = Kept
    BY <2>1 DEF Kept
  <2>3. LifecycleTypeOK'
    BY <1>2, <1>3, <2>1 DEF LifecycleInv, LifecycleTypeOK, statics
  <2>4. EventsKept'
    BY <1>1, <1>2, <2>1, <2>2 DEF LifecycleInv, EventsKept, Arrivals, Kept
  <2>5. DatabaseExplained'
    BY <1>2, <2>1 DEF LifecycleInv, DatabaseExplained
  <2>6. QED
    BY <1>3, <2>3, <2>4, <2>5 DEF LifecycleInv
<1>6. QED
  BY <1>4, <1>5

LEMMA CanisterInitKeeps == LifecycleInv /\ canister_init => LifecycleInv'
<1> SUFFICES ASSUME LifecycleInv, canister_init PROVE LifecycleInv'
  OBVIOUS
<1>1. PICK opens \in BOOLEAN : /\ initGlobalState(Closed, opens)
                               /\ trouble' = Note("open", ~ opens)
  BY DEF canister_init
<1>2. /\ db' = sql_open(Closed, opens) /\ (initialized' = db'.open)
      /\ phase = "empty" /\ phase' = "running"
      /\ UNCHANGED <<proposals, auditors, accounts, snapshot, arrived, overcounted,
                     given, upgrades>>
  BY <1>1 DEF canister_init, initGlobalState
<1>3. /\ db' \in Databases /\ db'.rows = << >> /\ (db'.open <=> opens)
      /\ opens => db'.growable
      /\ ~ opens => db' = Closed
  BY <1>2, OpenTyped, ClosedTyped
<1>4. ~ db.open /\ db = Closed
  BY <1>2 DEF LifecycleInv, LifecycleTypeOK, DatabaseExplained
<1>5. /\ trouble \subseteq trouble'
      /\ ~ opens => "open" \in trouble'
      /\ trouble' \subseteq {"open", "save", "load", "restored", "insert"}
  BY <1>1 DEF Note, LifecycleInv, LifecycleTypeOK
<1>6. LifecycleTypeOK'
  <2>1. initialized' \in BOOLEAN
    BY <1>2, <1>3, Zenon DEF Databases
  <2>2. initialized' <=> db'.open
    BY <1>2
  <2>3. QED
    BY <1>2, <1>3, <1>5, <2>1, <2>2 DEF LifecycleInv, LifecycleTypeOK
<1>7. EventsKept'
  <2>1. Kept = << >> /\ Kept' = << >>
    BY <1>2, <1>3, <1>4, ClosedTyped DEF Kept
  <2>2. Arrivals(db.rows)' /\ Arrivals(snapshot.rows)'
    BY <1>2, <1>3 DEF Arrivals, LifecycleInv, EventsKept
  <2>3. QED
    BY <1>2, <1>5, <2>1, <2>2 DEF LifecycleInv, EventsKept
<1>8. OvercountExplained'
  BY <1>2, <1>5 DEF OvercountExplained, LifecycleInv
<1>9. DatabaseExplained'
  BY <1>2, <1>3, <1>5 DEF DatabaseExplained, LifecycleInv
<1>10. QED
  BY <1>6, <1>7, <1>8, <1>9 DEF LifecycleInv

\* The snapshot takes the rows over, or the failed save is on record.
LEMMA PreUpgradeKeeps == LifecycleInv /\ canister_pre_upgrade => LifecycleInv'
<1> SUFFICES ASSUME LifecycleInv, canister_pre_upgrade PROVE LifecycleInv'
  OBVIOUS
<1>1. PICK serializes \in BOOLEAN :
        /\ snapshot' = sqlite_stable_save(db, snapshot, serializes)
        /\ trouble' = Note("save", ~ saves(db, serializes))
  BY DEF canister_pre_upgrade
<1>2. /\ phase = "running" /\ phase' = "upgrading" /\ upgrades' = upgrades + 1
      /\ db' = Closed /\ ~ initialized'
      /\ proposals' = 0 /\ auditors' = 0 /\ accounts' = << >>
      /\ given' = NothingGiven
      /\ UNCHANGED <<arrived, overcounted>>
  BY DEF canister_pre_upgrade
<1>3. db \in Databases /\ snapshot \in Snapshots
  BY DEF LifecycleInv, LifecycleTypeOK
<1>4. /\ snapshot' \in Snapshots
      /\ saves(db, serializes) => snapshot'.magic /\ snapshot'.rows = db.rows
      /\ ~ saves(db, serializes) => snapshot' = snapshot
  BY <1>1, <1>3, SaveTyped
<1>5. /\ trouble \subseteq trouble'
      /\ ~ saves(db, serializes) => "save" \in trouble'
      /\ trouble' \subseteq {"open", "save", "load", "restored", "insert"}
  BY <1>1 DEF Note, LifecycleInv, LifecycleTypeOK
<1>6. LifecycleTypeOK'
  <2>1. initialized' \in BOOLEAN
    BY Zenon DEF canister_pre_upgrade
  <2>2. given' \in [Names -> Nat]
    BY <1>2 DEF NothingGiven
  <2>3. accounts' \in Seq(Accounts) /\ Len(accounts)' <= MaxAccounts
    BY <1>2, LifecycleAssumption
  <2>4. db' \in Databases /\ ~ db'.open
    BY <1>2, ClosedTyped
  <2>5. QED
    BY <1>2, <1>4, <1>5, <2>1, <2>2, <2>3, <2>4 DEF LifecycleInv, LifecycleTypeOK
<1>7. EventsKept'
  <2>1. Arrivals(db.rows)'
    BY <1>2, ClosedTyped DEF Arrivals
  <2>2. Arrivals(snapshot.rows)'
    <3>1. CASE saves(db, serializes)
      BY <1>2, <1>4, <3>1 DEF Arrivals, LifecycleInv, EventsKept
    <3>2. CASE ~ saves(db, serializes)
      BY <1>2, <1>4, <3>2 DEF Arrivals, LifecycleInv, EventsKept
    <3>3. QED
      BY <3>1, <3>2
  <2>3. ASSUME trouble' \subseteq {"restored", "insert"}
        PROVE  Len(Kept') = arrived'
    <3>1. saves(db, serializes) /\ trouble \subseteq {"restored", "insert"}
      BY <1>5, <2>3
    <3>2. Kept = db.rows /\ Kept' = db.rows
      BY <1>2, <1>4, <3>1 DEF Kept
    <3>3. QED
      BY <1>2, <3>1, <3>2 DEF LifecycleInv, EventsKept
  <2>4. QED
    BY <2>1, <2>2, <2>3 DEF EventsKept
<1>8. OvercountExplained'
  BY <1>2, <1>5 DEF OvercountExplained, LifecycleInv
<1>9. DatabaseExplained'
  <2>1. ~ snapshot'.magic => snapshot' = NoSnapshot
    BY <1>4 DEF LifecycleInv, DatabaseExplained
  <2>2. QED
    BY <1>2, <2>1, ClosedTyped DEF DatabaseExplained
<1>10. QED
  BY <1>6, <1>7, <1>8, <1>9 DEF LifecycleInv

\* The database is that of the snapshot, or an empty one for a reason.
LEMMA PostUpgradeKeeps == LifecycleInv /\ canister_post_upgrade => LifecycleInv'
<1> SUFFICES ASSUME LifecycleInv, canister_post_upgrade PROVE LifecycleInv'
  OBVIOUS
<1> DEFINE there == snapshot.magic
           Restored(loads, room) ==
             IF there THEN sqlite_stable_load(snapshot, room, loads) ELSE Closed
<1>1. PICK loads \in BOOLEAN, opens \in BOOLEAN, room \in Rooms :
        /\ initGlobalState(Restored(loads, room), opens)
        /\ trouble' = trouble \cup (IF Restored(loads, room).open THEN {"restored"} ELSE {})
                             \cup (IF there /\ ~ loads THEN {"load"} ELSE {})
                             \cup (IF ~ Restored(loads, room).open /\ ~ opens
                                     THEN {"open"} ELSE {})
  BY DEF canister_post_upgrade, sqlite_stable_has_snapshot
<1> DEFINE restored == Restored(loads, room)
<1>2. /\ db' = sql_open(restored, opens) /\ (initialized' = db'.open)
      /\ phase = "upgrading" /\ phase' = "running"
      /\ UNCHANGED <<proposals, auditors, accounts, snapshot, arrived, overcounted,
                     given, upgrades>>
  BY <1>1 DEF canister_post_upgrade, initGlobalState
<1>3. snapshot \in Snapshots /\ room \in Nat
  BY LifecycleAssumption DEF LifecycleInv, LifecycleTypeOK
<1>4. /\ restored \in Databases
      /\ restored.open <=> (there /\ loads)
      /\ restored.open => restored.rows = snapshot.rows
      /\ ~ restored.open => restored = Closed
  <2>1. CASE there
    BY <1>3, <2>1, LoadTyped, ClosedTyped
  <2>2. CASE ~ there
    BY <2>2, ClosedTyped
  <2>3. QED
    BY <2>1, <2>2
<1>5. /\ trouble \subseteq trouble'
      /\ restored.open => "restored" \in trouble'
      /\ there /\ ~ loads => "load" \in trouble'
      /\ ~ restored.open /\ ~ opens => "open" \in trouble'
      /\ trouble' \subseteq {"open", "save", "load", "restored", "insert"}
  BY <1>1 DEF LifecycleInv, LifecycleTypeOK
<1> HIDE DEF restored, Restored
<1>6. /\ db' \in Databases
      /\ restored.open => db' = restored
      /\ ~ restored.open => db'.rows = << >> /\ (db'.open <=> opens)
      /\ ~ restored.open /\ opens => db'.growable
      /\ ~ restored.open /\ ~ opens => db' = Closed
  BY <1>2, <1>4, OpenTyped
<1>7. LifecycleTypeOK'
  <2>1. initialized' \in BOOLEAN
    BY <1>2, <1>6, Zenon DEF Databases
  <2>2. initialized' <=> db'.open
    BY <1>2
  <2>3. QED
    BY <1>2, <1>5, <1>6, <2>1, <2>2 DEF LifecycleInv, LifecycleTypeOK
<1>8. EventsKept'
  <2>1. db'.rows = snapshot.rows \/ db'.rows = << >>
    BY <1>4, <1>6
  <2>2. Arrivals(db.rows)' /\ Arrivals(snapshot.rows)'
    BY <1>2, <2>1 DEF Arrivals, LifecycleInv, EventsKept
  <2>3. ASSUME trouble' \subseteq {"restored", "insert"}
        PROVE  Len(Kept') = arrived'
    <3>1. Len(snapshot.rows) = arrived
      BY <1>2, <1>5, <2>3 DEF LifecycleInv, EventsKept, Kept
    <3>2. CASE there
      BY <1>2, <1>4, <1>5, <1>6, <2>3, <3>1, <3>2 DEF Kept
    <3>3. CASE ~ there
      <4>1. snapshot.rows = << >>
        BY <3>3, ClosedTyped DEF LifecycleInv, DatabaseExplained
      <4>2. QED
        BY <1>2, <1>4, <1>6, <3>1, <3>3, <4>1 DEF Kept
    <3>4. QED
      BY <3>2, <3>3
  <2>4. QED
    BY <2>2, <2>3 DEF EventsKept
<1>9. OvercountExplained'
  BY <1>2, <1>5 DEF OvercountExplained, LifecycleInv
<1>10. DatabaseExplained'
  BY <1>2, <1>4, <1>5, <1>6 DEF DatabaseExplained, LifecycleInv
<1>11. QED
  BY <1>7, <1>8, <1>9, <1>10 DEF LifecycleInv

---------------------------------------------------------------------------
(* The theorems.                                                           *)

LEMMA StutterKeeps == LifecycleInv /\ UNCHANGED vars => LifecycleInv'
<1> SUFFICES ASSUME LifecycleInv, UNCHANGED vars PROVE LifecycleInv'
  OBVIOUS
<1>1. UNCHANGED EventState
  BY DEF vars, statics, EventState
<1>2. LifecycleTypeOK'
  BY DEF LifecycleInv, LifecycleTypeOK, vars, statics
<1>3. QED
  BY <1>1, <1>2, EventsUntouched

LEMMA NextKeeps == LifecycleInv /\ [Next]_vars => LifecycleInv'
<1> SUFFICES ASSUME LifecycleInv, [Next]_vars PROVE LifecycleInv'
  OBVIOUS
<1>1. CASE canister_init
  BY <1>1, CanisterInitKeeps
<1>2. CASE canister_pre_upgrade
  BY <1>2, PreUpgradeKeeps
<1>3. CASE canister_post_upgrade
  BY <1>3, PostUpgradeKeeps
<1>4. CASE submitProposal
  BY <1>4, SubmitKeeps
<1>5. CASE registerAuditor
  BY <1>5, RegisterKeeps
<1>6. CASE storeTestEvent
  BY <1>6, StoreKeeps DEF storeTestEvent
<1>7. CASE parse_and_store_log
  BY <1>7, StoreKeeps DEF parse_and_store_log
<1>8. ASSUME NEW name \in Names, NEW amount \in Amounts, donate(name, amount)
      PROVE  LifecycleInv'
  BY <1>8, DonateKeeps
<1>9. CASE UNCHANGED vars
  BY <1>9, StutterKeeps
<1>10. QED
  BY <1>1, <1>2, <1>3, <1>4, <1>5, <1>6, <1>7, <1>8, <1>9 DEF Next

\* Every step of canister_entry.c, an upgrade with failing calls included,
\* keeps the inductive invariant.
THEOREM LifecycleInvariance == Spec => []LifecycleInv
<1>1. QED
  BY InitEstablishes, NextKeeps, PTL DEF Spec

\* The statics, the database and the snapshot keep their types, the table of
\* accounts its size, and the flag says whether there is a database.
THEOREM LifecycleTypes == Spec => []LifecycleTypeOK
<1>1. LifecycleInv => LifecycleTypeOK
  BY DEF LifecycleInv
<1>2. QED
  BY <1>1, LifecycleInvariance, PTL

\* Upgrades bring back the events that were acknowledged, in order and once,
\* and all of them while pre_upgrade saves and post_upgrade loads and opens.
THEOREM EventsSurvive == Spec => []EventsKept
<1>1. LifecycleInv => EventsKept
  BY DEF LifecycleInv
<1>2. QED
  BY <1>1, LifecycleInvariance, PTL

\* A log that was counted and not stored met a database that an upgrade had
\* restored, or none.
THEOREM OvercountsExplained == Spec => []OvercountExplained
<1>1. LifecycleInv => OvercountExplained
  BY DEF LifecycleInv
<1>2. QED
  BY <1>1, LifecycleInvariance, PTL

---------------------------------------------------------------------------
(* What becomes of donations.                                              *)

\* Names in the table are cut, so that a complete name is found only where it
\* stands in full.
DonationsInv ==
  /\ \A i \in DOMAIN accounts : Len(accounts[i].protocol_id) <= NameLen
  /\ DonationsKept

\* A larger balance pays for at least the tier of a smaller one.
LEMMA TierMonotone ==
  ASSUME NEW b \in Nat, NEW c \in Nat, b <= c
  PROVE  calculate_tier(b) <= calculate_tier(c)
<1>1. TierCost[1] \in Nat /\ TierCost[2] \in Nat /\ TierCost[3] \in Nat
  BY LifecycleAssumption
<1> QED BY <1>1 DEF calculate_tier

TierAfter(acc, amount) ==
  LET t == calculate_tier(acc.balance + amount)
  IN  IF t > acc.tier THEN t ELSE acc.tier

\* A donation is taken by no account, by the one found, or by a new one.
LEMMA DonationShape ==
  ASSUME accounts \in Seq(Accounts), Len(accounts) <= MaxAccounts,
         NEW name \in Names, NEW amount \in Nat
  PROVE  LET n   == Len(accounts)
             i   == account_of(name)
             new == ouc_donate(name, amount)
         IN  \/ /\ i = 0 /\ new = accounts
                /\ n = MaxAccounts /\ find_protocol_account(name) = 0
             \/ \E acc \in Accounts :
                  /\ \/ i \in 1..n /\ i = find_protocol_account(name)
                        /\ acc = accounts[i] /\ Len(new) = n
                     \/ i = n + 1 /\ find_protocol_account(name) = 0
                        /\ acc = NewAccount(name) /\ Len(new) = n + 1
                  /\ new[i].protocol_id = acc.protocol_id
                  /\ new[i].balance = acc.balance + amount
                  /\ new[i].tier = TierAfter(acc, amount)
                  /\ \A k \in 1..n : k # i => new[k] = accounts[k]
<1> DEFINE n == Len(accounts)
           i == account_of(name)
           new == ouc_donate(name, amount)
           find == find_protocol_account(name)
           list == WithAccount(name)
           acc == list[i]
           t == calculate_tier(acc.balance + amount)
<1>1. n \in Nat /\ MaxAccounts \in Nat /\ find \in 0..n
  BY LifecycleAssumption, FindInList
<1>2. CASE i = 0
  BY <1>1, <1>2 DEF ouc_donate, account_of
<1>3. CASE i # 0
  <2>1. \/ i \in 1..n /\ i = find
        \/ i = n + 1 /\ find = 0
    BY <1>1, <1>3 DEF account_of
  <2>2. /\ list \in Seq(Accounts) /\ i \in 1..Len(list)
        /\ \A k \in 1..n : list[k] = accounts[k]
        /\ \/ i \in 1..n /\ i = find /\ acc = accounts[i] /\ Len(list) = n
           \/ i = n + 1 /\ find = 0 /\ acc = NewAccount(name) /\ Len(list) = n + 1
    BY <1>1, <2>1, NewAccountTyped DEF WithAccount
  <2>3. acc \in Accounts
    BY <2>2
  <2>4. new = [list EXCEPT ![i].balance = @ + amount,
                           ![i].tier = IF t > acc.tier THEN t ELSE acc.tier]
    BY <1>3 DEF ouc_donate
  <2> HIDE DEF i, list, t, new, find
  <2> DEFINE sum == acc.balance + amount
             tier == IF t > acc.tier THEN t ELSE acc.tier
             changed == [acc EXCEPT !.balance = sum, !.tier = tier]
  <2>5. new = [list EXCEPT ![i] = changed]
    BY <2>2, <2>4
  <2>6. /\ changed.protocol_id = acc.protocol_id
        /\ changed.balance = sum /\ changed.tier = tier
    <3> HIDE DEF sum, tier, acc
    <3> QED BY <2>3 DEF Accounts
  <2> HIDE DEF changed, sum, tier
  <2>7. /\ Len(new) = Len(list) /\ new[i] = changed
        /\ \A k \in 1..n : k # i => new[k] = accounts[k]
    BY <1>1, <2>2, <2>5
  <2>8. /\ new[i].protocol_id = acc.protocol_id
        /\ new[i].balance = acc.balance + amount
        /\ new[i].tier = TierAfter(acc, amount)
    BY <2>6, <2>7 DEF sum, tier, t, TierAfter
  <2> HIDE DEF acc
  <2> QED BY <2>2, <2>3, <2>7, <2>8 DEF i, t, new, find
<1> QED BY <1>2, <1>3

\* A complete name begins no other name of the table.
LEMMA CompleteName ==
  ASSUME NEW name \in Names, Len(name) = NameLen,
         NEW id \in Seq(Nat), Len(id) <= NameLen
  PROVE  IsPrefix(Cut(name), id) <=> id = name
<1>1. name \in Seq(Nat) /\ NameLen \in Nat
  BY LifecycleAssumption
<1>2. Cut(name) = name
  BY <1>1 DEF Cut
<1>3. IsPrefix(name, id) <=> /\ Len(name) <= Len(id)
                             /\ \A i \in 1..Len(name) : name[i] = id[i]
  <2>1. \A s, t \in Seq(Nat) : IsPrefix(s, t) <=> /\ Len(s) <= Len(t)
                                                 /\ \A i \in 1..Len(s) : s[i] = t[i]
    BY PrefixMeaning, Zenon
  <2> QED BY <1>1, <2>1, Zenon
<1>4. ASSUME Len(name) <= Len(id), \A i \in 1..Len(name) : name[i] = id[i]
      PROVE  id = name
  <2>1. Len(id) = Len(name)
    BY <1>1, <1>4
  <2> QED BY <1>1, <1>4, <2>1, SeqEqual
<1>5. IsPrefix(name, name)
  BY <1>1, PrefixMeaning
<1> QED BY <1>2, <1>3, <1>4, <1>5

\* The sums of the cycles that were taken and of those in the accounts are of
\* finitely many naturals.
Given == SumOver(given, Names)
Held == SumOver(Balances, DOMAIN accounts)

SumsOK ==
  /\ TotalOf(given) = Given /\ Given \in Nat
  /\ TotalOf(Balances) = Held /\ Held \in Nat
  /\ IsFiniteSet(DOMAIN accounts)
  /\ \A name \in Names : given[name] \in Nat
  /\ \A i \in DOMAIN accounts : /\ Balances[i] = accounts[i].balance
                                /\ Balances[i] \in Nat

LEMMA SumsNatural == LifecycleTypeOK => SumsOK
<1> SUFFICES ASSUME LifecycleTypeOK PROVE SumsOK
  OBVIOUS
<1>1. DOMAIN given = Names /\ \A name \in Names : given[name] \in Nat
  BY DEF LifecycleTypeOK
<1>2. TotalOf(given) = Given
  BY <1>1 DEF TotalOf, Given, SumOver
<1>3. IsFiniteSet(Names)
  BY LifecycleAssumption
<1>4. Given \in Nat
  BY <1>1, <1>3, SumOfEquals DEF Given
<1>5. DOMAIN Balances = DOMAIN accounts
  BY DEF Balances
<1>6. TotalOf(Balances) = Held
  BY <1>5 DEF TotalOf, Held, SumOver
<1>7. DOMAIN accounts = 1..Len(accounts) /\ Len(accounts) \in Nat
  BY DEF LifecycleTypeOK
<1>8. IsFiniteSet(DOMAIN accounts)
  BY <1>7, FS_Interval
<1>9. \A i \in DOMAIN accounts : accounts[i].balance \in Nat
  <2>1. \A i \in DOMAIN accounts : accounts[i] \in Accounts
    BY DEF LifecycleTypeOK
  <2> QED BY <2>1 DEF Accounts
<1>10. \A i \in DOMAIN accounts : Balances[i] = accounts[i].balance
  BY DEF Balances
<1>11. Held \in Nat
  BY <1>8, <1>9, <1>10, SumOfEquals DEF Held
<1> QED BY <1>1, <1>2, <1>4, <1>6, <1>8, <1>9, <1>10, <1>11 DEF SumsOK

LEMMA SameDifference ==
  ASSUME NEW h \in Nat, NEW h2 \in Nat, NEW b \in Nat, NEW b2 \in Nat,
         NEW amount \in Nat, b2 = b + amount, h + b2 = h2 + b
  PROVE  h2 = h + amount
  OBVIOUS

\* A donation that an account takes adds as much to the accounts as was given;
\* one that none takes finds the table full.
LEMMA DonationHeld ==
  ASSUME LifecycleTypeOK, LifecycleTypeOK', CyclesHeld,
         NEW name \in Names, NEW amount \in Nat, donate(name, amount)
  PROVE  CyclesHeld'
<1> DEFINE n == Len(accounts)
           n2 == Len(accounts')
           i == account_of(name)
<1>1. /\ accounts \in Seq(Accounts) /\ DOMAIN accounts = 1..n
      /\ accounts' \in Seq(Accounts) /\ DOMAIN accounts' = 1..n2
  BY DEF LifecycleTypeOK
<1>2. n \in Nat /\ n <= MaxAccounts /\ MaxAccounts \in Nat /\ n2 \in Nat
  <2>1. n <= MaxAccounts /\ MaxAccounts \in Nat
    BY LifecycleAssumption DEF LifecycleTypeOK
  <2> QED BY <1>1, <2>1
<1>3. /\ accounts' = ouc_donate(name, amount)
      /\ given' = [given EXCEPT ![name] = @ + amount]
      /\ given \in [Names -> Nat]
  BY DEF donate, LifecycleTypeOK
<1>4. SumsOK /\ SumsOK'
  BY SumsNatural, PTL
<1>5. Given' = Given + amount
  <2>1. /\ given[name] \in Nat /\ given'[name] = given[name] + amount /\ given'[name] \in Nat
        /\ \A x \in Names \ {name} : given[x] \in Nat /\ given[x] = given'[x]
    BY <1>3
  <2>2. IsFiniteSet(Names)
    BY LifecycleAssumption
  <2>3. SumOver(given, Names) + given'[name] = SumOver(given', Names) + given[name]
    BY <2>1, <2>2, SumChanges
  <2>4. Given + given'[name] = Given' + given[name]
    BY <2>3 DEF Given
  <2>5. Given \in Nat /\ Given' \in Nat
    BY <1>4 DEF SumsOK
  <2> QED BY <2>1, <2>4, <2>5
<1>6. /\ Given \in Nat /\ Held \in Nat /\ Given' \in Nat /\ Held' \in Nat
      /\ Given >= Held /\ (Given > Held => n = MaxAccounts)
  <2>1. /\ Given \in Nat /\ Held \in Nat /\ Given' \in Nat /\ Held' \in Nat
        /\ TotalOf(given) = Given /\ TotalOf(Balances) = Held
    BY <1>4 DEF SumsOK
  <2>2. Given - Held >= 0 /\ (Given - Held > 0 => n = MaxAccounts)
    BY <2>1 DEF CyclesHeld
  <2> QED BY <2>1, <2>2
<1>7. \/ Held' = Held + amount /\ (n = MaxAccounts => n2 = MaxAccounts)
      \/ Held' = Held /\ n2 = MaxAccounts
  <2>1. CASE accounts' = accounts /\ n = MaxAccounts
    BY <2>1 DEF Held, Balances
  <2>2. ASSUME NEW acc \in Accounts,
               i \in 1..n, acc = accounts[i], n2 = n,
               accounts'[i].balance = acc.balance + amount,
               \A k \in 1..n : k # i => accounts'[k] = accounts[k]
        PROVE  Held' = Held + amount /\ (n = MaxAccounts => n2 = MaxAccounts)
    <3> HIDE DEF i
    <3>1. /\ \A k \in 1..n : Balances[k] = accounts[k].balance /\ Balances[k] \in Nat
          /\ \A k \in 1..n : Balances'[k] = accounts'[k].balance /\ Balances'[k] \in Nat
      BY <1>1, <1>4, <2>2 DEF SumsOK
    <3>2. /\ Balances[i] \in Nat /\ Balances'[i] \in Nat
          /\ \A k \in (1..n) \ {i} : Balances[k] \in Nat /\ Balances[k] = Balances'[k]
      BY <2>2, <3>1
    <3>3. Balances'[i] = Balances[i] + amount
      BY <2>2, <3>1
    <3>4. IsFiniteSet(1..n)
      BY <1>2, FS_Interval
    <3>5. SumOver(Balances, 1..n) + Balances'[i] = SumOver(Balances', 1..n) + Balances[i]
      <4> DEFINE D == 1..n
                 f == Balances
                 g == Balances'
      <4>1. /\ IsFiniteSet(D) /\ i \in D /\ f[i] \in Nat /\ g[i] \in Nat
            /\ \A k \in D \ {i} : f[k] \in Nat /\ f[k] = g[k]
        BY <2>2, <3>2, <3>4
      <4> HIDE DEF D, f, g
      <4>2. SumOver(f, D) + g[i] = SumOver(g, D) + f[i]
        BY <4>1, SumChanges
      <4> QED BY <4>2 DEF D, f, g
    <3>6. Held + Balances'[i] = Held' + Balances[i]
      BY <1>1, <2>2, <3>5 DEF Held
    <3>7. Held' = Held + amount
      <4> DEFINE b == Balances[i]
                 b2 == Balances'[i]
                 h == Held
                 h2 == Held'
      <4>1. /\ b \in Nat /\ b2 \in Nat /\ b2 = b + amount
            /\ h \in Nat /\ h2 \in Nat /\ h + b2 = h2 + b
        BY <1>6, <3>2, <3>3, <3>6
      <4> HIDE DEF b, b2, h, h2
      <4>2. h2 = h + amount
        BY <4>1, SameDifference
      <4> QED BY <4>2 DEF h, h2
    <3> QED BY <2>2, <3>7
  <2>3. ASSUME NEW acc \in Accounts,
               i = n + 1, acc = NewAccount(name), n2 = n + 1,
               accounts'[i].balance = acc.balance + amount,
               \A k \in 1..n : k # i => accounts'[k] = accounts[k]
        PROVE  Held' = Held + amount /\ ~(n = MaxAccounts)
    <3> HIDE DEF i
    <3>1. /\ \A k \in 1..n : Balances[k] = accounts[k].balance /\ Balances[k] \in Nat
          /\ \A k \in 1..n2 : Balances'[k] = accounts'[k].balance /\ Balances'[k] \in Nat
      BY <1>1, <1>4, <2>3 DEF SumsOK
    <3>2. /\ i \notin 1..n /\ (1..n) \cup {i} = 1..n2 /\ i \in 1..n2
          /\ \A k \in 1..n : k \in 1..n2 /\ k # i
      BY <1>2, <2>3
    <3>3. \A k \in 1..n : Balances[k] \in Nat /\ Balances[k] = Balances'[k]
      BY <2>3, <3>1, <3>2
    <3>4. Balances'[i] = amount
      <4>1. acc.balance = 0
        BY <2>3 DEF NewAccount
      <4> QED BY <2>3, <3>1, <3>2, <4>1
    <3>5. IsFiniteSet(1..n)
      BY <1>2, FS_Interval
    <3>6. SumOver(Balances', (1..n) \cup {i}) = SumOver(Balances, 1..n) + Balances'[i]
      <4> DEFINE D == 1..n
                 D2 == D \cup {i}
                 f == Balances
                 g == Balances'
      <4>1. /\ IsFiniteSet(D) /\ i \notin D /\ g[i] \in Nat
            /\ \A k \in D : f[k] \in Nat /\ f[k] = g[k]
        BY <3>2, <3>3, <3>4, <3>5
      <4>2. D2 = D \cup {i}
        OBVIOUS
      <4> HIDE DEF D, D2, f, g
      <4>3. SumOver(g, D2) = SumOver(f, D) + g[i]
        BY <4>1, <4>2, SumGrows
      <4> QED BY <4>3 DEF D, D2, f, g
    <3>7. Held' = Held + amount
      BY <1>1, <3>2, <3>4, <3>6 DEF Held
    <3>8. n2 <= MaxAccounts
      BY DEF LifecycleTypeOK
    <3> QED BY <1>2, <2>3, <3>7, <3>8
  <2>4. \/ accounts' = accounts /\ n = MaxAccounts
        \/ \E acc \in Accounts :
             /\ \/ i \in 1..n /\ acc = accounts[i] /\ n2 = n
                \/ i = n + 1 /\ acc = NewAccount(name) /\ n2 = n + 1
             /\ accounts'[i].balance = acc.balance + amount
             /\ \A k \in 1..n : k # i => accounts'[k] = accounts[k]
    <3> HIDE DEF i
    <3> QED BY <1>1, <1>2, <1>3, DonationShape DEF i
  <2> HIDE DEF i, n, n2
  <2> QED BY <2>1, <2>2, <2>3, <2>4
<1>8. Given' >= Held' /\ (Given' > Held' => n2 = MaxAccounts)
  <2> HIDE DEF n, n2
  <2>1. CASE Held' = Held + amount /\ (n = MaxAccounts => n2 = MaxAccounts)
    <3>1. Given' >= Held' /\ (Given' > Held' <=> Given > Held)
      BY <1>5, <1>6, <2>1
    <3> QED BY <1>6, <2>1, <3>1
  <2>2. CASE Held' = Held /\ n2 = MaxAccounts
    BY <1>5, <1>6, <2>2
  <2> QED BY <1>7, <2>1, <2>2
<1>9. TotalOf(given)' = Given' /\ TotalOf(Balances)' = Held'
  BY <1>4 DEF SumsOK
<1>10. Given' - Held' >= 0 /\ (Given' - Held' > 0 => n2 = MaxAccounts)
  <2> DEFINE g == Given'
             h == Held'
  <2>1. g \in Nat /\ h \in Nat /\ g >= h /\ (g > h => n2 = MaxAccounts)
    BY <1>6, <1>8
  <2> HIDE DEF g, h, n2
  <2>2. g - h >= 0 /\ (g - h > 0 => g > h)
    BY <2>1
  <2>3. g - h >= 0 /\ (g - h > 0 => n2 = MaxAccounts)
    BY <2>1, <2>2
  <2> QED BY <2>3 DEF g, h, n2
<1> QED BY <1>9, <1>10 DEF CyclesHeld

\* A new name is one that no account has, and a tier follows its balance.
LEMMA DonationApart ==
  ASSUME LifecycleTypeOK, LifecycleTypeOK', DonationsInv,
         NEW name \in Names, NEW amount \in Nat, donate(name, amount)
  PROVE  /\ AccountsApart'
         /\ \A k \in DOMAIN accounts' : Len(accounts'[k].protocol_id) <= NameLen
<1> DEFINE n == Len(accounts)
           n2 == Len(accounts')
           i == account_of(name)
<1>1. /\ accounts \in Seq(Accounts) /\ DOMAIN accounts = 1..n
      /\ accounts' \in Seq(Accounts) /\ DOMAIN accounts' = 1..n2
      /\ n \in Nat /\ n2 \in Nat
  BY DEF LifecycleTypeOK
<1>2. accounts' = ouc_donate(name, amount) /\ Len(accounts) <= MaxAccounts
  BY DEF donate, LifecycleTypeOK
<1>3. /\ \A j, k \in 1..n : accounts[j].protocol_id = accounts[k].protocol_id => j = k
      /\ \A k \in 1..n : accounts[k].tier = calculate_tier(accounts[k].balance)
      /\ \A k \in 1..n : Len(accounts[k].protocol_id) <= NameLen
  BY <1>1 DEF DonationsInv, DonationsKept, AccountsApart
<1>4. CASE accounts' = accounts
  BY <1>1, <1>3, <1>4 DEF AccountsApart
<1>5. ASSUME NEW acc \in Accounts,
             /\ \/ i \in 1..n /\ acc = accounts[i] /\ n2 = n
                \/ /\ i = n + 1 /\ n2 = n + 1 /\ acc = NewAccount(name)
                   /\ find_protocol_account(name) = 0,
             accounts'[i].protocol_id = acc.protocol_id,
             accounts'[i].tier = TierAfter(acc, amount),
             accounts'[i].balance = acc.balance + amount,
             \A k \in 1..n : k # i => accounts'[k] = accounts[k]
      PROVE  AccountsApart' /\ \A k \in 1..n2 : Len(accounts'[k].protocol_id) <= NameLen
  <2>1. \A k \in 1..n2 : k = i \/ (k \in 1..n /\ accounts'[k] = accounts[k])
    <3> HIDE DEF i, n, n2
    <3>1. \A k \in 1..n2 : k = i \/ k \in 1..n
      BY <1>1, <1>5
    <3> QED BY <1>5, <3>1
  <2>2. /\ Len(acc.protocol_id) <= NameLen
        /\ acc.tier = calculate_tier(acc.balance)
        /\ \A k \in 1..n : k # i => accounts[k].protocol_id # acc.protocol_id
    <3>1. CASE i \in 1..n /\ acc = accounts[i]
      BY <1>3, <3>1
    <3>2. CASE acc = NewAccount(name) /\ find_protocol_account(name) = 0
      <4>1. /\ acc.protocol_id = Cut(name) /\ acc.balance = 0 /\ acc.tier = 0
        BY <3>2 DEF NewAccount
      <4>2. name \in Seq(Nat) /\ Len(name) \in Nat /\ NameLen \in Nat
        BY LifecycleAssumption
      <4>3. Cut(name) \in Seq(Nat) /\ Len(Cut(name)) <= NameLen
        BY <4>2, SubSeqProperties DEF Cut
      <4>4. calculate_tier(0) = 0
        <5>1. \A t \in 1..3 : TierCost[t] \in Nat \ {0}
          BY LifecycleAssumption
        <5>2. ~(0 >= TierCost[1]) /\ ~(0 >= TierCost[2]) /\ ~(0 >= TierCost[3])
          BY <5>1
        <5> QED BY <5>2 DEF calculate_tier
      <4>5. \A k \in 1..n : ~IsPrefix(Cut(name), accounts[k].protocol_id)
        BY <1>1, <3>2, FindInList
      <4>6. IsPrefix(Cut(name), Cut(name))
        BY <4>3, PrefixMeaning
      <4> QED BY <4>1, <4>3, <4>4, <4>5, <4>6
    <3> QED BY <1>5, <3>1, <3>2
  <2>3. accounts'[i].tier = calculate_tier(accounts'[i].balance)
    <3> DEFINE b == acc.balance
               t == calculate_tier(b + amount)
    <3>1. b \in Nat /\ b + amount \in Nat /\ b <= b + amount
      BY DEF Accounts
    <3>2. acc.tier \in 0..3 /\ t \in 0..3 /\ acc.tier <= t
      <4> HIDE DEF b
      <4>1. calculate_tier(b) <= calculate_tier(b + amount)
        BY <3>1, TierMonotone
      <4>2. calculate_tier(b) \in 0..3 /\ calculate_tier(b + amount) \in 0..3
        BY <3>1, TierInRange
      <4> QED BY <2>2, <4>1, <4>2 DEF b
    <3>3. accounts'[i].tier = IF t > acc.tier THEN t ELSE acc.tier
      BY <1>5 DEF TierAfter
    <3> HIDE DEF t
    <3>4. accounts'[i].tier = t
      BY <3>2, <3>3
    <3> QED BY <1>5, <3>4 DEF t
  <2> HIDE DEF i, n, n2
  <2>4. \A k \in 1..n2 : accounts'[k].tier = calculate_tier(accounts'[k].balance)
    BY <1>3, <2>1, <2>3
  <2>5. \A j, k \in 1..n2 :
          accounts'[j].protocol_id = accounts'[k].protocol_id => j = k
    BY <1>3, <1>5, <2>1, <2>2
  <2>6. \A k \in 1..n2 : Len(accounts'[k].protocol_id) <= NameLen
    BY <1>3, <1>5, <2>1, <2>2
  <2>7. AccountsApart'
    <3>1. /\ \A j, k \in DOMAIN accounts' :
               accounts'[j].protocol_id = accounts'[k].protocol_id => j = k
          /\ \A k \in DOMAIN accounts' :
               accounts'[k].tier = calculate_tier(accounts'[k].balance)
      BY <1>1, <2>4, <2>5
    <3> QED BY <3>1 DEF AccountsApart, calculate_tier
  <2> QED BY <2>6, <2>7
<1>6. \/ accounts' = accounts
      \/ \E acc \in Accounts :
           /\ \/ i \in 1..n /\ acc = accounts[i] /\ n2 = n
              \/ /\ i = n + 1 /\ n2 = n + 1 /\ acc = NewAccount(name)
                 /\ find_protocol_account(name) = 0
           /\ accounts'[i].protocol_id = acc.protocol_id
           /\ accounts'[i].tier = TierAfter(acc, amount)
           /\ accounts'[i].balance = acc.balance + amount
           /\ \A k \in 1..n : k # i => accounts'[k] = accounts[k]
  <2> HIDE DEF i
  <2> QED BY <1>1, <1>2, DonationShape DEF i
<1> HIDE DEF i, n, n2
<1>7. \A k \in DOMAIN accounts' : k \in 1..n2
  BY <1>1
<1> QED BY <1>4, <1>5, <1>6, <1>7

\* A complete name is found where it stands in full.
NamesCut ==
  /\ accounts \in Seq(Accounts)
  /\ \A i \in DOMAIN accounts : Len(accounts[i].protocol_id) <= NameLen

FoundInFull(name) ==
  LET i == find_protocol_account(name)
  IN  /\ i = 0 <=> \A j \in DOMAIN accounts : accounts[j].protocol_id # name
      /\ i # 0 => i \in DOMAIN accounts /\ accounts[i].protocol_id = name

CompleteFound == \A name \in Names : Len(name) = NameLen => FoundInFull(name)

LEMMA FindComplete == NamesCut => CompleteFound
<1> SUFFICES ASSUME NamesCut, NEW name \in Names, Len(name) = NameLen
             PROVE  FoundInFull(name)
  BY DEF CompleteFound
<1> DEFINE i == find_protocol_account(name)
<1>1. /\ i \in 0..Len(accounts) /\ Len(accounts) \in Nat
      /\ DOMAIN accounts = 1..Len(accounts)
      /\ i # 0 => IsPrefix(Cut(name), accounts[i].protocol_id)
      /\ i = 0 => \A j \in DOMAIN accounts :
                    ~IsPrefix(Cut(name), accounts[j].protocol_id)
  BY FindInList DEF NamesCut
<1> HIDE DEF i
<1>2. i # 0 => i \in DOMAIN accounts
  BY <1>1
<1>3. ASSUME NEW j \in DOMAIN accounts
      PROVE  IsPrefix(Cut(name), accounts[j].protocol_id)
               <=> accounts[j].protocol_id = name
  <2> DEFINE id == accounts[j].protocol_id
  <2>1. accounts[j] \in Accounts
    BY <1>3 DEF NamesCut
  <2>2. id \in Seq(Nat) /\ Len(id) <= NameLen
    BY <2>1 DEF NamesCut, Accounts
  <2> HIDE DEF id
  <2>3. IsPrefix(Cut(name), id) <=> id = name
    BY <2>2, CompleteName
  <2> QED BY <2>3 DEF id
<1> QED BY <1>1, <1>2, <1>3 DEF i, FoundInFull

\* A complete name keeps what was taken under it, in its account or, once the
\* table is full, nowhere.
LEMMA DonationCredited ==
  ASSUME LifecycleTypeOK, LifecycleTypeOK', DonationsInv,
         \A k \in DOMAIN accounts' : Len(accounts'[k].protocol_id) <= NameLen,
         NEW name \in Names, NEW amount \in Nat, donate(name, amount),
         NEW other \in Names, Len(other) = NameLen, NameCredited(other)
  PROVE  NameCredited(other)'
<1> DEFINE n == Len(accounts)
           n2 == Len(accounts')
           i == account_of(name)
<1>1. /\ accounts \in Seq(Accounts) /\ DOMAIN accounts = 1..n
      /\ accounts' \in Seq(Accounts) /\ DOMAIN accounts' = 1..n2
      /\ n \in Nat /\ n2 \in Nat
  BY DEF LifecycleTypeOK
<1>2. accounts' = ouc_donate(name, amount) /\ n <= MaxAccounts /\ n2 <= MaxAccounts
  BY DEF donate, LifecycleTypeOK
<1>3. /\ given[other] \in Nat /\ given[name] \in Nat
      /\ given'[other] = IF other = name THEN given[other] + amount ELSE given[other]
  BY DEF donate, LifecycleTypeOK
<1>4. /\ \A j, k \in 1..n : accounts[j].protocol_id = accounts[k].protocol_id => j = k
      /\ \A k \in 1..n : Len(accounts[k].protocol_id) <= NameLen
      /\ \A k \in 1..n : accounts[k].balance \in Nat
  <2>1. \A k \in 1..n : accounts[k] \in Accounts
    BY <1>1
  <2> QED BY <1>1, <2>1 DEF DonationsInv, DonationsKept, AccountsApart, Accounts
<1>5. NamesCut /\ NamesCut'
  BY <1>1, <1>4 DEF NamesCut
<1> DEFINE absent == \A k \in 1..n : accounts[k].protocol_id # other
           found2 == \E k \in 1..n2 : /\ accounts'[k].protocol_id = other
                                      /\ accounts'[k].balance >= given'[other]
           absent2 == \A k \in 1..n2 : accounts'[k].protocol_id # other
<1>6. found2 \/ given'[other] = 0 \/ (n2 = MaxAccounts /\ absent2) => NameCredited(other)'
  <2>1. FoundInFull(other)'
    <3>1. CompleteFound'
      BY <1>5, FindComplete, PTL
    <3> QED BY <3>1 DEF CompleteFound
  <2>2. (find_protocol_account(other) = 0)' <=> absent2
    BY <1>1, <2>1 DEF FoundInFull
  <2> QED BY <1>1, <2>2 DEF NameCredited
<1>7. \/ \E k \in 1..n : /\ accounts[k].protocol_id = other
                         /\ accounts[k].balance >= given[other]
      \/ given[other] = 0 /\ absent
      \/ n = MaxAccounts /\ absent
  <2>1. FoundInFull(other)
    BY <1>5, FindComplete DEF CompleteFound
  <2>2. absent \/ \E k \in 1..n : accounts[k].protocol_id = other
    OBVIOUS
  <2>3. given[other] = 0 => \A k \in 1..n : accounts[k].balance >= given[other]
    BY <1>4
  <2> QED BY <1>1, <2>1, <2>2, <2>3 DEF NameCredited, FoundInFull
<1>8. CASE accounts' = accounts /\ n = MaxAccounts /\ find_protocol_account(name) = 0
  <2>1. CASE absent
    BY <1>6, <1>8, <2>1
  <2>2. ASSUME NEW k \in 1..n, accounts[k].protocol_id = other,
               accounts[k].balance >= given[other]
        PROVE  found2
    <3>1. other # name
      <4>1. other = name => FoundInFull(name)
        BY <1>5, FindComplete DEF CompleteFound
      <4> QED BY <1>1, <1>8, <2>2, <4>1 DEF FoundInFull
    <3> QED BY <1>3, <1>8, <2>2, <3>1
  <2> HIDE DEF found2, absent
  <2> QED BY <1>6, <1>7, <2>1, <2>2
<1>9. ASSUME NEW acc \in Accounts,
             /\ \/ i \in 1..n /\ i = find_protocol_account(name)
                   /\ acc = accounts[i] /\ n2 = n
                \/ /\ i = n + 1 /\ n2 = n + 1 /\ acc = NewAccount(name)
                   /\ find_protocol_account(name) = 0,
             accounts'[i].protocol_id = acc.protocol_id,
             accounts'[i].balance = acc.balance + amount,
             \A k \in 1..n : k # i => accounts'[k] = accounts[k]
      PROVE  NameCredited(other)'
  <2>1. /\ i \in 1..n2 /\ 1..n \subseteq 1..n2
        /\ \A k \in 1..n2 : k = i \/ k \in 1..n
    <3> HIDE DEF i, n, n2
    <3> QED BY <1>1, <1>9
  <2>2. acc.balance \in Nat
    BY DEF Accounts
  <2>3. i \in 1..n => acc = accounts[i] /\ i = find_protocol_account(name) /\ n2 = n
    <3> HIDE DEF i, n, n2
    <3> QED BY <1>1, <1>9
  <2>4. FoundInFull(other) /\ CompleteFound
    BY <1>5, FindComplete DEF CompleteFound
  <2>5. n2 = n + 1 => n < MaxAccounts
    <3> HIDE DEF n, n2
    <3> QED BY <1>1, <1>2, LifecycleAssumption
  <2> HIDE DEF i
  \* An account of this name keeps its name and does not lose.
  <2>6. ASSUME NEW k \in 1..n, accounts[k].protocol_id = other,
               accounts[k].balance >= given[other]
        PROVE  found2
    <3>1. accounts'[k].protocol_id = other
      BY <1>9, <2>3, <2>6
    <3>2. CASE k = i
      <4>1. accounts'[k].balance = accounts[k].balance + amount
        BY <1>9, <2>3, <3>2
      <4>2. accounts[k].balance \in Nat
        BY <1>4
      <4>3. accounts'[k].balance >= given'[other]
        BY <1>3, <2>6, <4>1, <4>2
      <4> QED BY <2>1, <3>1, <4>3
    <3>3. CASE k # i
      <4>1. accounts'[k] = accounts[k]
        BY <1>9, <3>3
      <4>2. other # name
        <5> SUFFICES ASSUME other = name PROVE FALSE
          OBVIOUS
        <5> DEFINE f == find_protocol_account(name)
        <5>1. f \in 1..n /\ accounts[f].protocol_id = other /\ f # 0
          BY <1>1, <2>4, <2>6 DEF FoundInFull
        <5>2. i = f
          BY <1>9, <5>1
        <5> QED BY <1>4, <2>6, <3>3, <5>1, <5>2
      <4> QED BY <1>3, <2>1, <2>6, <4>1, <4>2
    <3> QED BY <3>2, <3>3
  <2>7. CASE absent /\ other # name
    <3>1. CASE given[other] = 0
      BY <1>3, <1>6, <2>7, <3>1
    <3>2. CASE n = MaxAccounts
      <4>1. n2 = n /\ i \in 1..n /\ acc = accounts[i]
        <5> HIDE DEF n, n2
        <5> QED BY <1>1, <1>9, <2>3, <2>5, <3>2
      <4>2. absent2
        BY <1>9, <2>7, <4>1
      <4> QED BY <1>6, <3>2, <4>1, <4>2
    <3> HIDE DEF absent, found2
    <3> QED BY <1>7, <2>6, <1>6, <3>1, <3>2
  <2>8. CASE absent /\ other = name
    <3>1. find_protocol_account(name) = 0
      BY <1>1, <2>4, <2>8 DEF FoundInFull
    <3>2. i = n + 1 /\ n2 = n + 1 /\ acc = NewAccount(name)
      <4>1. ~(i \in 1..n /\ i = 0)
        BY <1>1
      <4> HIDE DEF n, n2
      <4> QED BY <1>9, <3>1, <4>1
    <3>3. n # MaxAccounts
      <4> HIDE DEF n, n2
      <4> QED BY <1>1, <2>5, <3>2, LifecycleAssumption
    <3>4. given[other] = 0
      BY <1>7, <2>8, <3>3
    <3>5. acc.protocol_id = other /\ acc.balance = 0
      <4>1. Cut(name) = name
        BY <2>8, LifecycleAssumption DEF Cut
      <4> QED BY <2>8, <3>2, <4>1 DEF NewAccount
    <3>6. accounts'[i].protocol_id = other /\ accounts'[i].balance >= given'[other]
      BY <1>3, <1>9, <2>8, <3>4, <3>5
    <3> QED BY <1>6, <2>1, <3>6
  <2> HIDE DEF found2, absent
  <2> QED BY <1>6, <1>7, <2>6, <2>7, <2>8
<1>10. \/ accounts' = accounts /\ n = MaxAccounts /\ find_protocol_account(name) = 0
       \/ \E acc \in Accounts :
            /\ \/ i \in 1..n /\ i = find_protocol_account(name)
                  /\ acc = accounts[i] /\ n2 = n
               \/ /\ i = n + 1 /\ n2 = n + 1 /\ acc = NewAccount(name)
                  /\ find_protocol_account(name) = 0
            /\ accounts'[i].protocol_id = acc.protocol_id
            /\ accounts'[i].balance = acc.balance + amount
            /\ \A k \in 1..n : k # i => accounts'[k] = accounts[k]
  <2> HIDE DEF i
  <2>1. accounts \in Seq(Accounts) /\ Len(accounts) <= MaxAccounts
    BY <1>1, <1>2
  <2>2. \/ /\ i = 0 /\ accounts' = accounts
           /\ n = MaxAccounts /\ find_protocol_account(name) = 0
        \/ \E acc \in Accounts :
             /\ \/ i \in 1..n /\ i = find_protocol_account(name)
                   /\ acc = accounts[i] /\ n2 = n
                \/ i = n + 1 /\ find_protocol_account(name) = 0
                   /\ acc = NewAccount(name) /\ n2 = n + 1
             /\ accounts'[i].protocol_id = acc.protocol_id
             /\ accounts'[i].balance = acc.balance + amount
             /\ accounts'[i].tier = TierAfter(acc, amount)
             /\ \A k \in 1..n : k # i => accounts'[k] = accounts[k]
    BY <1>2, <2>1, DonationShape DEF i
  <2> HIDE DEF n, n2
  <2> QED BY <2>2, Zenon
<1> HIDE DEF i, n, n2
<1> QED BY <1>8, <1>9, <1>10

\* Without accounts and with nothing given, nothing is missing.
NoDonations == accounts = << >> /\ given = NothingGiven

LEMMA NothingMissing == NoDonations => DonationsInv
<1> SUFFICES ASSUME NoDonations PROVE DonationsInv
  OBVIOUS
<1>1. DOMAIN accounts = {} /\ DOMAIN given = Names /\ \A name \in Names : given[name] = 0
  BY DEF NoDonations, NothingGiven
<1>2. TotalOf(given) = 0
  <2>1. TotalOf(given) = SumOver(given, Names)
    BY <1>1 DEF TotalOf, SumOver
  <2>2. IsFiniteSet(Names)
    BY LifecycleAssumption
  <2> QED BY <1>1, <2>1, <2>2, SumOfZeros
<1>3. TotalOf(Balances) = 0
  <2>1. DOMAIN Balances = {}
    BY <1>1 DEF Balances
  <2>2. TotalOf(Balances) = SumOver(Balances, {})
    BY <2>1 DEF TotalOf, SumOver
  <2> QED BY <2>2, SumOfNone
<1>4. CyclesHeld
  BY <1>2, <1>3 DEF CyclesHeld
<1>5. AccountsApart
  BY <1>1 DEF AccountsApart
<1>6. \A name \in Names : NameCredited(name)
  BY <1>1 DEF NameCredited
<1> QED BY <1>1, <1>4, <1>5, <1>6 DEF DonationsInv, DonationsKept

LEMMA DonationsUntouched ==
  ASSUME DonationsInv, UNCHANGED <<accounts, given>>
  PROVE  DonationsInv'
<1>1. AccountsApart' /\ CyclesHeld' /\ Balances' = Balances
  BY DEF DonationsInv, DonationsKept, AccountsApart, CyclesHeld, Balances
<1>2. \A name \in Names : NameCredited(name)' <=> NameCredited(name)
  <2>1. ASSUME NEW name \in Names
        PROVE  find_protocol_account(name)' = find_protocol_account(name)
    BY DEF find_protocol_account, SelectInSeq
  <2> QED BY <2>1 DEF NameCredited
<1> QED BY <1>1, <1>2 DEF DonationsInv, DonationsKept

\* Cycles that were taken under a name are in its account for as long as the
\* table of accounts has room, and the tiers are those they pay for.
THEOREM DonationsAlwaysKept == Spec => []DonationsKept
<1>1. Init => DonationsInv
  <2>1. Init => NoDonations
    BY DEF Init, NoDonations
  <2> QED BY <2>1, NothingMissing
<1>2. LifecycleTypeOK /\ LifecycleTypeOK' /\ DonationsInv /\ [Next]_vars => DonationsInv'
  <2> SUFFICES ASSUME LifecycleTypeOK, LifecycleTypeOK', DonationsInv, [Next]_vars
               PROVE  DonationsInv'
    OBVIOUS
  <2>1. CASE canister_pre_upgrade
    <3>1. NoDonations'
      BY <2>1 DEF canister_pre_upgrade, NoDonations, NothingGiven
    <3> QED BY <3>1, NothingMissing, PTL
  <2>2. ASSUME NEW name \in Names, NEW amount \in Amounts, donate(name, amount)
        PROVE  DonationsInv'
    <3>1. amount \in Nat
      BY LifecycleAssumption
    <3>2. /\ AccountsApart'
          /\ \A k \in DOMAIN accounts' : Len(accounts'[k].protocol_id) <= NameLen
      BY <2>2, <3>1, DonationApart
    <3>3. CyclesHeld'
      BY <2>2, <3>1, DonationHeld DEF DonationsInv, DonationsKept
    <3>4. ASSUME NEW other \in Names, Len(other) = NameLen
          PROVE  NameCredited(other)'
      <4>1. NameCredited(other)
        BY <3>4 DEF DonationsInv, DonationsKept
      <4> QED BY <2>2, <3>1, <3>2, <3>4, <4>1, DonationCredited
    <3> QED BY <3>2, <3>3, <3>4 DEF DonationsInv, DonationsKept
  <2>3. CASE \/ canister_init \/ canister_post_upgrade
             \/ submitProposal \/ registerAuditor
             \/ storeTestEvent \/ parse_and_store_log \/ UNCHANGED vars
    <3>1. UNCHANGED <<accounts, given>>
      BY <2>3 DEF canister_init, canister_post_upgrade, submitProposal, registerAuditor,
                  storeTestEvent, parse_and_store_log, vars, statics
    <3> QED BY <3>1, DonationsUntouched
  <2> QED BY <2>1, <2>2, <2>3 DEF Next
<1>3. DonationsInv => DonationsKept
  BY DEF DonationsInv
<1> QED BY <1>1, <1>2, <1>3, LifecycleTypes, PTL DEF Spec
=============================================================================
