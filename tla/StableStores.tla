---------------------------- MODULE StableStores ----------------------------
(***************************************************************************)
(* The two key-value stores over stable memory: STKV (ic0_stubs.c), a list *)
(* of entries searched from the front, and STBT (stable_btree.c), a tree   *)
(* that never splits its root and so is one sorted leaf, with a scan over  *)
(* the keys that have a prefix.  Both keep their header at offset 0 and a  *)
(* copy of it in static variables, which an upgrade of the canister        *)
(* clears.  They exclude each other: the first one used formats the memory *)
(* and the other is then never called, see OwnsMemory.                     *)
(*                                                                         *)
(* Keys and values are sequences of bytes, because prefixes, order and     *)
(* sizes decide what the code does.  A write beyond the end of stable      *)
(* memory, also one that follows a refused grow, traps and undoes the      *)
(* whole message: it is no step.                                           *)
(***************************************************************************)
EXTENDS Integers, Sequences, SequencesExt

CONSTANTS
  Keys,         \* keys a caller may name
  Values,       \* values a caller may store
  ScanPrefixes, \* prefixes a caller may scan for
  MaxKeySize,   \* STBT_MAX_KEY_SIZE and the key buffer of STKV, 256 in the code
  MaxValSize,   \* STBT_MAX_VAL_SIZE, 1024 in the code
  LeafLimit,    \* STBT_PAGE_SIZE - 64, 4032 in the code
  MaxEntries    \* bound on the entries appended to STKV

ASSUME StoresAssumption ==
  /\ Keys \subseteq Seq(Nat) /\ Values \subseteq Seq(Nat)
  /\ ScanPrefixes \subseteq Seq(Nat)
  /\ MaxKeySize \in Nat /\ MaxValSize \in Nat
  /\ LeafLimit \in Nat /\ MaxEntries \in Nat

VARIABLES
  stable,   \* stable memory: pages grown, magic, entry count, entries
  stkv,     \* statics of STKV: stkv_initialized, stkv_count
  stbt,     \* statics of STBT: stbt_initialized, stbt_header.entry_count
  scan,     \* statics of the scan: scan_active, scan_leaf_offset, scan_prefix; the
            \* offset is read only while a scan is active, and 0 otherwise
  epoch,    \* flips whenever a store is cleared
  reader    \* the caller of the scan: the keys it was given, whether no entry
            \* moved and no other scan began since, and whether it was told
            \* that there are no more

vars == <<stable, stkv, stbt, scan, epoch, reader>>

Entry(key, val) == [key |-> key, val |-> val]
Entries == [key : Keys, val : Values]

\* The memory after a store has written its empty header.
Formatted(magic) == [grown |-> TRUE, magic |-> magic, count |-> 0, entries |-> << >>]

\* Assumption on the users: one store per canister.
OwnsMemory(magic) == stable.magic \in {"", magic}

NoScan   == [active |-> FALSE, offset |-> 0, prefix |-> << >>]
NoReader == [seen |-> << >>, undisturbed |-> FALSE, ended |-> FALSE]

---------------------------------------------------------------------------
(* STKV.  stkv_next_free is where entry stkv_count ends, so the count      *)
(* stands for both; what lies behind it is never read.                     *)

stkv_init_if_needed ==
  IF stkv.initialized \/ stable.magic = "STKV" THEN stable ELSE Formatted("STKV")

\* Mutated form: of a header in memory only the magic is looked at.
StkvCountForgotten == IF stkv.initialized THEN stkv.count ELSE 0

\* stkv_count, after stkv_init_if_needed.
stkv_count == IF stkv.initialized THEN stkv.count ELSE stkv_init_if_needed.count

\* The entries a linear scan from the front reads.
stkv_entries == SubSeq(stkv_init_if_needed.entries, 1, stkv_count)

\* Position of the first entry of the key, 0 when there is none: a key longer
\* than the buffer never matches.
stkv_find(key) ==
  IF Len(key) <= MaxKeySize THEN SelectInSeq(stkv_entries, LAMBDA e : e.key = key)
                            ELSE 0

(* A value of the old size is overwritten in place.  Otherwise an entry is *)
(* appended, although stkv_get will go on finding the first one.           *)
stkv_put(key, val) ==
  LET i == stkv_find(key)
      entries == IF i > 0 /\ Len(stkv_entries[i].val) = Len(val)
                   THEN [stkv_entries EXCEPT ![i].val = val]
                   ELSE Append(stkv_entries, Entry(key, val))
  IN  /\ OwnsMemory("STKV") /\ Len(entries) <= MaxEntries
      /\ stable' = [stkv_init_if_needed EXCEPT !.count = Len(entries),
                                               !.entries = entries]
      /\ stkv' = [initialized |-> TRUE, count |-> Len(entries)]
      /\ UNCHANGED <<stbt, scan, epoch, reader>>

\* stkv_get and stkv_count_entries change nothing but the statics; stkv_delete
\* changes nothing at all.
stkv_get ==
  /\ OwnsMemory("STKV") /\ ~stkv.initialized
  /\ stable' = stkv_init_if_needed
  /\ stkv' = [initialized |-> TRUE, count |-> stkv_count]
  /\ UNCHANGED <<stbt, scan, epoch, reader>>

\* The header is flushed without the header in memory having been read.
stkv_clear ==
  /\ OwnsMemory("STKV") /\ stable.grown
  /\ stable' = Formatted("STKV")
  /\ stkv' = [stkv EXCEPT !.count = 0]
  /\ epoch' = ~epoch
  /\ UNCHANGED <<stbt, scan, reader>>

---------------------------------------------------------------------------
(* STBT.                                                                   *)

stbt_init_if_needed ==
  IF stbt.initialized \/ stable.magic = "STBT" THEN stable ELSE Formatted("STBT")

\* stbt_header.entry_count, after stbt_init_if_needed.
stbt_count == IF stbt.initialized THEN stbt.count ELSE stbt_init_if_needed.count

Leaf == stbt_init_if_needed.entries

\* The order of the keys: byte by byte, a prefix before what it is a prefix of.
stbt_key_less(k1, k2) ==
  \E i \in DOMAIN k2 :
    /\ \A j \in 1..(i - 1) : j \in DOMAIN k1 /\ k1[j] = k2[j]
    /\ i \in DOMAIN k1 => k1[i] < k2[i]

entry_size(e) == 4 + Len(e.key) + Len(e.val)

\* Offset at which entry i of a leaf begins: 11 bytes of header come first.
\* At Len(leaf) + 1 this is stbt_leaf_used_space.
OffsetOf(leaf, i) ==
  LET offset[j \in 1..i] ==
        IF j = 1 THEN 11 ELSE offset[j - 1] + entry_size(leaf[j - 1])
  IN  offset[i]

\* Mutated form: a new key is put behind the keys that are there.
LeafFindEnd(key) ==
  LET i == SelectInSeq(Leaf, LAMBDA e : e.key = key)
  IN  IF i > 0 THEN i ELSE Len(Leaf) + 1

\* The position of the key, or the one at which it belongs.
stbt_leaf_find(key) ==
  LET i == SelectInSeq(Leaf, LAMBDA e : ~stbt_key_less(e.key, key))
  IN  IF i > 0 THEN i ELSE Len(Leaf) + 1

found(key) ==
  LET i == stbt_leaf_find(key) IN i <= Len(Leaf) /\ Leaf[i].key = key

\* Mutated form: the new entry itself is not counted.
RoomWithoutEntry(key, val) == OffsetOf(Leaf, Len(Leaf) + 1) <= LeafLimit

\* A margin is left at the end of the page, and there is no other page: the
\* leaf is never split.
HasRoom(key, val) ==
  OffsetOf(Leaf, Len(Leaf) + 1) + entry_size(Entry(key, val)) <= LeafLimit

\* What stbt_put makes of the leaf; a put it refuses with -1 changes nothing.
\* Refused are sizes beyond the limits, a value of another size than the one
\* that is there, and a new entry for which the leaf has no room.
stbt_leaf_put(key, val) ==
  LET i == stbt_leaf_find(key)
  IN  IF Len(key) > MaxKeySize \/ Len(val) > MaxValSize THEN Leaf
      ELSE IF found(key)
             THEN IF Len(Leaf[i].val) = Len(val)
                    THEN [Leaf EXCEPT ![i].val = val] ELSE Leaf
      ELSE IF HasRoom(key, val) THEN InsertAt(Leaf, i, Entry(key, val)) ELSE Leaf

\* Mutated form: the header is not written after an insertion.
StbtPutNoHeader(key, val) ==
  LET leaf == stbt_leaf_put(key, val)
  IN  /\ OwnsMemory("STBT")
      /\ stable' = [stbt_init_if_needed EXCEPT !.entries = leaf]
      /\ stbt' = [initialized |-> TRUE, count |-> stbt_count + (Len(leaf) - Len(Leaf))]
      /\ reader' = IF Len(leaf) > Len(Leaf) THEN NoReader ELSE reader
      /\ UNCHANGED <<stkv, scan, epoch>>

(* The entries behind an insertion move, and a scan under way is not told. *)
stbt_put(key, val) ==
  LET leaf  == stbt_leaf_put(key, val)
      count == stbt_count + (Len(leaf) - Len(Leaf))
  IN  /\ OwnsMemory("STBT")
      /\ stable' = [stbt_init_if_needed EXCEPT !.count = count, !.entries = leaf]
      /\ stbt' = [initialized |-> TRUE, count |-> count]
      /\ reader' = IF Len(leaf) > Len(Leaf) THEN NoReader ELSE reader
      /\ UNCHANGED <<stkv, scan, epoch>>

\* stbt_get, stbt_count and stbt_height change nothing but the statics.
stbt_get ==
  /\ OwnsMemory("STBT") /\ ~stbt.initialized
  /\ stable' = stbt_init_if_needed
  /\ stbt' = [initialized |-> TRUE, count |-> stbt_count]
  /\ UNCHANGED <<stkv, scan, epoch, reader>>

\* The statics of a scan under way are left as they are.
stbt_clear ==
  /\ OwnsMemory("STBT") /\ stable.grown
  /\ stable' = Formatted("STBT")
  /\ stbt' = [initialized |-> TRUE, count |-> 0]
  /\ reader' = NoReader
  /\ epoch' = ~epoch
  /\ UNCHANGED <<stkv, scan>>

---------------------------------------------------------------------------
(* The scan.  One set of statics serves every caller, and the cursor is an *)
(* offset into the leaf.                                                   *)

\* The first entry whose key has the prefix, 0 when there is none.
FirstMatch(prefix) == SelectInSeq(Leaf, LAMBDA e : IsPrefix(prefix, e.key))

stbt_scan_start(prefix) ==
  /\ OwnsMemory("STBT") /\ Len(prefix) <= MaxKeySize
  /\ stable' = stbt_init_if_needed
  /\ stbt' = [initialized |-> TRUE, count |-> stbt_count]
  /\ LET i == FirstMatch(prefix)
     IN  /\ scan' = [ active |-> i > 0, prefix |-> prefix,
                      offset |-> IF i > 0 THEN OffsetOf(Leaf, i) ELSE 0 ]
         /\ reader' = [seen |-> << >>, undisturbed |-> TRUE, ended |-> i = 0]
  /\ UNCHANGED <<stkv, epoch>>

\* The entries that begin at the cursor: none, or one.
AtCursor == { i \in DOMAIN Leaf : OffsetOf(Leaf, i) = scan.offset }

\* Mutated form: the size fields of an entry are forgotten in the advance.
ScanNextShort ==
  /\ scan.active
  /\ \E i \in AtCursor :
       /\ Leaf[i].key # << >> /\ IsPrefix(scan.prefix, Leaf[i].key)
       /\ scan' = [scan EXCEPT !.offset = @ + entry_size(Leaf[i]) - 4]
       /\ reader' = IF reader.undisturbed
                      THEN [reader EXCEPT !.seen = Append(@, Leaf[i].key)]
                      ELSE reader
  /\ UNCHANGED <<stable, stkv, stbt, epoch>>

\* stbt_scan_next copies out the entry at the cursor and moves on.
stbt_scan_next ==
  /\ scan.active
  /\ \E i \in AtCursor :
       /\ Leaf[i].key # << >> /\ IsPrefix(scan.prefix, Leaf[i].key)
       /\ scan' = [scan EXCEPT !.offset = @ + entry_size(Leaf[i])]
       /\ reader' = IF reader.undisturbed
                      THEN [reader EXCEPT !.seen = Append(@, Leaf[i].key)]
                      ELSE reader
  /\ UNCHANGED <<stable, stkv, stbt, epoch>>

\* It ends at the end of the leaf, at a key without the prefix, and at the
\* empty key, which it takes for the end of the leaf.
scan_ends ==
  /\ scan.active
  /\ \/ scan.offset >= OffsetOf(Leaf, Len(Leaf) + 1)
     \/ \E i \in AtCursor : \/ Leaf[i].key = << >>
                              \/ ~IsPrefix(scan.prefix, Leaf[i].key)
  /\ scan' = [scan EXCEPT !.active = FALSE, !.offset = 0]
  /\ reader' = [reader EXCEPT !.ended = TRUE]
  /\ UNCHANGED <<stable, stkv, stbt, epoch>>

(* Entries moved, and the cursor points into the middle of one: whatever   *)
(* bytes are there are read as sizes.  The caller is given something and   *)
(* the cursor ends up anywhere, in the middle of an entry again or at the  *)
(* beginning or the end of one, or the scan ends.                          *)
scan_misread ==
  /\ scan.active /\ AtCursor = {}
  /\ scan.offset < OffsetOf(Leaf, Len(Leaf) + 1)
  /\ \/ scan' = [scan EXCEPT !.active = FALSE, !.offset = 0]
     \/ \E i \in 1..(Len(Leaf) + 1) : scan' = [scan EXCEPT !.offset = OffsetOf(Leaf, i)]
  /\ UNCHANGED <<stable, stkv, stbt, epoch, reader>>

stbt_scan_stop ==
  /\ scan' = [scan EXCEPT !.active = FALSE, !.offset = 0]
  /\ reader' = NoReader
  /\ UNCHANGED <<stable, stkv, stbt, epoch>>

\* One call starts, steps and stops a scan of its own, in the same statics.
stbt_scan_collect(prefix) ==
  /\ OwnsMemory("STBT") /\ Len(prefix) <= MaxKeySize
  /\ stable' = stbt_init_if_needed
  /\ stbt' = [initialized |-> TRUE, count |-> stbt_count]
  /\ scan' = [active |-> FALSE, offset |-> 0, prefix |-> prefix]
  /\ reader' = NoReader
  /\ UNCHANGED <<stkv, epoch>>

---------------------------------------------------------------------------

\* Stable memory is empty, or was grown at installation and holds zeros.
Init == /\ \E grown \in BOOLEAN :
             stable = [grown |-> grown, magic |-> "", count |-> 0, entries |-> << >>]
        /\ stkv = [initialized |-> FALSE, count |-> 0]
        /\ stbt = [initialized |-> FALSE, count |-> 0]
        /\ scan = NoScan
        /\ epoch = FALSE
        /\ reader = NoReader

\* An upgrade of the canister keeps stable memory and clears every static.
Upgrade == /\ stkv' = [initialized |-> FALSE, count |-> 0]
           /\ stbt' = [initialized |-> FALSE, count |-> 0]
           /\ scan' = NoScan
           /\ reader' = NoReader
           /\ UNCHANGED <<stable, epoch>>

Next == \/ \E key \in Keys, val \in Values : stkv_put(key, val) \/ stbt_put(key, val)
        \/ stkv_get \/ stkv_clear
        \/ stbt_get \/ stbt_clear
        \/ \E prefix \in ScanPrefixes : stbt_scan_start(prefix) \/ stbt_scan_collect(prefix)
        \/ stbt_scan_next \/ scan_ends \/ scan_misread \/ stbt_scan_stop
        \/ Upgrade

Spec == Init /\ [][Next]_vars

---------------------------------------------------------------------------

\* The types of memory and statics; a store whose statics are initialized is
\* the one the memory belongs to, and the leaf never outgrows its page.
StoresTypeOK ==
  /\ stable.grown \in BOOLEAN /\ stable.magic \in {"", "STKV", "STBT"}
  /\ stable.count \in Nat /\ stable.entries \in Seq(Entries)
  /\ stkv \in [initialized : BOOLEAN, count : Nat]
  /\ stbt \in [initialized : BOOLEAN, count : Nat]
  /\ stkv.initialized => stable.magic = "STKV"
  /\ stbt.initialized => stable.magic = "STBT"
  /\ stable.magic = "STBT" /\ stable.entries # << >> =>
       OffsetOf(stable.entries, Len(stable.entries) + 1) <= LeafLimit
  /\ scan \in [active : BOOLEAN, offset : Nat, prefix : ScanPrefixes \cup {<< >>}]
  /\ scan.active => stbt.initialized
  /\ epoch \in BOOLEAN
  /\ reader.seen \in Seq(Keys)
  /\ reader.undisturbed \in BOOLEAN /\ reader.ended \in BOOLEAN

\* The header in memory and its copy in the statics agree with the entries
\* that are there, before and after any upgrade: no message is answered with
\* a count that is not the number of entries stored.
CountsAgree ==
  /\ stable.count = Len(stable.entries)
  /\ stkv.initialized => stkv.count = stable.count
  /\ stbt.initialized => stbt.count = stable.count

\* The leaf is sorted and holds no key twice: stbt_leaf_find, which stops at
\* the first key that is not less, misses none.
LeafSorted ==
  stable.magic = "STBT" =>
    \A i, j \in DOMAIN stable.entries :
      i < j => stbt_key_less(stable.entries[i].key, stable.entries[j].key)

\* The keys a scan has to return: those with the prefix.  The empty key, which
\* comes first, ends a scan of everything before it began.
Due(prefix) ==
  LET keys == { Leaf[i].key : i \in { j \in DOMAIN Leaf : IsPrefix(prefix, Leaf[j].key) } }
  IN  IF << >> \in keys THEN {} ELSE keys

\* A scan that no insertion, clear, upgrade or other scan came between gives
\* its caller the keys that are due and no others, each once and in order, so
\* that those still to come are behind the ones given, whatever values are
\* overwritten and whatever puts are refused while it is under way.
ScanExact ==
  reader.undisturbed =>
    LET due   == Due(scan.prefix)
        given == Range(reader.seen)
    IN  /\ \A i, j \in DOMAIN reader.seen :
             i < j => stbt_key_less(reader.seen[i], reader.seen[j])
        /\ given \subseteq due
        /\ IF reader.ended
             THEN due \subseteq given
             ELSE scan.active /\ \A g \in given, key \in due \ given : stbt_key_less(g, key)

---------------------------------------------------------------------------
(* What the stores give their users: Contents is what stkv_get or stbt_get *)
(* would answer for each key.  A clear is told from a loss by epoch.       *)

StkvContents ==
  [ k \in { key \in Keys : stkv_find(key) > 0 } |-> stkv_entries[stkv_find(k)].val ]

StbtContents ==
  [ k \in { key \in Keys : found(key) } |-> Leaf[stbt_leaf_find(k)].val ]

Contents == CASE stable.magic = "STKV" -> StkvContents
              [] stable.magic = "STBT" -> StbtContents
              [] OTHER                 -> << >>

SizedMapView == INSTANCE SizedMap WITH map <- Contents

\* Either store is a map in which the first put of a key fixes the size of its
\* values and which upgrades leave alone.
ImplementsSizedMap == SizedMapView!Spec
=============================================================================
