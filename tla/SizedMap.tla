------------------------------ MODULE SizedMap ------------------------------
(***************************************************************************)
(* What a key-value store in stable memory gives its users, in the words   *)
(* of neither store: a map in which a key keeps the size of the value it   *)
(* was first given.  Nothing but a put of a key changes what the key       *)
(* reads, and nothing but a clear removes it; an upgrade of the canister   *)
(* is not an operation on the map.                                         *)
(***************************************************************************)
EXTENDS Sequences

CONSTANTS Keys,   \* the keys a user may name
          Values  \* the values, sequences of bytes

VARIABLES map,    \* a function from the keys present to their values
          epoch   \* flips whenever a user clears the map

Init == map = << >> /\ epoch = FALSE

Put(key, val) ==
  /\ epoch' = epoch
  /\ map' = [ k \in DOMAIN map \cup {key} |-> IF k = key THEN val ELSE map[k] ]
  /\ key \in DOMAIN map => Len(map[key]) = Len(val)

Clear == epoch' = ~epoch /\ map' = << >>

Next == Clear \/ \E key \in Keys, val \in Values : Put(key, val)

Spec == Init /\ [][Next]_<<map, epoch>>
=============================================================================
