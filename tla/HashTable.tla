------------------------------ MODULE HashTable ------------------------------
(***************************************************************************)
(* The hash table of src/src/slp_value.c (SlpObjHash): open addressing     *)
(* with linear probing, tombstones, growth at three quarters and a         *)
(* sequence number in each entry, from which the order of iteration is     *)
(* computed.  Every hash, scope and table of globals of the VM is one.     *)
(*                                                                         *)
(* Keys are canonical strings (canonical_hash_key), never $null; Home is   *)
(* slp_hash_value.  An entry without a key is unused, or a tombstone when  *)
(* its value is true.                                                      *)
(***************************************************************************)
EXTENDS Integers, SequencesExt, Subsequences

CONSTANTS
  Keys,
  Values,       \* contains Null and True
  Null,         \* $null
  True,         \* the script's true, which also marks a tombstone
  Home,         \* slp_hash_value of each key
  InitCap,      \* capacity of the first table (16)
  MaxSequence   \* bound on next_sequence

ASSUME HashAssumption ==
  /\ Null \notin Keys
  /\ {Null, True} \subseteq Values
  /\ Null # True
  /\ Home \in [Keys -> Nat]
  /\ InitCap \in Nat \ {0}

VARIABLES
  hash,     \* the SlpObjHash
  answer    \* what the last operation returned

Unused == [key |-> Null, value |-> Null, sequence |-> 0]
Tombstone == [key |-> Null, value |-> True, sequence |-> 0]

Capacity(t) == Cardinality(DOMAIN t)
Live(t) == {i \in DOMAIN t : t[i].key # Null}
Least(S) == CHOOSE x \in S : \A y \in S : x <= y

(* The slot d places after the home of k.                                  *)
Probe(t, k, d) == (Home[k] + d) % Capacity(t)

(* The distances at which a search for k ends: k itself, an unused slot.   *)
Stops(t, k) ==
  {d \in DOMAIN t : t[Probe(t, k, d)].key = k \/ t[Probe(t, k, d)] = Unused}

Index(t, k) == Probe(t, k, Least(Stops(t, k)))
Holds(t, k) == Stops(t, k) # {} /\ t[Index(t, k)].key = k

(* The tombstones met on the way.                                          *)
Passed(t, k) ==
  {d \in DOMAIN t : /\ t[Probe(t, k, d)] = Tombstone
                    /\ \A s \in Stops(t, k) : d < s}

(* Where set puts a key that is not there.                                 *)
Landing(t, k) ==
  Probe(t, k, Least(IF Passed(t, k) # {} THEN Passed(t, k) ELSE Stops(t, k)))

(* The entry e in the first slot without a key on its way.                 *)
Place(u, e) ==
  LET free == {d \in DOMAIN u : u[Probe(u, e.key, d)].key = Null}
  IN [u EXCEPT ![Probe(u, e.key, Least(free))] = e]

(* hash_grow: the live entries, in slot order, into a table twice as big;  *)
(* moved[n] is that table once the first n slots have been moved.          *)
NextCapacity(t) == IF Capacity(t) = 0 THEN InitCap ELSE 2 * Capacity(t)
Grow(t) ==
  LET moved[n \in 0..Capacity(t)] ==
        IF n = 0 THEN [i \in 0..NextCapacity(t)-1 |-> Unused]
        ELSE IF t[n-1].key = Null THEN moved[n-1]
        ELSE Place(moved[n-1], t[n-1])
  IN moved[Capacity(t)]

(* A variant that does not count the entry to come.                        *)
RoomWhenFull(h) ==
  IF h.count > Capacity(h.entries) \/ Capacity(h.entries) = 0
  THEN Grow(h.entries) ELSE h.entries

(* The table in which set looks for its key.                               *)
Room(h) ==
  IF h.count + 1 > (Capacity(h.entries) * 3) \div 4
  THEN Grow(h.entries) ELSE h.entries

(* Variants: a tombstone is taken before the key has been looked for       *)
(* behind it; an inserted entry takes the last number once more.           *)
PutEarly(h, k, v) ==
  LET t == Room(h) IN
  IF Passed(t, k) = {} /\ Holds(t, k)
  THEN [h EXCEPT !.entries = [t EXCEPT ![Index(t, k)].value = v]]
  ELSE [h EXCEPT
          !.entries = [t EXCEPT ![Landing(t, k)] =
            [key |-> k, value |-> v, sequence |-> h.next_sequence + 1]],
          !.count = @ + 1,
          !.next_sequence = @ + 1]
PutStale(h, k, v) ==
  LET t == Room(h) IN
  IF Holds(t, k)
  THEN [h EXCEPT !.entries = [t EXCEPT ![Index(t, k)].value = v]]
  ELSE [h EXCEPT
          !.entries = [t EXCEPT ![Landing(t, k)] =
            [key |-> k, value |-> v, sequence |-> h.next_sequence]],
          !.count = @ + 1]

(* slp_obj_hash_set: an existing key keeps its entry and its number.  The  *)
(* fallback for a full table is not here: RoomToInsert.                    *)
Put(h, k, v) ==
  LET t == Room(h) IN
  IF Holds(t, k)
  THEN [h EXCEPT !.entries = [t EXCEPT ![Index(t, k)].value = v]]
  ELSE [h EXCEPT
          !.entries = [t EXCEPT ![Landing(t, k)] =
            [key |-> k, value |-> v, sequence |-> h.next_sequence + 1]],
          !.count = @ + 1,
          !.next_sequence = @ + 1]

(* hash_entry_precedes.                                                    *)
Precedes(h, i, j) ==
  LET t == h.entries
      Bucket(x) == Home[t[x].key] % Capacity(t)
  IN IF h.order_mode # 0 THEN t[i].sequence < t[j].sequence
     ELSE \/ Bucket(i) < Bucket(j)
          \/ Bucket(i) = Bucket(j) /\ t[i].sequence > t[j].sequence

(* slp_obj_hash_ordered_index for 0..count-1: the slot with that many      *)
(* before it, -1 where there is none.                                      *)
OrderedIndex(h, ordinal) ==
  LET live == Live(h.entries)
      Rank(i) == Cardinality({j \in live : j # i /\ Precedes(h, j, i)})
      candidates == {i \in live : Rank(i) = ordinal}
  IN IF candidates = {} THEN -1 ELSE Least(candidates)

(* The slots in the order of iteration; a loop skips a -1 among them.      *)
Ordered(h) == [o \in 1..h.count |-> OrderedIndex(h, o - 1)]

NewHash(m) ==
  [entries |-> << >>, count |-> 0, next_sequence |-> 0, order_mode |-> m]

-----------------------------------------------------------------------------
Init == /\ \E m \in 0..2 : hash = NewHash(m)
        /\ answer = << >>

Set(k, v) ==
  /\ hash.next_sequence < MaxSequence
  /\ hash' = Put(hash, k, v)
  /\ answer' = <<TRUE>>

(* slp_obj_hash_get_raw.                                                   *)
Get(k) ==
  LET t == hash.entries
      i == Index(t, k)
  IN IF ~Holds(t, k)
     THEN answer' = <<Null>> /\ UNCHANGED hash
     ELSE /\ answer' = <<t[i].value>>
          /\ IF hash.order_mode = 2 /\ t[i].value # Null
             THEN /\ hash.next_sequence < MaxSequence
                  /\ hash' = [hash EXCEPT
                       !.entries[i].sequence = hash.next_sequence + 1,
                       !.next_sequence = @ + 1]
             ELSE UNCHANGED hash

Has(k) == /\ answer' = <<Holds(hash.entries, k)>>
          /\ UNCHANGED hash

(* A variant of delete: the slot becomes unused.                           *)
DeleteErases(k) ==
  LET t == hash.entries IN
  /\ answer' = <<Holds(t, k)>>
  /\ hash' = IF Holds(t, k)
             THEN [hash EXCEPT !.entries[Index(t, k)] = Unused,
                               !.count = @ - 1]
             ELSE hash

(* slp_obj_hash_delete.                                                    *)
Without(h, k) ==
  IF Holds(h.entries, k)
  THEN [h EXCEPT !.entries[Index(h.entries, k)] = Tombstone, !.count = @ - 1]
  ELSE h

Delete(k) == /\ answer' = <<Holds(hash.entries, k)>>
             /\ hash' = Without(hash, k)

(* native_keys.                                                            *)
List ==
  LET t == hash.entries
      visible == Only(Ordered(hash), {i \in Live(t) : t[i].value # Null})
  IN /\ answer' = [n \in 1..Len(visible) |-> t[visible[n]].key]
     /\ UNCHANGED hash

(* clear(%h): next_sequence is kept.                                       *)
Clear == /\ hash' = [hash EXCEPT
              !.entries = [i \in DOMAIN hash.entries |-> Unused],
              !.count = 0]
         /\ answer' = << >>

(* %h = copy(%h); copied[n] has what the first n ordinals name.            *)
Duplicate(h) ==
  LET t == h.entries
      slots == Ordered(h)
      copied[n \in 0..Len(slots)] ==
        IF n = 0 THEN NewHash(h.order_mode)
        ELSE IF slots[n] < 0 THEN copied[n-1]
        ELSE Put(copied[n-1], t[slots[n]].key, t[slots[n]].value)
  IN copied[Len(slots)]

Copy == /\ hash' = Duplicate(hash)
        /\ answer' = << >>

-----------------------------------------------------------------------------
(* Every entry is found by a search for its key: deletions leave the way   *)
(* to the entries behind them, growth moves none out of reach, and no key  *)
(* has two entries (slp_obj_hash_set, slp_obj_hash_delete, hash_grow).     *)
EntriesReachable ==
  \A i \in Live(hash.entries) :
    LET k == hash.entries[i].key
    IN Holds(hash.entries, k) /\ Index(hash.entries, k) = i

(* The table that set searches has an unused slot or a tombstone for every *)
(* key: its fallback for a full table (slp_value.c:533) is never taken,    *)
(* however many tombstones there are.                                      *)
RoomToInsert ==
  LET t == Room(hash) IN
  \A k \in Keys : Stops(t, k) \cup Passed(t, k) # {}

(* The ordinals 0..count-1 name every entry once, which foreach, keys,     *)
(* copy and the removal policy rely on (slp_obj_hash_ordered_index).       *)
OrderIsTotal ==
  LET slots == Ordered(hash) IN
  /\ Len(slots) = hash.count
  /\ ToSet(slots) = Live(hash.entries)

(* What the table h stands for: a map, and an order of its keys.           *)
Contents(h) ==
  LET t == h.entries IN
  [k \in {t[i].key : i \in Live(t)} |->
     t[CHOOSE i \in Live(t) : t[i].key = k].value]
OrderOfKeys(h) ==
  LET slots == Ordered(h) IN
  [n \in 1..Len(slots) |->
     IF slots[n] < 0 THEN Null ELSE h.entries[slots[n]].key]
=============================================================================
