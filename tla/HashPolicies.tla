----------------------------- MODULE HashPolicies -----------------------------
(***************************************************************************)
(* Ordered hashes with policies (slp_vm_hash_get, hash_set_canonical): the *)
(* VM calls a closure of the script for the value of a key that is missed, *)
(* and to ask whether a new key shall drive out the eldest entry.  That    *)
(* closure may do with the same hash what it likes, and be called again    *)
(* for it, before the operation that called it goes on.                    *)
(***************************************************************************)
EXTENDS HashTable

CONSTANTS
  MaxPending,   \* policies that run at once
  Limit,        \* size of a cache
  PolicyModes   \* orders of the hashes that are given policies

ASSUME PoliciesAssumption == /\ MaxPending \in Nat
                             /\ Limit \in Nat \ {0}
                             /\ PolicyModes \subseteq {1, 2}

VARIABLES
  policies,     \* the policies that the hash has, of {"miss", "remove"}
  pending,      \* the operations that wait for a policy
  limited       \* history: its removal policy has kept to size(%h) >= Limit

vars == <<hash, answer, policies, pending, limited>>
-----------------------------------------------------------------------------
VisibleCount(h) ==
  Cardinality({i \in Live(h.entries) : h.entries[i].value # Null})

Eldest(h) ==
  LET i == OrderedIndex(h, 0) IN IF i < 0 THEN Null ELSE h.entries[i].key

Request(kind, k, v, reading) ==
  [kind |-> kind, key |-> k, value |-> v, reading |-> reading,
   eldest |-> IF kind = "remove" THEN Eldest(hash) ELSE Null]

Asks(k) == /\ "remove" \in policies
           /\ hash.order_mode # 0
           /\ ~Holds(hash.entries, k)

(* Bounds: one more policy can run, and a number is left for what each of  *)
(* them may insert.                                                        *)
RoomToAsk == /\ Len(pending) < MaxPending
             /\ hash.next_sequence + Len(pending) < MaxSequence

Removing == \E i \in DOMAIN pending : pending[i].kind = "remove"

(* A cache whose removal policy itself sets keys, or with keys bound to    *)
(* $null, which size() does not count, need not keep its size.             *)
InsertsPlainly(k, v) == v # Null /\ (Removing => Holds(hash.entries, k))

Init2 == /\ Init
         /\ policies = {}
         /\ pending = << >>
         /\ limited = FALSE

(* setMissPolicy, setRemovalPolicy, here of a hash that is still new.       *)
SetPolicy(p) ==
  /\ hash.order_mode \in PolicyModes
  /\ hash.next_sequence = 0 /\ pending = << >>
  /\ policies' = policies \cup {p}
  /\ limited' = (limited \/ p = "remove")
  /\ UNCHANGED <<hash, answer, pending>>

(* slp_vm_hash_set.                                                        *)
SetByScript(k, v) ==
  /\ limited' = (limited /\ InsertsPlainly(k, v))
  /\ UNCHANGED policies
  /\ IF Asks(k)
     THEN /\ RoomToAsk
          /\ pending' = Append(pending, Request("remove", k, v, FALSE))
          /\ answer' = << >> /\ UNCHANGED hash
     ELSE Set(k, v) /\ UNCHANGED pending

(* slp_vm_hash_get.                                                        *)
GetByScript(k) ==
  LET t == hash.entries
      missed == ~Holds(t, k) \/ t[Index(t, k)].value = Null
  IN /\ UNCHANGED <<policies, limited>>
     /\ IF missed /\ "miss" \in policies
        THEN /\ RoomToAsk
             /\ pending' = Append(pending, Request("miss", k, Null, TRUE))
             /\ answer' = << >> /\ UNCHANGED hash
        ELSE Get(k) /\ UNCHANGED pending

(* The miss policy returns v, which is set like any other value.           *)
MissReturns(v) ==
  LET p == Last(pending) IN
  /\ pending # << >> /\ p.kind = "miss"
  /\ limited' = (limited /\ v # Null
                 /\ \A i \in DOMAIN pending : pending[i].kind = "miss")
  /\ UNCHANGED policies
  /\ IF Asks(p.key)
     THEN /\ pending' = Append(Front(pending), Request("remove", p.key, v, TRUE))
          /\ answer' = << >> /\ UNCHANGED hash
     ELSE /\ hash.next_sequence < MaxSequence
          /\ hash' = Put(hash, p.key, v)
          /\ answer' = <<v>>
          /\ pending' = Front(pending)

(* A variant that removes the key to come instead of the eldest.           *)
AfterOwnKey(p, remove) ==
  IF ~remove THEN Put(hash, p.key, p.value)
  ELSE IF p.eldest = Null THEN hash
  ELSE Put(Without(hash, p.key), p.key, p.value)

(* The hash once the removal policy of request p has answered.             *)
AfterRemoval(p, remove) ==
  IF ~remove THEN Put(hash, p.key, p.value)
  ELSE IF p.eldest = Null THEN hash
  ELSE Put(Without(hash, p.eldest), p.key, p.value)

RemovalReturns(remove) ==
  LET p == Last(pending) IN
  /\ pending # << >> /\ p.kind = "remove"
  /\ hash.next_sequence < MaxSequence
  /\ hash' = AfterRemoval(p, remove)
  /\ answer' = <<IF p.reading THEN p.value ELSE TRUE>>
  /\ pending' = Front(pending)
  /\ limited' = (limited /\ (remove = (VisibleCount(hash) >= Limit)))
  /\ UNCHANGED policies

(* The call of a policy fails: nothing is set.                             *)
PolicyFails ==
  LET p == Last(pending) IN
  /\ pending # << >>
  /\ answer' = <<IF p.reading THEN p.value ELSE FALSE>>
  /\ pending' = Front(pending)
  /\ UNCHANGED <<hash, policies, limited>>

Next == \/ \E p \in {"miss", "remove"} : SetPolicy(p)
        \/ \E k \in Keys : \/ \E v \in Values : SetByScript(k, v)
                           \/ GetByScript(k)
        \/ /\ \/ \E k \in Keys : Has(k) \/ Delete(k)
              \/ List
              \/ Clear
              \/ pending = << >> /\ Copy    \* another hash, without requests
           /\ UNCHANGED <<policies, pending, limited>>
        \/ \E v \in Values : MissReturns(v)
        \/ \E r \in BOOLEAN : RemovalReturns(r)
        \/ PolicyFails

Spec == Init2 /\ [][Next]_vars
-----------------------------------------------------------------------------
(* A hash whose removal policy is "return iff(size($1) >= Limit)", as in   *)
(* tests/fixtures/cache.sl, never holds more than Limit entries, whatever  *)
(* the policies read or delete meanwhile (hash_set_canonical).             *)
CacheBounded == limited => hash.count <= Limit

(* The table and its policies implement an ordered map: its map is what    *)
(* its entries say, its order that of its ordinals, and the entry that a   *)
(* new key drives out is the one that was the eldest when the policy was   *)
(* asked.                                                                  *)
Map == INSTANCE OrderedMap WITH mode <- hash.order_mode, map <- Contents(hash),
                                order <- OrderOfKeys(hash), asked <- pending
ImplementsMap == Map!Spec
=============================================================================
