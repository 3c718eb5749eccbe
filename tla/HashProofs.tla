------------------------------ MODULE HashProofs ------------------------------
(***************************************************************************)
(* Theorems about HashTable and HashPolicies, for any keys and any hash of *)
(* them, any number of operations and any depth of policies: every entry   *)
(* is found, there is room for the next one, the ordinals name each entry  *)
(* once, and the table implements OrderedMap.                              *)
(***************************************************************************)
EXTENDS HashPolicies, SequenceFacts, FiniteSetTheorems

(* What the slots of a table hold.                                         *)
Entry == [key : Keys, value : Values, sequence : Nat]
Slot == Entry \cup {Unused, Tombstone}
IsTable(t) == Capacity(t) \in Nat /\ t \in [0..Capacity(t)-1 -> Slot]

(* Slot i is met by a search for its key, before an unused slot and before *)
(* another entry of that key.                                              *)
Reached(t, i) ==
  \E d \in DOMAIN t :
    /\ Probe(t, t[i].key, d) = i
    /\ \A e \in 0..d-1 : /\ t[Probe(t, t[i].key, e)] # Unused
                         /\ t[Probe(t, t[i].key, e)].key # t[i].key
Good(t) == IsTable(t) /\ \A i \in Live(t) : Reached(t, i)

-----------------------------------------------------------------------------
(* The slots of a search.                                                  *)

(* A table on n slots has the capacity n.                                  *)
LEMMA TableOf ==
  ASSUME NEW n \in Nat, NEW t \in [0..n-1 -> Slot]
  PROVE  IsTable(t) /\ Capacity(t) = n /\ DOMAIN t = 0..n-1
  <1>1. DOMAIN t = 0..n-1 /\ 0 \in Int /\ n - 1 \in Int
    OBVIOUS
  <1>2. Cardinality(0..n-1) = IF 0 > n-1 THEN 0 ELSE n-1-0+1
    BY <1>1, FS_Interval
  <1>3. Cardinality(0..n-1) = n
    BY <1>2
  <1>4. Capacity(t) = n
    BY <1>1, <1>3 DEF Capacity
  <1>. QED
    BY <1>1, <1>4 DEF IsTable

(* Division with the remainder r.                                          *)
LEMMA Remainder ==
  ASSUME NEW q \in Nat, NEW r \in Nat, NEW n \in Nat \ {0}, r < n
  PROVE  (n * q + r) % n = r
  OBVIOUS

(* The remainder of a sum is the sum of the remainders, wrapped once.      *)
LEMMA Wraps ==
  ASSUME NEW h \in Nat, NEW n \in Nat \ {0}, NEW d \in 0..n-1
  PROVE  /\ h % n \in 0..n-1
         /\ (h + d) % n = IF (h % n) + d < n THEN (h % n) + d ELSE (h % n) + d - n
  <1>. DEFINE q == h \div n
              r == h % n
  <1>1. r \in 0..n-1
    OBVIOUS
  <1>2. q \in Nat
    OBVIOUS
  <1>3. h = n * q + r
    OBVIOUS
  <1>. HIDE DEF q, r
  <1>4. CASE r + d < n
    <2>1. r + d \in Nat
      BY <1>1
    <2>2. (n * q + (r + d)) % n = r + d
      BY <1>2, <1>4, <2>1, Remainder
    <2>3. h + d = n * q + (r + d)
      BY <1>1, <1>2, <1>3
    <2>. QED
      BY <1>1, <1>4, <2>2, <2>3 DEF r
  <1>5. CASE ~(r + d < n)
    <2>1. r + d - n \in Nat /\ r + d - n < n /\ q + 1 \in Nat
      BY <1>1, <1>2, <1>5
    <2>2. (n * (q + 1) + (r + d - n)) % n = r + d - n
      BY <2>1, Remainder
    <2>3. h + d = n * (q + 1) + (r + d - n)
      BY <1>1, <1>2, <1>3
    <2>. QED
      BY <1>1, <1>5, <2>2, <2>3 DEF r
  <1>. QED
    BY <1>4, <1>5

(* The distances of a table lead to its slots, one to one.                 *)
LEMMA Probes ==
  ASSUME NEW t, IsTable(t), NEW k \in Keys
  PROVE  /\ \A d \in DOMAIN t : Probe(t, k, d) \in DOMAIN t
         /\ \A d, e \in DOMAIN t : Probe(t, k, d) = Probe(t, k, e) => d = e
         /\ \A i \in DOMAIN t : \E d \in DOMAIN t : Probe(t, k, d) = i
  <1>. DEFINE n == Capacity(t)
              r == Home[k] % n
  <1>1. n \in Nat /\ DOMAIN t = 0..n-1
    BY DEF IsTable
  <1>2. Home[k] \in Nat
    BY HashAssumption
  <1>3. CASE n = 0
    BY <1>1, <1>3
  <1>4. CASE n # 0
    <2>1. n \in Nat \ {0}
      BY <1>1, <1>4
    <2>2. r \in 0..n-1
      BY <1>2, <2>1
    <2>3. ASSUME NEW d \in 0..n-1
          PROVE  Probe(t, k, d) = IF r + d < n THEN r + d ELSE r + d - n
      <3>1. (Home[k] + d) % n = IF (Home[k] % n) + d < n THEN (Home[k] % n) + d
                                ELSE (Home[k] % n) + d - n
        BY <1>2, <2>1, Wraps
      <3>. QED
        BY <3>1 DEF Probe
    <2>. HIDE DEF r, n
    <2>4. \A d \in 0..n-1 : Probe(t, k, d) \in 0..n-1
      BY <2>1, <2>2, <2>3
    <2>5. \A d, e \in 0..n-1 : Probe(t, k, d) = Probe(t, k, e) => d = e
      BY <2>1, <2>2, <2>3
    <2>6. ASSUME NEW i \in 0..n-1
          PROVE  \E d \in 0..n-1 : Probe(t, k, d) = i
      <3>1. CASE i >= r
        <4>1. i - r \in 0..n-1 /\ r + (i - r) = i /\ r + (i - r) < n
          BY <2>1, <2>2, <3>1
        <4>. QED
          BY <2>3, <4>1
      <3>2. CASE i < r
        <4>1. i - r + n \in 0..n-1 /\ r + (i - r + n) - n = i
              /\ ~(r + (i - r + n) < n)
          BY <2>1, <2>2, <3>2
        <4>. QED
          BY <2>3, <4>1
      <3>. QED
        BY <2>1, <2>2, <3>1, <3>2
    <2>. QED
      BY <1>1, <2>4, <2>5, <2>6
  <1>. QED
    BY <1>3, <1>4

(* The least number of a set.                                              *)
LEMMA LeastIn ==
  ASSUME NEW S \in SUBSET Nat, S # {}
  PROVE  Least(S) \in S /\ \A x \in S : Least(S) <= x
  BY LeastOf DEF Least, Min

-----------------------------------------------------------------------------
(* Searches in a table.                                                    *)

(* An unused slot and a tombstone are without a key, and not the same.     *)
LEMMA Marks ==
  Unused.key = Null /\ Tombstone.key = Null /\ Unused # Tombstone
  BY HashAssumption DEF Unused, Tombstone

(* A slot holds an entry, or is unused, or a tombstone.                    *)
LEMMA Slots ==
  ASSUME NEW t, IsTable(t), NEW i \in DOMAIN t
  PROVE  \/ /\ i \in Live(t) /\ t[i].key # Null /\ t[i] \in Entry
            /\ t[i].key \in Keys /\ t[i] # Unused /\ t[i] # Tombstone
         \/ /\ i \notin Live(t) /\ t[i].key = Null
            /\ t[i] \in {Unused, Tombstone}
  <1>1. t[i] \in Slot
    BY DEF IsTable
  <1>2. CASE t[i] \in Entry
    <2>1. t[i].key \in Keys
      BY <1>2 DEF Entry
    <2>2. t[i].key # Null
      BY <2>1, HashAssumption
    <2>. QED
      BY <1>2, <2>1, <2>2, Marks DEF Live
  <1>3. CASE t[i] \in {Unused, Tombstone}
    BY <1>3, Marks DEF Live
  <1>. QED
    BY <1>1, <1>2, <1>3 DEF Slot

(* A search for the key of an entry ends at that entry.                    *)
LEMMA Found ==
  ASSUME NEW t, Good(t), NEW i \in Live(t)
  PROVE  Holds(t, t[i].key) /\ Index(t, t[i].key) = i
  <1>. DEFINE k == t[i].key
  <1>1. IsTable(t) /\ Reached(t, i)
    BY DEF Good
  <1>2. DOMAIN t \subseteq Nat /\ DOMAIN t = 0..Capacity(t)-1
    BY <1>1 DEF IsTable
  <1>3. PICK d \in DOMAIN t :
          /\ Probe(t, k, d) = i
          /\ \A e \in 0..d-1 : /\ t[Probe(t, k, e)] # Unused
                               /\ t[Probe(t, k, e)].key # k
    BY <1>1 DEF Reached
  <1>4. d \in Stops(t, k)
    BY <1>3 DEF Stops
  <1>5. ASSUME NEW e \in Stops(t, k)
        PROVE  d <= e
    <2>1. e \in DOMAIN t /\ (t[Probe(t, k, e)].key = k \/ t[Probe(t, k, e)] = Unused)
      BY DEF Stops
    <2>2. e \notin 0..d-1
      BY <1>3, <2>1
    <2>. QED
      BY <1>2, <2>1, <2>2
  <1>6. Stops(t, k) \in SUBSET Nat
    BY <1>2 DEF Stops
  <1>7. Least(Stops(t, k)) \in Stops(t, k) /\ Least(Stops(t, k)) <= d
    BY <1>4, <1>6, LeastIn
  <1>8. Least(Stops(t, k)) = d
    <2>1. d <= Least(Stops(t, k))
      BY <1>5, <1>7
    <2>. QED
      BY <1>2, <1>6, <1>7, <2>1
  <1>9. Index(t, k) = i
    BY <1>3, <1>8 DEF Index
  <1>. QED
    BY <1>4, <1>9 DEF Holds

(* What a search finds is an entry of that key.                            *)
LEMMA Finds ==
  ASSUME NEW t, IsTable(t), NEW k \in Keys, Holds(t, k)
  PROVE  Index(t, k) \in Live(t) /\ t[Index(t, k)].key = k
  <1>1. Stops(t, k) # {} /\ t[Index(t, k)].key = k
    BY DEF Holds
  <1>2. Stops(t, k) \in SUBSET Nat /\ Stops(t, k) \subseteq DOMAIN t
    BY DEF Stops, IsTable
  <1>3. Least(Stops(t, k)) \in DOMAIN t
    BY <1>1, <1>2, LeastIn
  <1>4. Index(t, k) \in DOMAIN t
    BY <1>3, Probes DEF Index
  <1>. QED
    BY <1>1, <1>4, HashAssumption DEF Live

(* A key is held when an entry has it, and only one entry does.            *)
LEMMA HeldOnce ==
  ASSUME NEW t, Good(t)
  PROVE  /\ \A k \in Keys : Holds(t, k) <=> \E i \in Live(t) : t[i].key = k
         /\ \A i, j \in Live(t) : t[i].key = t[j].key => i = j
  <1>1. IsTable(t)
    BY DEF Good
  <1>2. ASSUME NEW k \in Keys
        PROVE  Holds(t, k) <=> \E i \in Live(t) : t[i].key = k
    <2>1. Holds(t, k) => \E i \in Live(t) : t[i].key = k
      BY <1>1, Finds
    <2>2. ASSUME NEW i \in Live(t), t[i].key = k
          PROVE  Holds(t, k)
      BY <2>2, Found
    <2>. QED
      BY <2>1, <2>2
  <1>3. ASSUME NEW i \in Live(t), NEW j \in Live(t), t[i].key = t[j].key
        PROVE  i = j
    BY <1>3, Found
  <1>. QED
    BY <1>2, <1>3

(* A key that is not held is put in a slot without an entry, which no      *)
(* search for it stops before.                                             *)
LEMMA Lands ==
  ASSUME NEW t, Good(t), NEW k \in Keys, ~Holds(t, k),
         NEW x \in DOMAIN t, x \notin Live(t)
  PROVE  /\ Stops(t, k) \cup Passed(t, k) # {}
         /\ Landing(t, k) \in DOMAIN t /\ Landing(t, k) \notin Live(t)
         /\ \E d \in DOMAIN t :
              /\ Probe(t, k, d) = Landing(t, k)
              /\ \A e \in 0..d-1 : t[Probe(t, k, e)] # Unused
  <1>. DEFINE S == Stops(t, k)
              P == Passed(t, k)
  <1>1. IsTable(t)
    BY DEF Good
  <1>2. DOMAIN t \subseteq Nat /\ DOMAIN t = 0..Capacity(t)-1 /\ Capacity(t) \in Nat
    BY <1>1 DEF IsTable
  <1>3. S \in SUBSET Nat /\ S \subseteq DOMAIN t /\ P \in SUBSET Nat /\ P \subseteq DOMAIN t
    BY <1>2 DEF Stops, Passed
  <1>4. \A d \in DOMAIN t : Probe(t, k, d) \in DOMAIN t
    BY <1>1, Probes
  <1>5. S \cup P # {}
    <2>1. SUFFICES ASSUME S = {}
                   PROVE  P # {}
      OBVIOUS
    <2>2. PICK d \in DOMAIN t : Probe(t, k, d) = x
      BY <1>1, Probes
    <2>3. t[x] # Unused
      BY <2>1, <2>2 DEF Stops
    <2>4. t[x] = Tombstone
      BY <1>1, <2>3, Slots
    <2>5. d \in P
      BY <2>1, <2>2, <2>4 DEF Passed
    <2>. QED
      BY <2>5
  <1>6. ASSUME NEW d \in DOMAIN t, t[Probe(t, k, d)].key = k \/ t[Probe(t, k, d)] = Unused
        PROVE  d \in S
    BY <1>6 DEF Stops
  <1>7. ASSUME NEW d \in DOMAIN t, NEW e \in 0..d-1
        PROVE  e \in DOMAIN t /\ e < d
    BY <1>2
  <1>8. CASE P # {}
    <2>. DEFINE d == Least(P)
    <2>1. d \in P
      BY <1>3, <1>8, LeastIn
    <2>2. d \in DOMAIN t /\ t[Probe(t, k, d)] = Tombstone /\ \A s \in S : d < s
      BY <2>1 DEF Passed
    <2>3. Landing(t, k) = Probe(t, k, d)
      BY <1>8 DEF Landing
    <2>. HIDE DEF d
    <2>4. Probe(t, k, d) \in DOMAIN t /\ Probe(t, k, d) \notin Live(t)
      BY <1>4, <2>2, Marks DEF Live
    <2>5. ASSUME NEW e \in 0..d-1
          PROVE  t[Probe(t, k, e)] # Unused
      <3>1. e \in DOMAIN t /\ e < d /\ d \in Int /\ e \in Int
        BY <1>2, <1>7, <2>2
      <3>2. e \notin S
        BY <2>2, <3>1
      <3>. QED
        BY <1>6, <3>1, <3>2
    <2>. QED
      BY <1>5, <2>2, <2>3, <2>4, <2>5
  <1>9. CASE P = {}
    <2>. DEFINE d == Least(S)
    <2>1. S # {} /\ d \in S /\ \A s \in S : d <= s
      BY <1>3, <1>5, <1>9, LeastIn
    <2>2. d \in DOMAIN t /\ (t[Probe(t, k, d)].key = k \/ t[Probe(t, k, d)] = Unused)
      BY <2>1 DEF Stops
    <2>3. Landing(t, k) = Probe(t, k, d) /\ Index(t, k) = Probe(t, k, d)
      BY <1>9 DEF Landing, Index
    <2>4. t[Probe(t, k, d)].key # k
      BY <2>1, <2>3 DEF Holds
    <2>. HIDE DEF d
    <2>5. t[Probe(t, k, d)] = Unused
      BY <2>2, <2>4
    <2>6. Probe(t, k, d) \in DOMAIN t /\ Probe(t, k, d) \notin Live(t)
      BY <1>4, <2>2, <2>5, Marks DEF Live
    <2>7. ASSUME NEW e \in 0..d-1
          PROVE  t[Probe(t, k, e)] # Unused
      <3>1. e \in DOMAIN t /\ e < d /\ d \in Int /\ e \in Int
        BY <1>2, <1>7, <2>2
      <3>2. e \notin S
        BY <2>1, <3>1
      <3>. QED
        BY <1>6, <3>1, <3>2
    <2>. QED
      BY <1>5, <2>2, <2>3, <2>6, <2>7
  <1>. QED
    BY <1>8, <1>9

-----------------------------------------------------------------------------
(* One slot of a table is changed.                                         *)

(* The table t with e in slot i.                                           *)
At(t, i, e) == [j \in DOMAIN t |-> IF j = i THEN e ELSE t[j]]

LEMMA AtIs ==
  ASSUME NEW t, IsTable(t), NEW i, NEW e
  PROVE  At(t, i, e) = [t EXCEPT ![i] = e]
  BY DEF At, IsTable

(* It is again a table, and its searches go the same ways.                 *)
LEMMA AtTable ==
  ASSUME NEW t, IsTable(t), NEW i \in DOMAIN t, NEW e \in Slot
  PROVE  LET u == At(t, i, e) IN
         /\ IsTable(u) /\ DOMAIN u = DOMAIN t /\ Capacity(u) = Capacity(t)
         /\ u[i] = e /\ \A j \in DOMAIN t : j # i => u[j] = t[j]
         /\ \A k, d : Probe(u, k, d) = Probe(t, k, d)
         /\ Live(u) = IF e.key # Null THEN Live(t) \cup {i} ELSE Live(t) \ {i}
  <1>. DEFINE u == At(t, i, e)
  <1>1. t \in [0..Capacity(t)-1 -> Slot] /\ Capacity(t) \in Nat
    BY DEF IsTable
  <1>3. DOMAIN u = DOMAIN t /\ u[i] = e /\ \A j \in DOMAIN t : j # i => u[j] = t[j]
    BY DEF At
  <1>4. Capacity(u) = Capacity(t)
    BY <1>3 DEF Capacity
  <1>5. u \in [0..Capacity(t)-1 -> Slot]
    BY <1>1 DEF At
  <1>6. \A k, d : Probe(u, k, d) = Probe(t, k, d)
    BY <1>4 DEF Probe
  <1>. HIDE DEF u
  <1>7. Live(u) = IF e.key # Null THEN Live(t) \cup {i} ELSE Live(t) \ {i}
    BY <1>3 DEF Live
  <1>8. IsTable(u)
    BY <1>1, <1>4, <1>5 DEF IsTable
  <1>. QED
    BY <1>3, <1>4, <1>6, <1>7, <1>8 DEF u

(* An empty slot takes the entry of a new key.                             *)
LEMMA Filled ==
  ASSUME NEW t, Good(t), NEW e \in Entry, NEW i \in DOMAIN t, i \notin Live(t),
         \A j \in Live(t) : t[j].key # e.key,
         \E d \in DOMAIN t : /\ Probe(t, e.key, d) = i
                             /\ \A x \in 0..d-1 : t[Probe(t, e.key, x)] # Unused
  PROVE  Good(At(t, i, e)) /\ Live(At(t, i, e)) = Live(t) \cup {i}
  <1>1. PICK u : u = At(t, i, e)
    OBVIOUS
  <1>2. IsTable(t) /\ e \in Slot /\ e.key \in Keys /\ e.key # Null /\ e # Unused
    BY HashAssumption, Marks DEF Good, Slot, Entry
  <1>3. /\ IsTable(u) /\ DOMAIN u = DOMAIN t /\ Capacity(u) = Capacity(t)
        /\ u[i] = e /\ \A j \in DOMAIN t : j # i => u[j] = t[j]
        /\ \A k, d : Probe(u, k, d) = Probe(t, k, d)
        /\ Live(u) = Live(t) \cup {i}
    BY <1>1, <1>2, AtTable
  <1>4. DOMAIN t = 0..Capacity(t)-1 /\ Capacity(t) \in Nat
    BY <1>2 DEF IsTable
  <1>5. \A d \in DOMAIN t : \A x \in 0..d-1 : x \in DOMAIN t /\ x # d
    BY <1>4
  <1>6. \A j \in DOMAIN t : t[j].key # e.key
    BY <1>2 DEF Live
  <1>7. Reached(u, i)
    <2>1. PICK d \in DOMAIN t :
            /\ Probe(t, e.key, d) = i
            /\ \A x \in 0..d-1 : t[Probe(t, e.key, x)] # Unused
      OBVIOUS
    <2>2. ASSUME NEW x \in 0..d-1
          PROVE  u[Probe(t, e.key, x)] # Unused /\ u[Probe(t, e.key, x)].key # e.key
      <3>1. x \in DOMAIN t /\ x # d
        BY <1>5, <2>1
      <3>2. Probe(t, e.key, x) \in DOMAIN t /\ Probe(t, e.key, x) # i
        BY <1>2, <2>1, <3>1, Probes
      <3>3. u[Probe(t, e.key, x)] = t[Probe(t, e.key, x)]
        BY <1>3, <3>2
      <3>4. t[Probe(t, e.key, x)].key # e.key
        BY <1>6, <3>2
      <3>. QED
        BY <2>1, <3>3, <3>4
    <2>3. d \in DOMAIN u /\ Probe(u, u[i].key, d) = i
      BY <1>3, <2>1
    <2>4. \A x \in 0..d-1 : /\ u[Probe(u, u[i].key, x)] # Unused
                            /\ u[Probe(u, u[i].key, x)].key # u[i].key
      BY <1>3, <2>2
    <2>. QED
      BY <2>3, <2>4 DEF Reached
  <1>8. ASSUME NEW j \in Live(t)
        PROVE  Reached(u, j)
    <2>1. j \in DOMAIN t /\ j # i
      BY DEF Live
    <2>2. u[j] = t[j] /\ t[j].key # e.key /\ t[j].key \in Keys
      BY <1>2, <1>3, <2>1, Slots
    <2>3. PICK d \in DOMAIN t :
            /\ Probe(t, t[j].key, d) = j
            /\ \A x \in 0..d-1 : /\ t[Probe(t, t[j].key, x)] # Unused
                                 /\ t[Probe(t, t[j].key, x)].key # t[j].key
      BY DEF Good, Reached
    <2>4. ASSUME NEW x \in 0..d-1
          PROVE  u[Probe(t, t[j].key, x)] # Unused /\ u[Probe(t, t[j].key, x)].key # t[j].key
      <3>1. x \in DOMAIN t
        BY <1>5, <2>3
      <3>2. Probe(t, t[j].key, x) \in DOMAIN t
        BY <1>2, <2>2, <3>1, Probes
      <3>3. CASE Probe(t, t[j].key, x) = i
        BY <1>2, <1>3, <2>2, <3>3
      <3>4. CASE Probe(t, t[j].key, x) # i
        BY <1>3, <2>3, <3>2, <3>4
      <3>. QED
        BY <3>3, <3>4
    <2>5. d \in DOMAIN u /\ Probe(u, u[j].key, d) = j
      BY <1>3, <2>2, <2>3
    <2>6. \A x \in 0..d-1 : /\ u[Probe(u, u[j].key, x)] # Unused
                            /\ u[Probe(u, u[j].key, x)].key # u[j].key
      BY <1>3, <2>2, <2>4
    <2>. QED
      BY <2>5, <2>6 DEF Reached
  <1>9. Good(u)
    BY <1>3, <1>7, <1>8 DEF Good
  <1>. QED
    BY <1>1, <1>3, <1>9

(* An entry is changed, or deleted, and leaves the way to the others.      *)
LEMMA Replaced ==
  ASSUME NEW t, Good(t), NEW i \in Live(t), NEW e \in Entry \cup {Tombstone},
         e = Tombstone \/ e.key = t[i].key
  PROVE  /\ Good(At(t, i, e))
         /\ Live(At(t, i, e)) = IF e = Tombstone THEN Live(t) \ {i} ELSE Live(t)
  <1>1. PICK u : u = At(t, i, e)
    OBVIOUS
  <1>2. IsTable(t) /\ e \in Slot /\ e # Unused /\ (e.key # Null <=> e # Tombstone)
    BY HashAssumption, Marks DEF Good, Slot, Entry, Unused
  <1>3. i \in DOMAIN t /\ t[i].key # Null
    BY DEF Live
  <1>4. /\ IsTable(u) /\ DOMAIN u = DOMAIN t /\ Capacity(u) = Capacity(t)
        /\ u[i] = e /\ \A j \in DOMAIN t : j # i => u[j] = t[j]
        /\ \A k, d : Probe(u, k, d) = Probe(t, k, d)
        /\ Live(u) = IF e.key # Null THEN Live(t) \cup {i} ELSE Live(t) \ {i}
    BY <1>1, <1>2, <1>3, AtTable
  <1>5. Live(u) = IF e = Tombstone THEN Live(t) \ {i} ELSE Live(t)
    BY <1>2, <1>4
  <1>6. DOMAIN t = 0..Capacity(t)-1 /\ Capacity(t) \in Nat
    BY <1>2 DEF IsTable
  <1>7. \A d \in DOMAIN t : \A x \in 0..d-1 : x \in DOMAIN t
    BY <1>6
  <1>8. ASSUME NEW j \in Live(u)
        PROVE  Reached(u, j)
    <2>1. j \in Live(t) /\ j \in DOMAIN t /\ u[j].key = t[j].key /\ t[j].key \in Keys
      <3>1. j \in Live(t)
        BY <1>5
      <3>2. j \in DOMAIN t
        BY <3>1 DEF Live
      <3>3. u[j].key = t[j].key
        BY <1>2, <1>4, <1>5, <3>2
      <3>. QED
        BY <1>2, <3>1, <3>2, <3>3, Slots
    <2>2. PICK d \in DOMAIN t :
            /\ Probe(t, t[j].key, d) = j
            /\ \A x \in 0..d-1 : /\ t[Probe(t, t[j].key, x)] # Unused
                                 /\ t[Probe(t, t[j].key, x)].key # t[j].key
      BY <2>1 DEF Good, Reached
    <2>3. ASSUME NEW x \in 0..d-1
          PROVE  u[Probe(t, t[j].key, x)] # Unused /\ u[Probe(t, t[j].key, x)].key # t[j].key
      <3>1. x \in DOMAIN t
        BY <1>7, <2>2
      <3>2. Probe(t, t[j].key, x) \in DOMAIN t
        BY <1>2, <2>1, <3>1, Probes
      <3>3. CASE Probe(t, t[j].key, x) = i
        <4>1. u[i] # Unused
          BY <1>2, <1>4
        <4>2. t[i].key # t[j].key
          BY <2>2, <3>3
        <4>3. u[i].key # t[j].key
          BY <1>2, <1>4, <2>1, <4>2, Marks, HashAssumption
        <4>. QED
          BY <3>3, <4>1, <4>3
      <3>4. CASE Probe(t, t[j].key, x) # i
        BY <1>4, <2>2, <3>2, <3>4
      <3>. QED
        BY <3>3, <3>4
    <2>4. d \in DOMAIN u /\ Probe(u, u[j].key, d) = j
      BY <1>4, <2>1, <2>2
    <2>5. \A x \in 0..d-1 : /\ u[Probe(u, u[j].key, x)] # Unused
                            /\ u[Probe(u, u[j].key, x)].key # u[j].key
      BY <1>4, <2>1, <2>3
    <2>. QED
      BY <2>4, <2>5 DEF Reached
  <1>9. Good(u)
    BY <1>4, <1>8 DEF Good
  <1>. QED
    BY <1>1, <1>5, <1>9

(* A new table.                                                            *)
LEMMA Fresh ==
  ASSUME NEW n \in Nat
  PROVE  LET t == [i \in 0..n-1 |-> Unused] IN
         Good(t) /\ Live(t) = {} /\ Capacity(t) = n /\ DOMAIN t = 0..n-1
  <1>1. PICK t : t = [i \in 0..n-1 |-> Unused]
    OBVIOUS
  <1>2. t \in [0..n-1 -> Slot]
    BY <1>1 DEF Slot
  <1>3. IsTable(t) /\ Capacity(t) = n /\ DOMAIN t = 0..n-1
    BY <1>2, TableOf
  <1>4. Live(t) = {}
    BY <1>1, Marks DEF Live
  <1>5. Good(t)
    BY <1>3, <1>4 DEF Good
  <1>. QED
    BY <1>1, <1>3, <1>4, <1>5

-----------------------------------------------------------------------------
(* Growth.                                                                 *)

(* g shows the table that grows out of t, slot by slot, up to slot m.      *)
Moves(t, g, m) ==
  g = [n \in 0..m |->
         IF n = 0 THEN [i \in 0..NextCapacity(t)-1 |-> Unused]
         ELSE IF t[n-1].key = Null THEN g[n-1]
         ELSE Place(g[n-1], t[n-1])]

(* What holds of 0, and of the number after each it holds of, up to n.     *)
LEMMA Climb ==
  ASSUME NEW n \in Nat, NEW S, 0 \in S,
         \A m \in 0..n : m < n /\ m \in S => m + 1 \in S
  PROVE  \A m \in 0..n : m \in S
  <1>. DEFINE bad == {m \in 0..n : m \notin S}
  <1>1. SUFFICES ASSUME bad # {}
                 PROVE  FALSE
    OBVIOUS
  <1>2. bad \in SUBSET Nat
    OBVIOUS
  <1>3. PICK b \in bad : \A x \in bad : b <= x
    <2>. HIDE DEF bad
    <2>. QED
      BY <1>1, <1>2, LeastOf
  <1>4. b \in 0..n /\ b \notin S /\ b # 0
    OBVIOUS
  <1>5. b - 1 \in 0..n /\ b - 1 < n /\ ~(b <= b - 1) /\ b - 1 + 1 = b
    BY <1>4
  <1>6. b - 1 \in S
    BY <1>3, <1>5
  <1>. QED
    BY <1>4, <1>5, <1>6

(* Every table can be moved.                                               *)
LEMMA Movable ==
  ASSUME NEW t, NEW m \in Nat
  PROVE  \E g : Moves(t, g, m)
  <1>. DEFINE new == [i \in 0..NextCapacity(t)-1 |-> Unused]
              S == {n \in Nat : \E g : Moves(t, g, n)}
  <1>1. 0 \in S
    <2>. DEFINE g == [n \in 0..0 |-> new]
    <2>1. Moves(t, g, 0)
      BY DEF Moves
    <2>. QED
      BY <2>1
  <1>2. ASSUME NEW a \in Nat, a \in S
        PROVE  a + 1 \in S
    <2>1. PICK f : Moves(t, f, a)
      BY <1>2
    <2>. DEFINE b == a + 1
                last == IF t[b-1].key = Null THEN f[b-1] ELSE Place(f[b-1], t[b-1])
                g == [n \in 0..b |-> IF n = b THEN last ELSE f[n]]
                step(n, q) == IF n = 0 THEN new
                              ELSE IF t[n-1].key = Null THEN q[n-1]
                              ELSE Place(q[n-1], t[n-1])
    <2>2. f = [n \in 0..a |-> step(n, f)]
      BY <2>1 DEF Moves
    <2>3. ASSUME NEW n \in 0..b
          PROVE  g[n] = step(n, g)
      <3>1. CASE n = b
        <4>1. n # 0 /\ n - 1 \in 0..b /\ n - 1 # b
          BY <3>1
        <4>2. g[n - 1] = f[n - 1] /\ g[n] = last
          BY <3>1, <4>1
        <4>. QED
          BY <3>1, <4>1, <4>2
      <3>2. CASE n # b
        <4>1. n \in 0..a /\ (n # 0 => n - 1 \in 0..b /\ n - 1 # b)
          BY <3>2
        <4>2. g[n] = f[n] /\ (n # 0 => g[n - 1] = f[n - 1])
          BY <3>2, <4>1
        <4>3. f[n] = step(n, f)
          BY <2>2, <4>1
        <4>. QED
          BY <4>1, <4>2, <4>3
      <3>. QED
        BY <3>1, <3>2
    <2>4. g = [n \in 0..b |-> g[n]]
      OBVIOUS
    <2>5. g = [n \in 0..b |-> step(n, g)]
      <3>. HIDE DEF g, step
      <3>. QED
        BY <2>3, <2>4
    <2>6. Moves(t, g, b)
      BY <2>5 DEF Moves
    <2>. QED
      BY <2>6
  <1>. HIDE DEF S
  <1>3. \A n \in 0..m : n \in S
    BY <1>1, <1>2, Climb
  <1>4. m \in S
    BY <1>3
  <1>. QED
    BY <1>4 DEF S

(* So Grow(t) is the last of its tables.                                   *)
LEMMA GrowMoves ==
  ASSUME NEW t, Capacity(t) \in Nat
  PROVE  \E g : Moves(t, g, Capacity(t)) /\ Grow(t) = g[Capacity(t)]
  <1>1. Grow(t) = (CHOOSE g : Moves(t, g, Capacity(t)))[Capacity(t)]
    BY DEF Grow, Moves
  <1>2. \E g : Moves(t, g, Capacity(t))
    BY Movable
  <1>. QED
    BY <1>1, <1>2

(* The entries of a table are as many as the slots that hold them, and no  *)
(* more than the slots.                                                    *)
Entries(t) == {t[i] : i \in Live(t)}
LEMMA EntriesCount ==
  ASSUME NEW t, Good(t)
  PROVE  /\ IsFiniteSet(Live(t)) /\ Cardinality(Live(t)) \in Nat
         /\ Cardinality(Entries(t)) = Cardinality(Live(t))
         /\ Cardinality(Live(t)) <= Capacity(t)
         /\ Cardinality(Live(t)) < Capacity(t) => \E x \in DOMAIN t : x \notin Live(t)
  <1>1. DOMAIN t = 0..Capacity(t)-1 /\ Capacity(t) \in Nat
    BY DEF Good, IsTable
  <1>2. IsFiniteSet(DOMAIN t) /\ Cardinality(DOMAIN t) = Capacity(t)
    <2>1. 0 \in Int /\ Capacity(t) - 1 \in Int
      BY <1>1
    <2>. QED
      BY <1>1, <2>1, FS_Interval DEF Capacity
  <1>3. Live(t) \in SUBSET DOMAIN t
    BY DEF Live
  <1>4. IsFiniteSet(Live(t)) /\ Cardinality(Live(t)) <= Capacity(t)
    BY <1>2, <1>3, FS_Subset
  <1>5. Cardinality(Live(t)) \in Nat
    BY <1>4, FS_CardinalityType
  <1>6. Cardinality(Entries(t)) = Cardinality(Live(t))
    <2>. DEFINE f == [i \in Live(t) |-> t[i]]
    <2>1. f \in [Live(t) -> Entries(t)]
      BY DEF Entries
    <2>2. \A i, j \in Live(t) : f[i] = f[j] => i = j
      BY HeldOnce
    <2>3. \A e \in Entries(t) : \E i \in Live(t) : f[i] = e
      BY DEF Entries
    <2>4. f \in Bijection(Live(t), Entries(t))
      BY <2>1, <2>2, <2>3 DEF Bijection, Injection, Surjection, IsInjective
    <2>. QED
      BY <1>4, <2>4, FS_Bijection DEF ExistsBijection
  <1>7. ASSUME Cardinality(Live(t)) < Capacity(t)
        PROVE  \E x \in DOMAIN t : x \notin Live(t)
    <2>1. Live(t) # DOMAIN t
      BY <1>1, <1>2, <1>7
    <2>. QED
      BY <1>3, <2>1
  <1>. QED
    BY <1>4, <1>5, <1>6, <1>7

(* An entry of a new key is moved to a slot without one.                   *)
LEMMA Placed ==
  ASSUME NEW t, Good(t), NEW e \in Entry, \A j \in Live(t) : t[j].key # e.key,
         Cardinality(Live(t)) < Capacity(t)
  PROVE  LET u == Place(t, e) IN
         /\ Good(u) /\ Capacity(u) = Capacity(t)
         /\ Entries(u) = Entries(t) \cup {e}
         /\ Cardinality(Live(u)) = Cardinality(Live(t)) + 1
  <1>. DEFINE k == e.key
              free == {d \in DOMAIN t : t[Probe(t, k, d)].key = Null}
              i == Probe(t, k, Least(free))
  <1>1. IsTable(t) /\ k \in Keys /\ DOMAIN t = 0..Capacity(t)-1 /\ Capacity(t) \in Nat
    BY DEF Good, IsTable, Entry
  <1>2. PICK x \in DOMAIN t : x \notin Live(t)
    BY EntriesCount
  <1>3. PICK y \in DOMAIN t : Probe(t, k, y) = x
    BY <1>1, Probes
  <1>4. y \in free
    BY <1>2, <1>3 DEF Live
  <1>5. free \in SUBSET Nat
    BY <1>1
  <1>6. PICK d : d = Least(free) /\ d \in free /\ \A z \in free : d <= z
    <2>. HIDE DEF free
    <2>. QED
      BY <1>4, <1>5, LeastIn
  <1>7. d \in DOMAIN t /\ i = Probe(t, k, d) /\ i \in DOMAIN t /\ i \notin Live(t)
    <2>1. d \in DOMAIN t /\ t[Probe(t, k, d)].key = Null /\ i = Probe(t, k, d)
      BY <1>6
    <2>. QED
      BY <1>1, <2>1, Probes DEF Live
  <1>8. ASSUME NEW z \in 0..d-1
        PROVE  t[Probe(t, k, z)] # Unused
    <2>1. z \in DOMAIN t /\ ~(d <= z)
      BY <1>1, <1>7
    <2>2. z \notin free
      BY <1>6, <2>1
    <2>. QED
      BY <2>1, <2>2, Marks
  <1>9. Place(t, e) = [t EXCEPT ![i] = e]
    BY DEF Place
  <1>10. PICK s : s = i
    OBVIOUS
  <1>. HIDE DEF i, free
  <1>11. Good(At(t, s, e)) /\ Live(At(t, s, e)) = Live(t) \cup {s}
    <2>1. \E q \in DOMAIN t : /\ Probe(t, k, q) = s
                              /\ \A z \in 0..q-1 : t[Probe(t, k, z)] # Unused
      BY <1>7, <1>8, <1>10
    <2>2. s \in DOMAIN t /\ s \notin Live(t)
      BY <1>7, <1>10
    <2>. QED
      BY <2>1, <2>2, Filled
  <1>12. PICK u : u = At(t, s, e)
    OBVIOUS
  <1>13. /\ u = Place(t, e) /\ Capacity(u) = Capacity(t)
         /\ u[s] = e /\ \A j \in DOMAIN t : j # s => u[j] = t[j]
    <2>1. e \in Slot /\ s \in DOMAIN t
      BY <1>7, <1>10 DEF Slot
    <2>2. IsTable(t)
      BY <1>1
    <2>3. /\ Capacity(At(t, s, e)) = Capacity(t)
          /\ At(t, s, e)[s] = e
          /\ \A j \in DOMAIN t : j # s => At(t, s, e)[j] = t[j]
      BY <2>1, <2>2, AtTable
    <2>4. At(t, s, e) = [t EXCEPT ![s] = e]
      BY <2>2, AtIs
    <2>5. At(t, s, e) = Place(t, e)
      BY <1>9, <1>10, <2>4
    <2>. QED
      BY <1>12, <2>3, <2>5
  <1>14. Good(u) /\ Live(u) = Live(t) \cup {s}
    BY <1>11, <1>12
  <1>15. Entries(u) = Entries(t) \cup {e}
    <2>1. \A j \in Live(t) : u[j] = t[j]
      BY <1>7, <1>10, <1>13 DEF Live
    <2>. QED
      BY <1>13, <1>14, <2>1 DEF Entries
  <1>16. Cardinality(Live(u)) = Cardinality(Live(t)) + 1
    <2>1. IsFiniteSet(Live(t)) /\ s \notin Live(t)
      BY <1>7, <1>10, EntriesCount
    <2>2. Cardinality(Live(t) \cup {s}) = Cardinality(Live(t)) + 1
      BY <2>1, FS_AddElement
    <2>. QED
      BY <1>14, <2>2
  <1>. QED
    BY <1>13, <1>14, <1>15, <1>16

(* hash_grow loses no entry and adds none.                                 *)
LEMMA Grown ==
  ASSUME NEW t, Good(t)
  PROVE  LET u == Grow(t) IN
         /\ Good(u) /\ Capacity(u) = NextCapacity(t)
         /\ Entries(u) = Entries(t)
         /\ Cardinality(Live(u)) = Cardinality(Live(t))
         /\ Cardinality(Live(t)) < Capacity(u)
  <1>. DEFINE n == Capacity(t)
              size == NextCapacity(t)
  <1>1. IsTable(t) /\ n \in Nat /\ DOMAIN t = 0..n-1
    BY DEF Good, IsTable
  <1>2. size \in Nat /\ size > n
    BY <1>1, HashAssumption DEF NextCapacity
  <1>3. PICK g : Moves(t, g, n) /\ Grow(t) = g[n]
    BY <1>1, GrowMoves
  <1>. DEFINE from(m) == {t[i] : i \in {j \in Live(t) : j < m}}
              Is(m) == /\ Good(g[m]) /\ Capacity(g[m]) = size
                       /\ Entries(g[m]) = from(m)
                       /\ Cardinality(Live(g[m])) <= m
              S == {m \in 0..n : Is(m)}
  <1>. HIDE DEF n, size
  <1>4. 0 \in 0..n /\ n \in 0..n
    BY <1>1
  <1>5. g[0] = [i \in 0..size-1 |-> Unused]
    BY <1>3, <1>4 DEF Moves, size
  <1>6. 0 \in S
    <2>1. Good(g[0]) /\ Live(g[0]) = {} /\ Capacity(g[0]) = size
      BY <1>2, <1>5, Fresh
    <2>2. Cardinality(Live(g[0])) <= 0
      BY <2>1, FS_EmptySet
    <2>3. from(0) = {}
      <3>1. \A j \in Live(t) : ~(j < 0)
        BY <1>1 DEF Live
      <3>. QED
        BY <3>1
    <2>4. Entries(g[0]) = {}
      BY <2>1 DEF Entries
    <2>. QED
      BY <1>4, <2>1, <2>2, <2>3, <2>4
  <1>7. ASSUME NEW m \in 0..n, m < n, m \in S
        PROVE  m + 1 \in S
    <2>1. PICK u : u = g[m]
      OBVIOUS
    <2>2. /\ Good(u) /\ Capacity(u) = size /\ Entries(u) = from(m)
          /\ Cardinality(Live(u)) <= m /\ Cardinality(Live(u)) \in Nat
      BY <1>7, <2>1, EntriesCount
    <2>3. m + 1 \in 0..n /\ m + 1 # 0 /\ m + 1 - 1 = m /\ m \in DOMAIN t
      BY <1>1, <1>7
    <2>4. g[m+1] = IF t[m].key = Null THEN u ELSE Place(u, t[m])
      <3>1. \A q \in 0..n : q # 0 =>
              g[q] = IF t[q-1].key = Null THEN g[q-1] ELSE Place(g[q-1], t[q-1])
        BY <1>3 DEF Moves
      <3>2. PICK q \in 0..n : q = m + 1
        BY <2>3
      <3>. QED
        BY <2>1, <2>3, <3>1, <3>2
    <2>5. \A j \in Live(t) : j < m + 1 <=> (j < m \/ j = m)
      BY <1>1 DEF Live
    <2>6. CASE t[m].key = Null
      <3>1. m \notin Live(t)
        BY <2>6 DEF Live
      <3>2. from(m + 1) = from(m)
        BY <2>5, <3>1
      <3>3. Cardinality(Live(u)) <= m + 1
        BY <2>2
      <3>4. Is(m + 1)
        <4>. HIDE DEF from
        <4>. QED
          BY <2>1, <2>2, <2>4, <2>6, <3>2, <3>3
      <3>. QED
        BY <2>3, <3>4
    <2>7. CASE t[m].key # Null
      <3>1. m \in Live(t) /\ t[m] \in Entry
        BY <1>1, <2>3, <2>7, Slots
      <3>2. from(m + 1) = from(m) \cup {t[m]}
        BY <2>5, <3>1
      <3>3. \A j \in Live(u) : u[j].key # t[m].key
        <4>1. SUFFICES ASSUME NEW j \in Live(u)
                       PROVE  u[j].key # t[m].key
          OBVIOUS
        <4>2. PICK i \in Live(t) : i < m /\ u[j] = t[i]
          BY <2>2 DEF Entries
        <4>3. i # m
          BY <1>1, <2>3, <4>2 DEF Live
        <4>. QED
          BY <3>1, <4>2, <4>3, HeldOnce
      <3>4. Cardinality(Live(u)) < Capacity(u)
        BY <1>1, <1>2, <1>7, <2>2
      <3>5. PICK w : w = Place(u, t[m])
        OBVIOUS
      <3>6. /\ Good(w) /\ Capacity(w) = size
            /\ Entries(w) = Entries(u) \cup {t[m]}
            /\ Cardinality(Live(w)) = Cardinality(Live(u)) + 1
        BY <2>2, <3>1, <3>3, <3>4, <3>5, Placed
      <3>7. Cardinality(Live(w)) <= m + 1
        BY <2>2, <3>6
      <3>8. Is(m + 1)
        <4>. HIDE DEF from
        <4>. QED
          BY <2>2, <2>4, <2>7, <3>2, <3>5, <3>6, <3>7
      <3>. QED
        BY <2>3, <3>8
    <2>. QED
      BY <2>6, <2>7
  <1>8. n \in S
    <2>. HIDE DEF S
    <2>1. \A m \in 0..n : m < n /\ m \in S => m + 1 \in S
      BY <1>7
    <2>. QED
      BY <1>1, <1>4, <1>6, <2>1, Climb
  <1>9. PICK u : u = g[n]
    OBVIOUS
  <1>10. Good(u) /\ Capacity(u) = size /\ Entries(u) = from(n)
    BY <1>8, <1>9
  <1>11. from(n) = Entries(t)
    <2>1. \A j \in Live(t) : j < n
      BY <1>1 DEF Live
    <2>. QED
      BY <2>1 DEF Entries
  <1>12. Cardinality(Live(u)) = Cardinality(Live(t))
    <2>1. Entries(u) = Entries(t)
      BY <1>10, <1>11
    <2>2. Cardinality(Entries(u)) = Cardinality(Live(u))
      BY <1>10, EntriesCount
    <2>. QED
      BY <2>1, <2>2, EntriesCount
  <1>13. Cardinality(Live(t)) < size
    BY <1>1, <1>2, EntriesCount DEF n
  <1>. QED
    <2>. HIDE DEF from
    <2>. QED
      BY <1>3, <1>9, <1>10, <1>11, <1>12, <1>13 DEF size, n

-----------------------------------------------------------------------------
(* A hash, and what its operations do to the set of its entries.           *)

HashOK(h) ==
  /\ h = [entries |-> h.entries, count |-> h.count,
          next_sequence |-> h.next_sequence, order_mode |-> h.order_mode]
  /\ Good(h.entries)
  /\ h.count = Cardinality(Live(h.entries))
  /\ h.next_sequence \in Nat /\ h.order_mode \in 0..2
  /\ \A e \in Entries(h.entries) : e.sequence \in 1..h.next_sequence
  /\ \A d, e \in Entries(h.entries) : d.sequence = e.sequence => d = e

(* The entries of a good table, by their keys.                             *)
LEMMA EntryKeys ==
  ASSUME NEW t, Good(t)
  PROVE  /\ Entries(t) \subseteq Entry
         /\ \A d, e \in Entries(t) : d.key = e.key => d = e
         /\ \A k \in Keys : Holds(t, k) <=> \E e \in Entries(t) : e.key = k
  <1>1. IsTable(t)
    BY DEF Good
  <1>2. \A i \in Live(t) : t[i] \in Entry
    BY <1>1, Slots DEF Live
  <1>3. \A d, e \in Entries(t) : d.key = e.key => d = e
    BY HeldOnce DEF Entries
  <1>4. \A k \in Keys : Holds(t, k) <=> \E e \in Entries(t) : e.key = k
    BY HeldOnce DEF Entries
  <1>. QED
    BY <1>2, <1>3, <1>4 DEF Entries

(* The entries after a change of one slot.                                 *)
LEMMA EntriesAt ==
  ASSUME NEW t, Good(t), NEW i \in DOMAIN t, NEW e \in Slot, NEW u, u = At(t, i, e)
  PROVE  /\ i \notin Live(t) /\ Live(u) = Live(t) \cup {i}
              => Entries(u) = Entries(t) \cup {e}
         /\ i \in Live(t) /\ Live(u) = Live(t)
              => Entries(u) = (Entries(t) \ {t[i]}) \cup {e}
         /\ i \in Live(t) /\ Live(u) = Live(t) \ {i}
              => Entries(u) = Entries(t) \ {t[i]}
  <1>1. IsTable(t)
    BY DEF Good
  <1>2. u[i] = e /\ \A j \in DOMAIN t : j # i => u[j] = t[j]
    <2>1. At(t, i, e)[i] = e /\ \A j \in DOMAIN t : j # i => At(t, i, e)[j] = t[j]
      BY <1>1, AtTable
    <2>. QED
      BY <2>1
  <1>3. \A j \in Live(t) : j \in DOMAIN t /\ (j # i => u[j] = t[j])
    BY <1>2 DEF Live
  <1>4. \A j \in Live(t) : t[j] = t[i] /\ i \in Live(t) => j = i
    BY HeldOnce
  <1>5. ASSUME i \notin Live(t), Live(u) = Live(t) \cup {i}
        PROVE  Entries(u) = Entries(t) \cup {e}
    BY <1>2, <1>3, <1>5 DEF Entries
  <1>6. ASSUME i \in Live(t), Live(u) = Live(t)
        PROVE  Entries(u) = (Entries(t) \ {t[i]}) \cup {e}
    <2>1. ASSUME NEW x \in Entries(u)
          PROVE  x \in (Entries(t) \ {t[i]}) \cup {e}
      BY <1>2, <1>3, <1>4, <1>6 DEF Entries
    <2>2. ASSUME NEW x \in (Entries(t) \ {t[i]}) \cup {e}
          PROVE  x \in Entries(u)
      BY <1>2, <1>3, <1>6 DEF Entries
    <2>. QED
      BY <2>1, <2>2
  <1>7. ASSUME i \in Live(t), Live(u) = Live(t) \ {i}
        PROVE  Entries(u) = Entries(t) \ {t[i]}
    <2>1. ASSUME NEW x \in Entries(u)
          PROVE  x \in Entries(t) \ {t[i]}
      BY <1>2, <1>3, <1>4, <1>7 DEF Entries
    <2>2. ASSUME NEW x \in Entries(t) \ {t[i]}
          PROVE  x \in Entries(u)
      BY <1>2, <1>3, <1>7 DEF Entries
    <2>. QED
      BY <2>1, <2>2
  <1>. QED
    BY <1>5, <1>6, <1>7

(* The table that set searches has the same entries, and one slot more.    *)
LEMMA Roomy ==
  ASSUME NEW h, HashOK(h)
  PROVE  /\ Good(Room(h)) /\ Entries(Room(h)) = Entries(h.entries)
         /\ Cardinality(Live(Room(h))) = h.count
         /\ h.count \in Nat /\ h.count < Capacity(Room(h))
  <1>. DEFINE t == h.entries
  <1>1. Good(t) /\ h.count = Cardinality(Live(t)) /\ h.count \in Nat
        /\ Capacity(t) \in Nat
    BY EntriesCount DEF HashOK, Good, IsTable
  <1>2. CASE h.count + 1 > (Capacity(t) * 3) \div 4
    <2>1. Room(h) = Grow(t)
      BY <1>2 DEF Room
    <2>2. /\ Good(Grow(t)) /\ Entries(Grow(t)) = Entries(t)
          /\ Cardinality(Live(Grow(t))) = Cardinality(Live(t))
          /\ Cardinality(Live(t)) < Capacity(Grow(t))
      BY <1>1, Grown
    <2>. QED
      BY <1>1, <2>1, <2>2
  <1>3. CASE ~(h.count + 1 > (Capacity(t) * 3) \div 4)
    <2>1. Room(h) = t
      BY <1>3 DEF Room
    <2>2. h.count < Capacity(t)
      <3>1. \A n, c \in Nat : ~(c + 1 > (n * 3) \div 4) => c < n
        OBVIOUS
      <3>. QED
        BY <1>1, <1>3, <3>1
    <2>. QED
      BY <1>1, <2>1, <2>2
  <1>. QED
    BY <1>2, <1>3

(* A key keeps its entry and its number; a new key gets a new number.      *)
LEMMA PutEntries ==
  ASSUME NEW h, HashOK(h), NEW k \in Keys, NEW v \in Values
  PROVE  LET g == Put(h, k, v)
             E == Entries(h.entries)
         IN
         /\ HashOK(g) /\ g.order_mode = h.order_mode
         /\ \A e \in E : e.key = k =>
              /\ Entries(g.entries) =
                   (E \ {e}) \cup {[key |-> k, value |-> v, sequence |-> e.sequence]}
              /\ g.count = h.count /\ g.next_sequence = h.next_sequence
         /\ (\A e \in E : e.key # k) =>
              /\ Entries(g.entries) =
                   E \cup {[key |-> k, value |-> v, sequence |-> h.next_sequence + 1]}
              /\ g.count = h.count + 1 /\ g.next_sequence = h.next_sequence + 1
  <1>1. PICK g : g = Put(h, k, v)
    OBVIOUS
  <1>2. PICK t : t = Room(h)
    OBVIOUS
  <1>3. PICK E : E = Entries(h.entries)
    OBVIOUS
  <1>4. /\ Good(t) /\ IsTable(t) /\ Entries(t) = E
        /\ Cardinality(Live(t)) = h.count
        /\ h.count \in Nat /\ h.count < Capacity(t)
    BY <1>2, <1>3, Roomy DEF Good
  <1>5. /\ h = [entries |-> h.entries, count |-> h.count,
                next_sequence |-> h.next_sequence, order_mode |-> h.order_mode]
        /\ h.next_sequence \in Nat /\ h.order_mode \in 0..2
        /\ \A e \in E : e.sequence \in 1..h.next_sequence
        /\ \A d, e \in E : d.sequence = e.sequence => d = e
    BY <1>3 DEF HashOK
  <1>6. /\ E \subseteq Entry
        /\ \A d, e \in E : d.key = e.key => d = e
        /\ Holds(t, k) <=> \E e \in E : e.key = k
    BY <1>4, EntryKeys
  <1>7. ASSUME NEW e \in E, e.key = k
        PROVE  /\ HashOK(g) /\ g.order_mode = h.order_mode
               /\ Entries(g.entries) =
                    (E \ {e}) \cup {[key |-> k, value |-> v, sequence |-> e.sequence]}
               /\ g.count = h.count /\ g.next_sequence = h.next_sequence
    <2>1. PICK i : i = Index(t, k)
      OBVIOUS
    <2>2. Holds(t, k)
      BY <1>6, <1>7
    <2>3. i \in Live(t) /\ t[i].key = k
      BY <1>4, <2>1, <2>2, Finds
    <2>4. t[i] = e /\ i \in DOMAIN t
      BY <1>4, <1>6, <1>7, <2>3 DEF Entries, Live
    <2>5. PICK w : w = [key |-> k, value |-> v, sequence |-> e.sequence]
      OBVIOUS
    <2>6. w \in Entry /\ w.key = k /\ w \in Slot /\ w # Tombstone
          /\ w.sequence = e.sequence
      <3>1. w \in Entry /\ w.key = k /\ w.sequence = e.sequence
        BY <1>6, <2>5 DEF Entry
      <3>. QED
        BY <3>1, HashAssumption, Marks DEF Slot
    <2>7. [t[i] EXCEPT !.value = v] = w
      BY <1>6, <2>4, <2>5, <1>7 DEF Entry
    <2>8. g = [h EXCEPT !.entries = [t EXCEPT ![i].value = v]]
      BY <1>1, <1>2, <2>1, <2>2 DEF Put
    <2>9. PICK u : u = At(t, i, w)
      OBVIOUS
    <2>10. [t EXCEPT ![i].value = v] = u
      <3>1. [t EXCEPT ![i].value = v] = [t EXCEPT ![i] = [t[i] EXCEPT !.value = v]]
        OBVIOUS
      <3>2. [t EXCEPT ![i].value = v] = [t EXCEPT ![i] = w]
        BY <2>7, <3>1
      <3>3. At(t, i, w) = [t EXCEPT ![i] = w]
        BY <1>4, AtIs
      <3>. QED
        BY <2>9, <3>2, <3>3
    <2>11. g = [entries |-> u, count |-> h.count,
                next_sequence |-> h.next_sequence, order_mode |-> h.order_mode]
      BY <1>5, <2>8, <2>10
    <2>12. Good(u) /\ Live(u) = Live(t)
      <3>1. Good(At(t, i, w)) /\ Live(At(t, i, w)) = Live(t)
        BY <1>4, <2>3, <2>6, Replaced
      <3>. QED
        BY <2>9, <3>1
    <2>13. Entries(u) = (E \ {e}) \cup {w}
      BY <1>4, <2>3, <2>4, <2>6, <2>9, <2>12, EntriesAt
    <2>14. \A d \in Entries(u) : d.sequence \in 1..h.next_sequence
      BY <1>5, <2>6, <2>13
    <2>15. \A c, d \in Entries(u) : c.sequence = d.sequence => c = d
      BY <1>5, <2>6, <2>13
    <2>16. HashOK(g)
      BY <1>4, <1>5, <2>11, <2>12, <2>14, <2>15 DEF HashOK
    <2>. QED
      BY <2>5, <2>11, <2>13, <2>16
  <1>8. ASSUME \A e \in E : e.key # k
        PROVE  /\ HashOK(g) /\ g.order_mode = h.order_mode
               /\ Entries(g.entries) =
                    E \cup {[key |-> k, value |-> v, sequence |-> h.next_sequence + 1]}
               /\ g.count = h.count + 1 /\ g.next_sequence = h.next_sequence + 1
    <2>1. PICK i : i = Landing(t, k)
      OBVIOUS
    <2>2. ~Holds(t, k)
      BY <1>6, <1>8
    <2>3. PICK x \in DOMAIN t : x \notin Live(t)
      BY <1>4, EntriesCount
    <2>4. /\ i \in DOMAIN t /\ i \notin Live(t)
          /\ \E d \in DOMAIN t : /\ Probe(t, k, d) = i
                                 /\ \A c \in 0..d-1 : t[Probe(t, k, c)] # Unused
      BY <1>4, <2>1, <2>2, <2>3, Lands
    <2>5. PICK w : w = [key |-> k, value |-> v, sequence |-> h.next_sequence + 1]
      OBVIOUS
    <2>6. w \in Entry /\ w.key = k /\ w \in Slot /\ w.sequence = h.next_sequence + 1
      BY <1>5, <2>5 DEF Entry, Slot
    <2>7. g = [h EXCEPT !.entries = [t EXCEPT ![i] = w], !.count = @ + 1,
                        !.next_sequence = @ + 1]
      BY <1>1, <1>2, <2>1, <2>2, <2>5 DEF Put
    <2>8. PICK u : u = At(t, i, w)
      OBVIOUS
    <2>9. [t EXCEPT ![i] = w] = u
      BY <1>4, <2>8, AtIs
    <2>10. g = [entries |-> u, count |-> h.count + 1,
                next_sequence |-> h.next_sequence + 1, order_mode |-> h.order_mode]
      BY <1>5, <2>7, <2>9
    <2>11. Good(u) /\ Live(u) = Live(t) \cup {i}
      <3>1. \A j \in Live(t) : t[j].key # k
        BY <1>4, <1>8 DEF Entries
      <3>2. Good(At(t, i, w)) /\ Live(At(t, i, w)) = Live(t) \cup {i}
        BY <1>4, <2>4, <2>6, <3>1, Filled
      <3>. QED
        BY <2>8, <3>2
    <2>12. Entries(u) = E \cup {w}
      BY <1>4, <2>4, <2>6, <2>8, <2>11, EntriesAt
    <2>13. \A d \in Entries(u) : d.sequence \in 1..h.next_sequence + 1
      BY <1>5, <2>6, <2>12
    <2>14. \A c, d \in Entries(u) : c.sequence = d.sequence => c = d
      <3>1. \A d \in E : d.sequence # w.sequence
        BY <1>5, <2>6
      <3>. QED
        BY <1>5, <2>12, <3>1
    <2>15. Cardinality(Live(u)) = h.count + 1
      <3>1. IsFiniteSet(Live(t))
        BY <1>4, EntriesCount
      <3>2. Cardinality(Live(t) \cup {i}) = Cardinality(Live(t)) + 1
        BY <2>4, <3>1, FS_AddElement
      <3>. QED
        BY <1>4, <2>11, <3>2
    <2>16. h.next_sequence + 1 \in Nat
      BY <1>5
    <2>17. HashOK(g)
      BY <1>5, <2>10, <2>11, <2>13, <2>14, <2>15, <2>16 DEF HashOK
    <2>. QED
      BY <2>5, <2>10, <2>12, <2>17
  <1>9. HashOK(g) /\ g.order_mode = h.order_mode
    BY <1>7, <1>8
  <1>. QED
    BY <1>1, <1>3, <1>7, <1>8, <1>9

(* slp_obj_hash_delete takes out the entry of its key.                     *)
LEMMA WithoutEntries ==
  ASSUME NEW h, HashOK(h), NEW k \in Keys
  PROVE  LET g == Without(h, k)
             E == Entries(h.entries)
         IN
         /\ HashOK(g) /\ g.order_mode = h.order_mode
         /\ g.next_sequence = h.next_sequence
         /\ \A e \in E : e.key = k =>
              Entries(g.entries) = E \ {e} /\ g.count = h.count - 1
         /\ (\A e \in E : e.key # k) => g = h
  <1>1. PICK g : g = Without(h, k)
    OBVIOUS
  <1>2. PICK t : t = h.entries
    OBVIOUS
  <1>3. PICK E : E = Entries(t)
    OBVIOUS
  <1>4. /\ Good(t) /\ IsTable(t) /\ h.count = Cardinality(Live(t))
        /\ h = [entries |-> t, count |-> h.count,
                next_sequence |-> h.next_sequence, order_mode |-> h.order_mode]
        /\ h.next_sequence \in Nat /\ h.order_mode \in 0..2
        /\ \A e \in E : e.sequence \in 1..h.next_sequence
        /\ \A d, e \in E : d.sequence = e.sequence => d = e
    BY <1>2, <1>3 DEF HashOK, Good
  <1>5. /\ \A d, e \in E : d.key = e.key => d = e
        /\ Holds(t, k) <=> \E e \in E : e.key = k
    BY <1>3, <1>4, EntryKeys
  <1>6. ASSUME NEW e \in E, e.key = k
        PROVE  /\ HashOK(g) /\ g.order_mode = h.order_mode
               /\ g.next_sequence = h.next_sequence
               /\ Entries(g.entries) = E \ {e} /\ g.count = h.count - 1
    <2>1. PICK i : i = Index(t, k)
      OBVIOUS
    <2>2. Holds(t, k)
      BY <1>5, <1>6
    <2>3. i \in Live(t) /\ t[i].key = k
      BY <1>4, <2>1, <2>2, Finds
    <2>4. t[i] = e /\ i \in DOMAIN t
      BY <1>3, <1>5, <1>6, <2>3 DEF Entries, Live
    <2>5. g = [h EXCEPT !.entries[i] = Tombstone, !.count = @ - 1]
      BY <1>1, <1>2, <2>1, <2>2 DEF Without
    <2>6. PICK u : u = At(t, i, Tombstone)
      OBVIOUS
    <2>7. [t EXCEPT ![i] = Tombstone] = u
      BY <1>4, <2>6, AtIs
    <2>8. g = [entries |-> u, count |-> h.count - 1,
               next_sequence |-> h.next_sequence, order_mode |-> h.order_mode]
      <3>1. [h.entries EXCEPT ![i] = Tombstone] = u
        BY <1>2, <2>7
      <3>2. PICK x : x = [h EXCEPT !.entries = u]
        OBVIOUS
      <3>3. g = [x EXCEPT !.count = h.count - 1]
        BY <2>5, <3>1, <3>2
      <3>4. x = [entries |-> u, count |-> h.count,
                 next_sequence |-> h.next_sequence, order_mode |-> h.order_mode]
        BY <1>4, <3>2
      <3>. QED
        BY <3>3, <3>4
    <2>9. Good(u) /\ Live(u) = Live(t) \ {i}
      <3>1. /\ Good(At(t, i, Tombstone))
            /\ Live(At(t, i, Tombstone)) = Live(t) \ {i}
        BY <1>4, <2>3, Replaced
      <3>. QED
        BY <2>6, <3>1
    <2>10. Entries(u) = E \ {e}
      <3>1. Tombstone \in Slot
        BY DEF Slot
      <3>. QED
        BY <1>3, <1>4, <2>3, <2>4, <2>6, <2>9, <3>1, EntriesAt
    <2>11. Cardinality(Live(u)) = h.count - 1
      <3>1. IsFiniteSet(Live(t))
        BY <1>4, EntriesCount
      <3>2. Cardinality(Live(t) \ {i}) = Cardinality(Live(t)) - 1
        BY <2>3, <3>1, FS_RemoveElement
      <3>. QED
        BY <1>4, <2>9, <3>2
    <2>12. HashOK(g)
      BY <1>4, <2>8, <2>9, <2>10, <2>11 DEF HashOK
    <2>. QED
      BY <2>8, <2>10, <2>12
  <1>7. ASSUME \A e \in E : e.key # k
        PROVE  g = h
    <2>1. ~Holds(t, k)
      BY <1>5, <1>7
    <2>. QED
      BY <1>1, <1>2, <2>1 DEF Without
  <1>. QED
    BY <1>1, <1>2, <1>3, <1>6, <1>7

(* A read that makes its key the last gives its entry a new number.        *)
Touched(h, k) ==
  [h EXCEPT !.entries[Index(h.entries, k)].sequence = h.next_sequence + 1,
            !.next_sequence = @ + 1]
LEMMA TouchedEntries ==
  ASSUME NEW h, HashOK(h), NEW k \in Keys, NEW e \in Entries(h.entries), e.key = k
  PROVE  LET g == Touched(h, k)
             E == Entries(h.entries)
         IN
         /\ HashOK(g) /\ g.order_mode = h.order_mode /\ g.count = h.count
         /\ g.next_sequence = h.next_sequence + 1
         /\ Entries(g.entries) = (E \ {e}) \cup
              {[key |-> k, value |-> e.value, sequence |-> h.next_sequence + 1]}
  <1>1. PICK g : g = Touched(h, k)
    OBVIOUS
  <1>2. PICK t : t = h.entries
    OBVIOUS
  <1>3. PICK E : E = Entries(t)
    OBVIOUS
  <1>4. /\ Good(t) /\ IsTable(t) /\ h.count = Cardinality(Live(t))
        /\ h = [entries |-> t, count |-> h.count,
                next_sequence |-> h.next_sequence, order_mode |-> h.order_mode]
        /\ h.next_sequence \in Nat /\ h.order_mode \in 0..2
        /\ \A d \in E : d.sequence \in 1..h.next_sequence
        /\ \A c, d \in E : c.sequence = d.sequence => c = d
    BY <1>2, <1>3 DEF HashOK, Good
  <1>5. /\ E \subseteq Entry /\ e \in E
        /\ \A c, d \in E : c.key = d.key => c = d
        /\ Holds(t, k) <=> \E d \in E : d.key = k
    BY <1>2, <1>3, <1>4, EntryKeys
  <1>6. PICK i : i = Index(t, k)
    OBVIOUS
  <1>7. i \in Live(t) /\ t[i].key = k
    BY <1>4, <1>5, <1>6, Finds
  <1>8. t[i] = e /\ i \in DOMAIN t
    BY <1>3, <1>5, <1>7 DEF Entries, Live
  <1>9. PICK w : w = [key |-> k, value |-> e.value, sequence |-> h.next_sequence + 1]
    OBVIOUS
  <1>10. w \in Entry /\ w.key = k /\ w.sequence = h.next_sequence + 1 /\ w \in Slot
    BY <1>4, <1>5, <1>9 DEF Entry, Slot
  <1>11. w # Tombstone
    BY <1>10, HashAssumption, Marks
  <1>12. [t[i] EXCEPT !.sequence = h.next_sequence + 1] = w
    BY <1>5, <1>8, <1>9 DEF Entry
  <1>13. PICK u : u = At(t, i, w)
    OBVIOUS
  <1>14. [t EXCEPT ![i].sequence = h.next_sequence + 1] = u
    <2>1. [t EXCEPT ![i].sequence = h.next_sequence + 1] =
          [t EXCEPT ![i] = [t[i] EXCEPT !.sequence = h.next_sequence + 1]]
      OBVIOUS
    <2>2. [t EXCEPT ![i].sequence = h.next_sequence + 1] = [t EXCEPT ![i] = w]
      BY <1>12, <2>1
    <2>3. At(t, i, w) = [t EXCEPT ![i] = w]
      BY <1>4, AtIs
    <2>. QED
      BY <1>13, <2>2, <2>3
  <1>15. g = [entries |-> u, count |-> h.count,
              next_sequence |-> h.next_sequence + 1, order_mode |-> h.order_mode]
    <2>1. g = [h EXCEPT !.entries[i].sequence = h.next_sequence + 1,
                        !.next_sequence = @ + 1]
      BY <1>1, <1>2, <1>6 DEF Touched
    <2>2. [h.entries EXCEPT ![i].sequence = h.next_sequence + 1] = u
      BY <1>2, <1>14
    <2>3. PICK x : x = [h EXCEPT !.entries = u]
      OBVIOUS
    <2>4. g = [x EXCEPT !.next_sequence = h.next_sequence + 1]
      BY <2>1, <2>2, <2>3
    <2>5. x = [entries |-> u, count |-> h.count,
               next_sequence |-> h.next_sequence, order_mode |-> h.order_mode]
      BY <1>4, <2>3
    <2>. QED
      BY <2>4, <2>5
  <1>16. Good(u) /\ Live(u) = Live(t)
    <2>1. Good(At(t, i, w)) /\ Live(At(t, i, w)) = Live(t)
      BY <1>4, <1>7, <1>10, <1>11, Replaced
    <2>. QED
      BY <1>13, <2>1
  <1>17. Entries(u) = (E \ {e}) \cup {w}
    BY <1>3, <1>4, <1>7, <1>8, <1>10, <1>13, <1>16, EntriesAt
  <1>18. \A d \in Entries(u) : d.sequence \in 1..h.next_sequence + 1
    BY <1>4, <1>10, <1>17
  <1>19. \A c, d \in Entries(u) : c.sequence = d.sequence => c = d
    <2>1. \A d \in E : d.sequence # w.sequence
      BY <1>4, <1>10
    <2>. QED
      BY <1>4, <1>17, <2>1
  <1>20. HashOK(g)
    <2>1. h.next_sequence + 1 \in Nat
      BY <1>4
    <2>. QED
      BY <1>4, <1>15, <1>16, <1>18, <1>19, <2>1 DEF HashOK
  <1>. QED
    BY <1>1, <1>2, <1>3, <1>9, <1>15, <1>17, <1>20

(* A new hash, and one that has been cleared, have no entries.             *)
LEMMA NewEntries ==
  ASSUME NEW m \in 0..2
  PROVE  HashOK(NewHash(m)) /\ Entries(NewHash(m).entries) = {}
  <1>1. PICK t : t = << >>
    OBVIOUS
  <1>2. t \in [0..0-1 -> Slot]
    BY <1>1
  <1>3. IsTable(t) /\ DOMAIN t = 0..0-1
    BY <1>2, TableOf
  <1>4. Live(t) = {}
    BY <1>3 DEF Live
  <1>5. Good(t) /\ Entries(t) = {}
    BY <1>3, <1>4 DEF Good, Entries
  <1>6. Cardinality(Live(t)) = 0
    BY <1>4, FS_EmptySet
  <1>. QED
    BY <1>1, <1>5, <1>6 DEF HashOK, NewHash

Cleared(h) ==
  [h EXCEPT !.entries = [i \in DOMAIN h.entries |-> Unused], !.count = 0]
LEMMA ClearedEntries ==
  ASSUME NEW h, HashOK(h)
  PROVE  LET g == Cleared(h) IN
         /\ HashOK(g) /\ g.order_mode = h.order_mode /\ g.count = 0
         /\ g.next_sequence = h.next_sequence /\ Entries(g.entries) = {}
  <1>1. PICK g : g = Cleared(h)
    OBVIOUS
  <1>2. PICK n \in Nat : DOMAIN h.entries = 0..n-1
    BY DEF HashOK, Good, IsTable
  <1>3. PICK u : u = [i \in 0..n-1 |-> Unused]
    OBVIOUS
  <1>4. Good(u) /\ Live(u) = {}
    BY <1>3, Fresh
  <1>5. Entries(u) = {} /\ Cardinality(Live(u)) = 0
    BY <1>4, FS_EmptySet DEF Entries
  <1>6. /\ h = [entries |-> h.entries, count |-> h.count,
                next_sequence |-> h.next_sequence, order_mode |-> h.order_mode]
        /\ h.next_sequence \in Nat /\ h.order_mode \in 0..2
    BY DEF HashOK
  <1>7. g = [entries |-> u, count |-> 0,
             next_sequence |-> h.next_sequence, order_mode |-> h.order_mode]
    BY <1>1, <1>2, <1>3, <1>6 DEF Cleared
  <1>8. HashOK(g)
    BY <1>4, <1>5, <1>6, <1>7 DEF HashOK
  <1>. QED
    BY <1>1, <1>5, <1>7, <1>8

-----------------------------------------------------------------------------
(* The order of iteration.                                                 *)

(* In a finite set that is totally ordered by R, the number of elements    *)
(* before it is different for each element, and runs from 0.               *)
Before(S, R, x) == {y \in S : <<y, x>> \in R}
LEMMA Ranked ==
  ASSUME NEW S, IsFiniteSet(S), NEW R,
         \A x \in S : <<x, x>> \notin R,
         \A x, y \in S : x = y \/ <<x, y>> \in R \/ <<y, x>> \in R,
         \A x, y, z \in S : <<x, y>> \in R /\ <<y, z>> \in R => <<x, z>> \in R
  PROVE  /\ \A x \in S : Cardinality(Before(S, R, x)) \in 0..Cardinality(S)-1
         /\ \A x, y \in S : <<x, y>> \in R <=>
              Cardinality(Before(S, R, x)) < Cardinality(Before(S, R, y))
         /\ \A n \in 0..Cardinality(S)-1 :
              \E x \in S : Cardinality(Before(S, R, x)) = n
  <1>. DEFINE rank == [x \in S |-> Cardinality(Before(S, R, x))]
              n == Cardinality(S)
  <1>1. n \in Nat
    BY FS_CardinalityType
  <1>2. ASSUME NEW x \in S
        PROVE  IsFiniteSet(Before(S, R, x)) /\ rank[x] \in Nat
    <2>1. Before(S, R, x) \in SUBSET S
      BY DEF Before
    <2>2. IsFiniteSet(Before(S, R, x))
      BY <2>1, FS_Subset
    <2>. QED
      BY <2>2, FS_CardinalityType
  <1>3. ASSUME NEW x \in S
        PROVE  rank[x] < n
    <2>1. Before(S, R, x) \in SUBSET S /\ x \notin Before(S, R, x)
      BY DEF Before
    <2>2. /\ Cardinality(Before(S, R, x)) <= n
          /\ n = Cardinality(Before(S, R, x)) => S = Before(S, R, x)
      BY <2>1, FS_Subset
    <2>3. n # Cardinality(Before(S, R, x))
      BY <2>1, <2>2
    <2>. QED
      BY <1>1, <1>2, <2>2, <2>3
  <1>4. ASSUME NEW x \in S, NEW y \in S, <<x, y>> \in R
        PROVE  rank[x] < rank[y]
    <2>1. Before(S, R, x) \in SUBSET Before(S, R, y)
      BY <1>4 DEF Before
    <2>2. x \in Before(S, R, y) /\ x \notin Before(S, R, x)
      BY <1>4 DEF Before
    <2>3. /\ Cardinality(Before(S, R, x)) <= Cardinality(Before(S, R, y))
          /\ Cardinality(Before(S, R, y)) = Cardinality(Before(S, R, x))
               => Before(S, R, y) = Before(S, R, x)
      BY <1>2, <2>1, FS_Subset
    <2>4. Cardinality(Before(S, R, y)) # Cardinality(Before(S, R, x))
      BY <2>2, <2>3
    <2>. QED
      BY <1>2, <2>3, <2>4
  <1>5. ASSUME NEW x \in S, NEW y \in S, rank[x] < rank[y]
        PROVE  <<x, y>> \in R
    <2>1. x # y
      BY <1>2, <1>5
    <2>2. <<y, x>> \notin R
      BY <1>2, <1>4, <1>5
    <2>. QED
      BY <2>1, <2>2
  <1>6. \A x, y \in S : rank[x] = rank[y] => x = y
    <2>. HIDE DEF rank
    <2>1. ASSUME NEW x \in S, NEW y \in S, rank[x] = rank[y]
          PROVE  x = y
      <3>1. ~(rank[x] < rank[y]) /\ ~(rank[y] < rank[x])
        BY <1>2, <2>1
      <3>. QED
        BY <1>4, <3>1
    <2>. QED
      BY <2>1
  <1>7. rank \in [S -> 0..n-1]
    <2>1. \A x \in S : rank[x] \in 0..n-1
      BY <1>1, <1>2, <1>3
    <2>. QED
      BY <2>1
  <1>8. rank \in Injection(S, 0..n-1)
    <2>. HIDE DEF rank, n
    <2>. QED
      BY <1>6, <1>7 DEF Injection, IsInjective
  <1>9. IsFiniteSet(0..n-1) /\ Cardinality(0..n-1) = n
    <2>1. 0 \in Int /\ n - 1 \in Int
      BY <1>1
    <2>2. IsFiniteSet(0..n-1) /\ Cardinality(0..n-1) = IF 0 > n-1 THEN 0 ELSE n-1-0+1
      BY <2>1, FS_Interval
    <2>. QED
      BY <1>1, <2>2
  <1>10. rank \in Surjection(S, 0..n-1)
    <2>. HIDE DEF rank
    <2>. QED
      BY <1>8, <1>9, FS_Injection
  <1>11. \A m \in 0..n-1 : \E x \in S : rank[x] = m
    <2>. HIDE DEF rank, n
    <2>. QED
      BY <1>10 DEF Surjection
  <1>12. \A x \in S : rank[x] = Cardinality(Before(S, R, x))
    OBVIOUS
  <1>13. \A x \in S : rank[x] \in 0..n-1
    BY <1>7
  <1>. QED
    <2>. HIDE DEF rank, n
    <2>1. \A x, y \in S : <<x, y>> \in R <=> rank[x] < rank[y]
      BY <1>4, <1>5
    <2>. QED
      BY <1>11, <1>12, <1>13, <2>1 DEF n

(* hash_entry_precedes orders the entries of a hash, whatever its mode.    *)
LEMMA PrecedesTotal ==
  ASSUME NEW h, HashOK(h)
  PROVE  LET t == h.entries IN
         /\ \A i \in Live(t) : ~Precedes(h, i, i)
         /\ \A i, j \in Live(t) : i = j \/ Precedes(h, i, j) \/ Precedes(h, j, i)
         /\ \A i, j, l \in Live(t) :
              Precedes(h, i, j) /\ Precedes(h, j, l) => Precedes(h, i, l)
  <1>. DEFINE t == h.entries
              b(x) == Home[t[x].key] % Capacity(t)
              q(x) == t[x].sequence
  <1>1. Good(t) /\ IsTable(t)
    BY DEF HashOK, Good
  <1>2. \A i \in Live(t) : q(i) \in Nat
    BY <1>1, Slots DEF Live, Entry
  <1>3. \A i, j \in Live(t) : q(i) = q(j) => i = j
    <2>1. \A i, j \in Live(t) : q(i) = q(j) => t[i] = t[j]
      BY DEF HashOK, Entries
    <2>. QED
      BY <1>1, <2>1, HeldOnce
  <1>4. ASSUME NEW i \in Live(t)
        PROVE  b(i) \in Nat
    <2>1. t[i].key \in Keys /\ i \in DOMAIN t
      BY <1>1, Slots DEF Live
    <2>2. Capacity(t) \in Nat \ {0}
      BY <1>1, <2>1 DEF IsTable
    <2>3. Home[t[i].key] \in Nat
      BY <2>1, HashAssumption
    <2>. QED
      BY <2>2, <2>3
  <1>5. \A i, j : Precedes(h, i, j) <=>
          IF h.order_mode # 0 THEN q(i) < q(j)
          ELSE b(i) < b(j) \/ (b(i) = b(j) /\ q(i) > q(j))
    BY DEF Precedes
  <1>. HIDE DEF b, q, t
  <1>6. \A i \in Live(t) : ~Precedes(h, i, i)
    BY <1>2, <1>4, <1>5
  <1>7. \A i, j \in Live(t) : i = j \/ Precedes(h, i, j) \/ Precedes(h, j, i)
    BY <1>2, <1>3, <1>4, <1>5
  <1>8. \A i, j, l \in Live(t) :
          Precedes(h, i, j) /\ Precedes(h, j, l) => Precedes(h, i, l)
    BY <1>2, <1>4, <1>5
  <1>. QED
    BY <1>6, <1>7, <1>8 DEF t

(* So the ordinals name each entry once, in that order.                    *)
LEMMA OrderedIs ==
  ASSUME NEW h, HashOK(h)
  PROVE  LET s == Ordered(h)
             t == h.entries
         IN
         /\ h.count \in Nat /\ s \in [1..h.count -> Live(t)]
         /\ \A i \in Live(t) : \E o \in 1..h.count : s[o] = i
         /\ \A o, p \in 1..h.count : o < p => Precedes(h, s[o], s[p])
  <1>. DEFINE t == h.entries
              S == Live(t)
              R == {x \in S \X S : Precedes(h, x[1], x[2])}
              rank(x) == Cardinality(Before(S, R, x))
              s == Ordered(h)
  <1>1. Good(t) /\ h.count = Cardinality(S) /\ h.count \in Nat /\ IsFiniteSet(S)
    BY EntriesCount DEF HashOK
  <1>2. \A i, j \in S : <<i, j>> \in R <=> Precedes(h, i, j)
    OBVIOUS
  <1>3. /\ \A i \in S : rank(i) \in 0..h.count-1
        /\ \A i, j \in S : Precedes(h, i, j) <=> rank(i) < rank(j)
        /\ \A n \in 0..h.count-1 : \E i \in S : rank(i) = n
    <2>1. /\ \A i \in S : <<i, i>> \notin R
          /\ \A i, j \in S : i = j \/ <<i, j>> \in R \/ <<j, i>> \in R
          /\ \A i, j, l \in S : <<i, j>> \in R /\ <<j, l>> \in R => <<i, l>> \in R
      <3>1. /\ \A i \in S : ~Precedes(h, i, i)
            /\ \A i, j \in S : i = j \/ Precedes(h, i, j) \/ Precedes(h, j, i)
            /\ \A i, j, l \in S :
                 Precedes(h, i, j) /\ Precedes(h, j, l) => Precedes(h, i, l)
        BY PrecedesTotal
      <3>. HIDE DEF R, S
      <3>. QED
        BY <1>2, <3>1
    <2>. HIDE DEF R, S
    <2>2. /\ \A i \in S : rank(i) \in 0..Cardinality(S)-1
          /\ \A i, j \in S : <<i, j>> \in R <=> rank(i) < rank(j)
          /\ \A n \in 0..Cardinality(S)-1 : \E i \in S : rank(i) = n
      BY <1>1, <2>1, Ranked
    <2>. QED
      BY <1>1, <1>2, <2>2
  <1>4. ASSUME NEW i \in S
        PROVE  rank(i) = Cardinality({j \in S : j # i /\ Precedes(h, j, i)})
    <2>1. ~Precedes(h, i, i)
      BY PrecedesTotal
    <2>2. Before(S, R, i) = {j \in S : j # i /\ Precedes(h, j, i)}
      <3>. HIDE DEF S, R
      <3>. QED
        BY <1>2, <2>1 DEF Before
    <2>. QED
      BY <2>2
  <1>5. ASSUME NEW n \in 0..h.count-1
        PROVE  OrderedIndex(h, n) \in S /\ rank(OrderedIndex(h, n)) = n
    <2>. DEFINE c == {i \in S : rank(i) = n}
    <2>1. c # {}
      BY <1>3
    <2>2. c \in SUBSET Nat
      BY <1>1 DEF Good, IsTable, Live
    <2>3. Least(c) \in c
      <3>. HIDE DEF c
      <3>. QED
        BY <2>1, <2>2, LeastIn
    <2>4. {i \in S : Cardinality({j \in S : j # i /\ Precedes(h, j, i)}) = n} = c
      <3>. HIDE DEF S, R
      <3>. QED
        BY <1>4
    <2>5. OrderedIndex(h, n) = IF c = {} THEN -1 ELSE Least(c)
      <3>. HIDE DEF c
      <3>. QED
        BY <2>4 DEF OrderedIndex
    <2>6. OrderedIndex(h, n) \in c
      <3>. HIDE DEF c
      <3>. QED
        BY <2>1, <2>3, <2>5
    <2>. QED
      BY <2>6
  <1>6. ASSUME NEW o \in 1..h.count
        PROVE  s[o] \in S /\ rank(s[o]) = o - 1
    <2>1. o - 1 \in 0..h.count-1 /\ s[o] = OrderedIndex(h, o - 1)
      BY <1>1 DEF Ordered
    <2>. HIDE DEF s, S, R
    <2>. QED
      BY <1>5, <2>1
  <1>7. s \in [1..h.count -> S]
    <2>1. s = [o \in 1..h.count |-> s[o]]
      BY DEF Ordered
    <2>. HIDE DEF s, S
    <2>. QED
      BY <1>6, <2>1
  <1>8. ASSUME NEW i \in S
        PROVE  \E o \in 1..h.count : s[o] = i
    <2>1. PICK o \in 1..h.count : o = rank(i) + 1
      <3>1. rank(i) \in 0..h.count-1
        BY <1>3
      <3>2. rank(i) + 1 \in 1..h.count
        BY <1>1, <3>1
      <3>. QED
        BY <3>2
    <2>2. s[o] \in S /\ rank(s[o]) = rank(i)
      <3>1. rank(i) \in 0..h.count-1 /\ rank(s[o]) = o - 1 /\ s[o] \in S
        BY <1>3, <1>6
      <3>. QED
        BY <1>1, <2>1, <3>1
    <2>3. s[o] = i
      <3>1. ~(rank(s[o]) < rank(i)) /\ ~(rank(i) < rank(s[o]))
        <4>1. rank(i) \in 0..h.count-1
          BY <1>3
        <4>. QED
          BY <2>2, <4>1
      <3>2. ~Precedes(h, s[o], i) /\ ~Precedes(h, i, s[o])
        BY <1>3, <2>2, <3>1
      <3>. QED
        BY <2>2, <3>2, PrecedesTotal
    <2>. QED
      BY <2>3
  <1>9. ASSUME NEW o \in 1..h.count, NEW p \in 1..h.count, o < p
        PROVE  Precedes(h, s[o], s[p])
    <2>1. s[o] \in S /\ s[p] \in S /\ rank(s[o]) = o - 1 /\ rank(s[p]) = p - 1
      BY <1>6
    <2>2. rank(s[o]) < rank(s[p])
      BY <1>1, <1>9, <2>1
    <2>. HIDE DEF s, S, R
    <2>. QED
      BY <1>3, <2>1, <2>2
  <1>. QED
    <2>. HIDE DEF s
    <2>. QED
      BY <1>1, <1>7, <1>8, <1>9 DEF s

-----------------------------------------------------------------------------
(* Sequences of the keys of a set of entries, in the order of their        *)
(* sequence numbers.                                                       *)

(* Entries as a hash has them: one for each key.                           *)
OneEach(E) == E \subseteq Entry /\ \A d, e \in E : d.key = e.key => d = e

InOrder(s, E) ==
  /\ s \in Seq(Keys)
  /\ \A e \in E : \E n \in 1..Len(s) : s[n] = e.key
  /\ \A n \in 1..Len(s) : \E e \in E : s[n] = e.key
  /\ \A m, n \in 1..Len(s) : m < n =>
       \A d, e \in E : s[m] = d.key /\ s[n] = e.key => d.sequence < e.sequence

(* Where two of them begin to differ, each has a later entry than the other.*)
LEMMA Differ ==
  ASSUME NEW E, OneEach(E), NEW r, InOrder(r, E), NEW s, InOrder(s, E),
         NEW n \in 1..Len(r), \A m \in 1..n-1 : m <= Len(s) /\ r[m] = s[m]
  PROVE  /\ n <= Len(s)
         /\ r[n] # s[n] => \E d, e \in E :
              s[n] = d.key /\ r[n] = e.key /\ d.sequence < e.sequence
  <1>1. /\ Len(r) \in Nat /\ Len(s) \in Nat
        /\ \A e \in E : \E m \in 1..Len(s) : s[m] = e.key
        /\ \A m \in 1..Len(r) : \E e \in E : r[m] = e.key
        /\ \A m \in 1..Len(s) : \E e \in E : s[m] = e.key
        /\ \A l, m \in 1..Len(s) : l < m =>
             \A d, e \in E : s[l] = d.key /\ s[m] = e.key => d.sequence < e.sequence
        /\ \A l, m \in 1..Len(r) : l < m =>
             \A d, e \in E : r[l] = d.key /\ r[m] = e.key => d.sequence < e.sequence
    BY LenProperties DEF InOrder
  <1>2. \A e \in E : e.sequence \in Nat
    BY DEF OneEach, Entry
  <1>3. PICK e \in E : r[n] = e.key
    BY <1>1
  <1>4. PICK m \in 1..Len(s) : s[m] = e.key
    BY <1>1
  <1>5. m >= n
    <2>1. SUFFICES ASSUME m < n
                   PROVE  FALSE
      BY <1>1
    <2>2. m \in 1..n-1 /\ m \in 1..Len(r)
      BY <1>1, <2>1
    <2>3. r[m] = e.key
      BY <1>4, <2>2
    <2>4. e.sequence < e.sequence
      BY <1>1, <1>3, <2>1, <2>2, <2>3
    <2>. QED
      BY <1>2, <2>4
  <1>6. n <= Len(s) /\ n \in 1..Len(s)
    BY <1>1, <1>5
  <1>7. ASSUME r[n] # s[n]
        PROVE  \E d, c \in E : s[n] = d.key /\ r[n] = c.key /\ d.sequence < c.sequence
    <2>1. n < m
      BY <1>1, <1>3, <1>4, <1>5, <1>7
    <2>2. PICK d \in E : s[n] = d.key
      BY <1>1, <1>6
    <2>3. d.sequence < e.sequence
      BY <1>1, <1>4, <1>6, <2>1, <2>2
    <2>. QED
      BY <1>3, <2>2, <2>3
  <1>. QED
    BY <1>6, <1>7

(* So one is a part of the other.                                          *)
LEMMA PartOfOrder ==
  ASSUME NEW E, OneEach(E), NEW r, InOrder(r, E), NEW s, InOrder(s, E)
  PROVE  Len(r) <= Len(s) /\ \A i \in 1..Len(r) : r[i] = s[i]
  <1>. DEFINE S == {m \in Nat : m <= Len(s) /\ \A i \in 1..m : r[i] = s[i]}
  <1>1. Len(r) \in Nat /\ Len(s) \in Nat
    BY LenProperties DEF InOrder
  <1>2. 0 \in S
    BY <1>1
  <1>3. ASSUME NEW m \in 0..Len(r), m < Len(r), m \in S
        PROVE  m + 1 \in S
    <2>1. PICK n : n = m + 1
      OBVIOUS
    <2>2. n \in 1..Len(r) /\ n - 1 = m /\ m <= Len(s) /\ \A i \in 1..m : r[i] = s[i]
      BY <1>1, <1>3, <2>1
    <2>3. \A i \in 1..n-1 : i <= Len(s) /\ i <= Len(r) /\ r[i] = s[i] /\ s[i] = r[i]
      BY <1>1, <2>2
    <2>4. /\ n <= Len(s)
          /\ r[n] # s[n] => \E d, e \in E :
               s[n] = d.key /\ r[n] = e.key /\ d.sequence < e.sequence
      BY <2>2, <2>3, Differ
    <2>5. n \in 1..Len(s)
      BY <1>1, <2>2, <2>4
    <2>6. s[n] # r[n] => \E d, e \in E :
            r[n] = d.key /\ s[n] = e.key /\ d.sequence < e.sequence
      BY <2>3, <2>5, Differ
    <2>7. r[n] = s[n]
      <3>1. SUFFICES ASSUME r[n] # s[n]
                     PROVE  FALSE
        OBVIOUS
      <3>2. PICK d \in E, e \in E :
              s[n] = d.key /\ r[n] = e.key /\ d.sequence < e.sequence
        BY <2>4, <3>1
      <3>3. PICK b \in E, c \in E :
              r[n] = b.key /\ s[n] = c.key /\ b.sequence < c.sequence
        BY <2>6, <3>1
      <3>4. b = e /\ c = d /\ d.sequence \in Nat /\ e.sequence \in Nat
        BY <3>2, <3>3 DEF OneEach, Entry
      <3>. QED
        BY <3>2, <3>3, <3>4
    <2>8. \A i \in 1..n : r[i] = s[i]
      BY <2>2, <2>3, <2>7
    <2>9. n \in Nat
      BY <2>1
    <2>. QED
      BY <2>1, <2>4, <2>8, <2>9
  <1>4. \A m \in 0..Len(r) : m \in S
    <2>. HIDE DEF S
    <2>. QED
      BY <1>1, <1>2, <1>3, Climb
  <1>5. Len(r) \in S
    BY <1>1, <1>4
  <1>. QED
    BY <1>5

(* There is one such sequence.                                             *)
LEMMA OneOrder ==
  ASSUME NEW E, OneEach(E), NEW r, InOrder(r, E), NEW s, InOrder(s, E)
  PROVE  r = s
  <1>1. Len(r) <= Len(s) /\ Len(s) <= Len(r) /\ \A i \in 1..Len(r) : r[i] = s[i]
    BY PartOfOrder
  <1>2. r \in Seq(Keys) /\ s \in Seq(Keys) /\ Len(r) \in Nat /\ Len(s) \in Nat
    BY LenProperties DEF InOrder
  <1>3. Len(r) = Len(s)
    BY <1>1, <1>2
  <1>. QED
    BY <1>1, <1>2, <1>3, SeqEqual

(* An entry with the greatest number comes last.                           *)
LEMMA AppendOrder ==
  ASSUME NEW E, OneEach(E), NEW s, InOrder(s, E), NEW e \in Entry,
         \A d \in E : d.key # e.key /\ d.sequence < e.sequence
  PROVE  InOrder(Append(s, e.key), E \cup {e})
  <1>. DEFINE r == Append(s, e.key)
              F == E \cup {e}
  <1>1. /\ s \in Seq(Keys) /\ Len(s) \in Nat
        /\ \A d \in E : \E n \in 1..Len(s) : s[n] = d.key
        /\ \A n \in 1..Len(s) : \E d \in E : s[n] = d.key
        /\ \A m, n \in 1..Len(s) : m < n =>
             \A c, d \in E : s[m] = c.key /\ s[n] = d.key => c.sequence < d.sequence
    BY LenProperties DEF InOrder
  <1>2. e.key \in Keys
    BY DEF Entry
  <1>3. /\ r \in Seq(Keys) /\ Len(r) = Len(s) + 1
        /\ \A n \in 1..Len(s) : r[n] = s[n]
        /\ r[Len(s) + 1] = e.key
    BY <1>1, <1>2, AppendProperties
  <1>. HIDE DEF r
  <1>4. \A n \in 1..Len(r) : n \in 1..Len(s) \/ n = Len(s) + 1
    BY <1>1, <1>3
  <1>5. \A n \in 1..Len(s) : n \in 1..Len(r) /\ n < Len(s) + 1
    BY <1>1, <1>3
  <1>6. Len(s) + 1 \in 1..Len(r)
    BY <1>1, <1>3
  <1>7. \A d \in F : \E n \in 1..Len(r) : r[n] = d.key
    BY <1>1, <1>3, <1>5, <1>6
  <1>8. \A n \in 1..Len(r) : \E d \in F : r[n] = d.key
    BY <1>1, <1>3, <1>4
  <1>9. ASSUME NEW m \in 1..Len(r), NEW n \in 1..Len(r), m < n,
               NEW c \in F, NEW d \in F, r[m] = c.key, r[n] = d.key
        PROVE  c.sequence < d.sequence
    <2>1. m \in 1..Len(s) /\ r[m] = s[m]
      BY <1>1, <1>3, <1>4, <1>9
    <2>2. c \in E
      <3>1. PICK b \in E : s[m] = b.key
        BY <1>1, <2>1
      <3>. QED
        BY <1>9, <2>1, <3>1
    <2>3. CASE n \in 1..Len(s)
      <3>1. r[n] = s[n]
        BY <1>3, <2>3
      <3>2. PICK b \in E : s[n] = b.key
        BY <1>1, <2>3
      <3>3. d \in E
        BY <1>9, <3>1, <3>2
      <3>. QED
        BY <1>1, <1>9, <2>1, <2>2, <2>3, <3>1, <3>3
    <2>4. CASE n = Len(s) + 1
      <3>1. d = e
        BY <1>3, <1>9, <2>4
      <3>. QED
        BY <2>2, <3>1
    <2>. QED
      BY <1>4, <2>3, <2>4
  <1>10. InOrder(r, F)
    BY <1>3, <1>7, <1>8, <1>9 DEF InOrder
  <1>. QED
    BY <1>10 DEF r

(* An entry that is rewritten keeps its place.                             *)
LEMMA SameOrder ==
  ASSUME NEW E, OneEach(E), NEW s, InOrder(s, E), NEW e \in E, NEW f \in Entry,
         f.key = e.key, f.sequence = e.sequence
  PROVE  InOrder(s, (E \ {e}) \cup {f})
  <1>. DEFINE F == (E \ {e}) \cup {f}
  <1>1. /\ s \in Seq(Keys)
        /\ \A d \in E : \E n \in 1..Len(s) : s[n] = d.key
        /\ \A n \in 1..Len(s) : \E d \in E : s[n] = d.key
        /\ \A m, n \in 1..Len(s) : m < n =>
             \A c, d \in E : s[m] = c.key /\ s[n] = d.key => c.sequence < d.sequence
    BY DEF InOrder
  <1>2. \A d \in F : \E c \in E : c.key = d.key /\ c.sequence = d.sequence
    OBVIOUS
  <1>3. \A c \in E : \E d \in F : c.key = d.key
    OBVIOUS
  <1>. HIDE DEF F
  <1>4. \A d \in F : \E n \in 1..Len(s) : s[n] = d.key
    BY <1>1, <1>2
  <1>5. \A n \in 1..Len(s) : \E d \in F : s[n] = d.key
    BY <1>1, <1>3
  <1>6. ASSUME NEW m \in 1..Len(s), NEW n \in 1..Len(s), m < n,
               NEW c \in F, NEW d \in F, s[m] = c.key, s[n] = d.key
        PROVE  c.sequence < d.sequence
    <2>1. PICK a \in E : a.key = c.key /\ a.sequence = c.sequence
      BY <1>2
    <2>2. PICK b \in E : b.key = d.key /\ b.sequence = d.sequence
      BY <1>2
    <2>3. a.sequence < b.sequence
      BY <1>1, <1>6, <2>1, <2>2
    <2>. QED
      BY <2>1, <2>2, <2>3
  <1>7. InOrder(s, F)
    BY <1>1, <1>4, <1>5, <1>6 DEF InOrder
  <1>. QED
    BY <1>7 DEF F

(* The entry of a key is taken out with the key.                           *)
LEMMA RemoveOrder ==
  ASSUME NEW E, OneEach(E), NEW s, InOrder(s, E), NEW e \in E
  PROVE  InOrder(RemoveFirst(s, e.key), E \ {e})
  <1>. DEFINE k == e.key
              F == E \ {e}
  <1>1. /\ s \in Seq(Keys) /\ Len(s) \in Nat
        /\ \A d \in E : \E n \in 1..Len(s) : s[n] = d.key
        /\ \A n \in 1..Len(s) : \E d \in E : s[n] = d.key
        /\ \A m, n \in 1..Len(s) : m < n =>
             \A c, d \in E : s[m] = c.key /\ s[n] = d.key => c.sequence < d.sequence
    BY LenProperties DEF InOrder
  <1>2. \A c, d \in E : c.key = d.key => c = d
    BY DEF OneEach
  <1>3. \A d \in E : d.sequence \in Nat
    BY DEF OneEach, Entry
  <1>4. PICK i \in 1..Len(s) : s[i] = k /\ RemoveFirst(s, k) = RemoveAt(s, i)
    <2>1. Contains(s, k)
      BY <1>1 DEF Contains
    <2>. QED
      BY <1>1, <2>1, FirstRemoved
  <1>5. PICK r : r = RemoveAt(s, i)
    OBVIOUS
  <1>6. /\ r \in Seq(Keys) /\ Len(r) = Len(s) - 1
        /\ \A n \in 1..i-1 : r[n] = s[n]
        /\ \A n \in i..Len(s)-1 : r[n] = s[n+1]
    BY <1>1, <1>5, RemovedAt
  <1>. DEFINE at(n) == IF n < i THEN n ELSE n + 1
  <1>7. \A n \in 1..Len(r) : /\ at(n) \in 1..Len(s) /\ at(n) # i
                             /\ r[n] = s[at(n)]
    BY <1>1, <1>6
  <1>8. \A m, n \in 1..Len(r) : m < n => at(m) < at(n)
    <2>1. i \in Int
      BY <1>1
    <2>2. \A m, n \in Int : m < n => at(m) < at(n)
      BY <2>1
    <2>. QED
      BY <2>2
  <1>9. \A n \in 1..Len(s) : n # i => \E m \in 1..Len(r) : at(m) = n
    <2>1. ASSUME NEW n \in 1..Len(s), n # i
          PROVE  \E m \in 1..Len(r) : at(m) = n
      <3>1. CASE n < i
        <4>1. n \in 1..Len(r)
          BY <1>1, <1>6, <3>1
        <4>. QED
          BY <3>1, <4>1
      <3>2. CASE n > i
        <4>1. n - 1 \in 1..Len(r) /\ at(n - 1) = n
          BY <1>1, <1>6, <3>2
        <4>. QED
          BY <4>1
      <3>. QED
        BY <1>1, <2>1, <3>1, <3>2
    <2>. QED
      BY <2>1
  <1>10. \A n \in 1..Len(s) : s[n] = k => n = i
    <2>1. ASSUME NEW n \in 1..Len(s), s[n] = k
          PROVE  n = i
      <3>1. ~(n < i) /\ ~(i < n)
        BY <1>1, <1>3, <1>4, <2>1
      <3>. QED
        BY <3>1
    <2>. QED
      BY <2>1
  <1>. HIDE DEF at, F
  <1>11. ASSUME NEW d \in F
         PROVE  \E n \in 1..Len(r) : r[n] = d.key
    <2>1. d \in E /\ d # e
      BY DEF F
    <2>2. PICK n \in 1..Len(s) : s[n] = d.key
      BY <1>1, <2>1
    <2>3. n # i
      BY <1>2, <1>4, <2>1, <2>2
    <2>. QED
      BY <1>7, <1>9, <2>2, <2>3
  <1>12. ASSUME NEW n \in 1..Len(r)
         PROVE  \E d \in F : r[n] = d.key
    <2>1. PICK d \in E : s[at(n)] = d.key
      BY <1>1, <1>7
    <2>2. d # e
      BY <1>7, <1>10, <2>1
    <2>. QED
      BY <1>7, <2>1, <2>2 DEF F
  <1>13. ASSUME NEW m \in 1..Len(r), NEW n \in 1..Len(r), m < n,
                NEW c \in F, NEW d \in F, r[m] = c.key, r[n] = d.key
         PROVE  c.sequence < d.sequence
    <2>1. c \in E /\ d \in E
      BY DEF F
    <2>2. at(m) \in 1..Len(s) /\ at(n) \in 1..Len(s) /\ at(m) < at(n)
          /\ s[at(m)] = c.key /\ s[at(n)] = d.key
      BY <1>7, <1>8, <1>13
    <2>. QED
      BY <1>1, <2>1, <2>2
  <1>14. InOrder(r, F)
    BY <1>6, <1>11, <1>12, <1>13 DEF InOrder
  <1>. QED
    BY <1>4, <1>5, <1>14 DEF F

-----------------------------------------------------------------------------
(* The map and the order that a hash stands for.                           *)

(* The entries of a hash, one for each key.                                *)
LEMMA EntriesOf ==
  ASSUME NEW h, HashOK(h)
  PROVE  OneEach(Entries(h.entries))
  BY EntryKeys DEF HashOK, OneEach

(* The map of a hash has the keys and the values of its entries.           *)
LEMMA ContentsIs ==
  ASSUME NEW h, HashOK(h)
  PROVE  LET E == Entries(h.entries) IN
         /\ DOMAIN Contents(h) = {e.key : e \in E}
         /\ \A e \in E : Contents(h)[e.key] = e.value
         /\ Contents(h) = [k \in DOMAIN Contents(h) |-> Contents(h)[k]]
  <1>. DEFINE t == h.entries
              E == Entries(t)
              ks == {t[i].key : i \in Live(t)}
              value(k) == t[CHOOSE i \in Live(t) : t[i].key = k].value
  <1>1. Good(t)
    BY DEF HashOK
  <1>2. ks = {e.key : e \in E}
    BY DEF Entries
  <1>3. Contents(h) = [k \in ks |-> value(k)]
    BY DEF Contents
  <1>4. ASSUME NEW e \in E
        PROVE  value(e.key) = e.value
    <2>1. PICK i \in Live(t) : t[i] = e
      BY DEF Entries
    <2>2. (CHOOSE j \in Live(t) : t[j].key = e.key) = i
      BY <1>1, <2>1, HeldOnce
    <2>. QED
      BY <2>1, <2>2
  <1>. HIDE DEF ks, value, E, t
  <1>5. DOMAIN Contents(h) = ks
    BY <1>3
  <1>6. \A k \in ks : Contents(h)[k] = value(k)
    BY <1>3
  <1>7. \A e \in E : e.key \in ks
    BY <1>2
  <1>8. \A e \in E : Contents(h)[e.key] = e.value
    BY <1>4, <1>6, <1>7
  <1>9. Contents(h) = [k \in DOMAIN Contents(h) |-> Contents(h)[k]]
    BY <1>3
  <1>. QED
    BY <1>2, <1>5, <1>8, <1>9 DEF E, t

(* A function with those keys and values is that map.                      *)
LEMMA ContentsFrom ==
  ASSUME NEW h, HashOK(h), NEW f, f = [k \in DOMAIN f |-> f[k]],
         \A k : k \in DOMAIN f <=> \E e \in Entries(h.entries) : k = e.key,
         \A e \in Entries(h.entries) : f[e.key] = e.value
  PROVE  Contents(h) = f
  <1>. DEFINE E == Entries(h.entries)
  <1>1. PICK g : g = Contents(h)
    OBVIOUS
  <1>2. /\ DOMAIN g = {e.key : e \in E}
        /\ \A e \in E : g[e.key] = e.value
        /\ g = [k \in DOMAIN g |-> g[k]]
    BY <1>1, ContentsIs
  <1>. HIDE DEF E
  <1>3. DOMAIN f = DOMAIN g
    BY <1>2 DEF E
  <1>4. \A k \in DOMAIN g : f[k] = g[k]
    BY <1>2 DEF E
  <1>. QED
    BY <1>1, <1>2, <1>3, <1>4

(* The order of a hash lists the keys of its map; where the mode keeps an  *)
(* order, it is that of the sequence numbers.                              *)
LEMMA OrderOfIs ==
  ASSUME NEW h, HashOK(h)
  PROVE  LET o == OrderOfKeys(h)
             s == Ordered(h)
         IN
         /\ o \in Seq(Keys) /\ Len(o) = h.count /\ h.count \in Nat
         /\ DOMAIN o = 1..h.count
         /\ \A n \in 1..h.count : s[n] \in Live(h.entries) /\ o[n] = h.entries[s[n]].key
         /\ \A k : (\E n \in 1..h.count : o[n] = k) <=> k \in DOMAIN Contents(h)
         /\ \A m, n \in 1..h.count : o[m] = o[n] => m = n
         /\ h.order_mode # 0 => InOrder(o, Entries(h.entries))
  <1>. DEFINE t == h.entries
              E == Entries(t)
  <1>1. PICK s : s = Ordered(h)
    OBVIOUS
  <1>2. PICK o : o = OrderOfKeys(h)
    OBVIOUS
  <1>3. /\ h.count \in Nat /\ s \in [1..h.count -> Live(t)]
        /\ \A i \in Live(t) : \E n \in 1..h.count : s[n] = i
        /\ \A m, n \in 1..h.count : m < n => Precedes(h, s[m], s[n])
    BY <1>1, OrderedIs
  <1>4. Good(t) /\ IsTable(t)
    BY DEF HashOK, Good
  <1>5. Len(s) = h.count
    BY <1>3, SequenceOfFunction
  <1>6. \A n \in 1..h.count : s[n] \in Live(t)
    BY <1>3
  <1>7. \A i \in Live(t) : ~(i < 0) /\ t[i].key \in Keys
    <2>1. \A i \in Live(t) : i \in DOMAIN t /\ i \in Nat
      BY <1>4 DEF IsTable, Live
    <2>. QED
      BY <1>4, <2>1, Slots
  <1>8. o = [n \in 1..h.count |-> IF s[n] < 0 THEN Null ELSE t[s[n]].key]
    BY <1>1, <1>2, <1>5 DEF OrderOfKeys
  <1>9. \A n \in 1..h.count : o[n] = t[s[n]].key
    BY <1>6, <1>7, <1>8
  <1>10. o \in [1..h.count -> Keys]
    <2>1. \A n \in 1..h.count : o[n] \in Keys
      BY <1>6, <1>7, <1>9
    <2>. QED
      BY <1>8, <2>1
  <1>11. o \in Seq(Keys) /\ Len(o) = h.count /\ DOMAIN o = 1..h.count
    BY <1>3, <1>10, SequenceOfFunction
  <1>. HIDE DEF t, E
  <1>12. DOMAIN Contents(h) = {e.key : e \in E}
    BY ContentsIs DEF t, E
  <1>13. E = {t[i] : i \in Live(t)}
    BY DEF E, Entries
  <1>14. \A n \in 1..h.count : \E e \in E : o[n] = e.key
    BY <1>6, <1>9, <1>13
  <1>15. \A e \in E : \E n \in 1..h.count : o[n] = e.key
    BY <1>3, <1>9, <1>13
  <1>16. \A k : (\E n \in 1..h.count : o[n] = k) <=> k \in DOMAIN Contents(h)
    BY <1>12, <1>14, <1>15
  <1>17. ASSUME h.order_mode # 0
         PROVE  InOrder(o, E)
    <2>1. ASSUME NEW m \in 1..h.count, NEW n \in 1..h.count, m < n,
                 NEW d \in E, NEW e \in E, o[m] = d.key, o[n] = e.key
          PROVE  d.sequence < e.sequence
      <3>1. Precedes(h, s[m], s[n])
        BY <1>3, <2>1
      <3>2. t[s[m]].sequence < t[s[n]].sequence
        BY <1>17, <3>1 DEF Precedes, t
      <3>3. t[s[m]] \in E /\ t[s[n]] \in E
        BY <1>6, <1>13
      <3>4. t[s[m]].key = d.key /\ t[s[n]].key = e.key
        BY <1>9, <2>1
      <3>5. t[s[m]] = d /\ t[s[n]] = e
        BY <3>3, <3>4, EntriesOf DEF OneEach, E, t
      <3>. QED
        BY <3>2, <3>5
    <2>. QED
      BY <1>11, <1>14, <1>15, <2>1 DEF InOrder
  <1>18. ASSUME NEW m \in 1..h.count, NEW n \in 1..h.count, o[m] = o[n]
         PROVE  m = n
    <2>1. s[m] = s[n]
      <3>1. t[s[m]].key = t[s[n]].key
        BY <1>9, <1>18
      <3>. QED
        BY <1>4, <1>6, <3>1, HeldOnce DEF t
    <2>2. \A i \in Live(t) : ~Precedes(h, i, i)
      BY PrecedesTotal DEF t
    <2>3. ~(m < n) /\ ~(n < m)
      BY <1>3, <1>6, <2>1, <2>2
    <2>. QED
      BY <1>3, <2>3
  <1>. QED
    BY <1>1, <1>2, <1>3, <1>6, <1>9, <1>11, <1>16, <1>17, <1>18 DEF t, E

(* The operators of the libraries mean the same in OrderedMap as here.     *)
LEMMA SameOperators ==
  /\ \A S : Map!Cardinality(S) = Cardinality(S)
  /\ \A s : Map!ToSet(s) = ToSet(s) /\ Map!Range(s) = ToSet(s)
  /\ \A s : Map!Front(s) = Front(s) /\ Map!Last(s) = Last(s)
  /\ \A s, e : Map!RemoveFirst(s, e) = RemoveFirst(s, e)
  /\ \A S, n : Map!Nth(S, n) = Nth(S, n)
  /\ \A s, T : Map!Only(s, T) = Only(s, T)
  <1>1. \A S : Map!Cardinality(S) = Cardinality(S)
    BY DEF Map!Cardinality, Cardinality
  <1>2. \A s : Map!ToSet(s) = ToSet(s) /\ Map!Range(s) = ToSet(s)
    BY DEF Map!ToSet, Map!Range, ToSet
  <1>3. \A s : Map!Front(s) = Front(s) /\ Map!Last(s) = Last(s)
    BY DEF Map!Front, Front, Map!Last, Last
  <1>4. \A s, e : Map!RemoveFirst(s, e) = RemoveFirst(s, e)
    BY DEF Map!RemoveFirst, RemoveFirst, Map!RemoveAt, RemoveAt,
           Map!SelectInSeq, SelectInSeq, Map!Min, Min
  <1>5. \A S, n : Map!Nth(S, n) = Nth(S, n)
    <2>1. ASSUME NEW S, NEW n
          PROVE  Map!Nth(S, n) = Nth(S, n)
      <3>1. \A i : Map!UpTo(S, i) = UpTo(S, i)
        BY DEF Map!UpTo, UpTo
      <3>2. \A i : Map!Cardinality(Map!UpTo(S, i)) = Cardinality(UpTo(S, i))
        BY <1>1, <3>1
      <3>. QED
        BY <3>2 DEF Map!Nth, Nth
    <2>. QED
      BY <2>1
  <1>6. \A s, T : Map!Only(s, T) = Only(s, T)
    <2>1. ASSUME NEW s, NEW T
          PROVE  Map!Only(s, T) = Only(s, T)
      <3>1. PICK at : at = {i \in DOMAIN s : s[i] \in T}
        OBVIOUS
      <3>2. Map!Only(s, T) = [n \in 1..Map!Cardinality(at) |-> s[Map!Nth(at, n)]]
        BY <3>1 DEF Map!Only
      <3>3. Only(s, T) = [n \in 1..Cardinality(at) |-> s[Nth(at, n)]]
        BY <3>1 DEF Only
      <3>4. \A n : s[Map!Nth(at, n)] = s[Nth(at, n)]
        BY <1>5
      <3>. QED
        BY <1>1, <3>2, <3>3, <3>4
    <2>. QED
      BY <2>1
  <1>. QED
    BY <1>1, <1>2, <1>3, <1>4, <1>5, <1>6

(* As many keys as entries.                                                *)
LEMMA OrderLists ==
  ASSUME NEW h, HashOK(h)
  PROVE  Map!Lists(OrderOfKeys(h), Contents(h))
  <1>. DEFINE E == Entries(h.entries)
              f == [e \in E |-> e.key]
              D == DOMAIN Contents(h)
  <1>1. PICK o : o = OrderOfKeys(h)
    OBVIOUS
  <1>2. /\ Len(o) = h.count /\ DOMAIN o = 1..h.count
        /\ \A k : (\E n \in 1..h.count : o[n] = k) <=> k \in D
    BY <1>1, OrderOfIs
  <1>3. D = {e.key : e \in E}
    BY ContentsIs
  <1>4. Cardinality(E) = h.count /\ IsFiniteSet(E)
    <2>1. Good(h.entries) /\ h.count = Cardinality(Live(h.entries))
      BY DEF HashOK
    <2>2. IsFiniteSet(Live(h.entries)) /\ Cardinality(E) = Cardinality(Live(h.entries))
      BY <2>1, EntriesCount
    <2>3. IsFiniteSet(E)
      <3>. DEFINE g == [i \in Live(h.entries) |-> h.entries[i]]
      <3>1. g \in Surjection(Live(h.entries), E)
        BY DEF Surjection, Entries
      <3>. HIDE DEF g, E
      <3>. QED
        BY <2>2, <3>1, FS_Surjection
    <2>. QED
      BY <2>1, <2>2, <2>3
  <1>5. f \in [E -> D]
    BY <1>3
  <1>6. \A d, e \in E : f[d] = f[e] => d = e
    BY EntriesOf DEF OneEach
  <1>7. \A k \in D : \E e \in E : f[e] = k
    BY <1>3
  <1>. HIDE DEF f, D, E
  <1>8. f \in Bijection(E, D)
    BY <1>5, <1>6, <1>7 DEF Bijection, Injection, Surjection, IsInjective
  <1>9. Cardinality(D) = h.count
    BY <1>4, <1>8, FS_Bijection DEF ExistsBijection
  <1>10. ToSet(o) = D
    BY <1>2 DEF ToSet
  <1>. QED
    BY <1>1, <1>2, <1>9, <1>10, SameOperators DEF Map!Lists, D

-----------------------------------------------------------------------------
(* What the operations of a hash do to its map and its order.              *)

(* The order of a hash that keeps one is the only one of its entries.      *)
LEMMA OrderFrom ==
  ASSUME NEW h, HashOK(h), h.order_mode # 0,
         NEW s, InOrder(s, Entries(h.entries))
  PROVE  OrderOfKeys(h) = s
  BY EntriesOf, OrderOfIs, OneOrder

(* A set binds its key, and a new key is the last.                         *)
LEMMA PutMaps ==
  ASSUME NEW h, HashOK(h), NEW k \in Keys, NEW v \in Values
  PROVE  LET g == Put(h, k, v) IN
         /\ HashOK(g) /\ g.order_mode = h.order_mode
         /\ Contents(g) = Map!With(Contents(h), k, v)
         /\ h.order_mode # 0 => OrderOfKeys(g) = Map!Inserted(OrderOfKeys(h), k)
  <1>1. PICK g : g = Put(h, k, v)
    OBVIOUS
  <1>2. PICK E : E = Entries(h.entries)
    OBVIOUS
  <1>3. PICK F : F = Entries(g.entries)
    OBVIOUS
  <1>4. /\ HashOK(g) /\ g.order_mode = h.order_mode
        /\ \A e \in E : e.key = k =>
             F = (E \ {e}) \cup {[key |-> k, value |-> v, sequence |-> e.sequence]}
        /\ (\A e \in E : e.key # k) =>
             F = E \cup {[key |-> k, value |-> v, sequence |-> h.next_sequence + 1]}
    BY <1>1, <1>2, <1>3, PutEntries
  <1>5. OneEach(E)
    BY <1>2, EntriesOf
  <1>6. PICK f : f = Contents(h)
    OBVIOUS
  <1>7. DOMAIN f = {e.key : e \in E} /\ \A e \in E : f[e.key] = e.value
    BY <1>2, <1>6, ContentsIs
  <1>8. PICK o : o = OrderOfKeys(h)
    OBVIOUS
  <1>9. /\ o \in Seq(Keys) /\ DOMAIN o = 1..Len(o)
        /\ h.order_mode # 0 => InOrder(o, E)
        /\ k \in ToSet(o) <=> k \in DOMAIN f
    <2>1. /\ o \in Seq(Keys) /\ Len(o) = h.count /\ DOMAIN o = 1..h.count
          /\ h.order_mode # 0 => InOrder(o, E)
          /\ (\E n \in 1..h.count : o[n] = k) <=> k \in DOMAIN f
      BY <1>2, <1>6, <1>8, OrderOfIs
    <2>. QED
      BY <2>1 DEF ToSet
  <1>10. PICK w : w = [x \in DOMAIN f \cup {k} |-> IF x = k THEN v ELSE f[x]]
    OBVIOUS
  <1>11. w = Map!With(f, k, v)
    BY <1>10 DEF Map!With
  <1>12. Map!Inserted(o, k) = IF k \in DOMAIN f THEN o ELSE Append(o, k)
    BY <1>9, SameOperators DEF Map!Inserted
  <1>13. CASE \E e \in E : e.key = k
    <2>1. PICK e \in E : e.key = k
      BY <1>13
    <2>2. PICK n : n = [key |-> k, value |-> v, sequence |-> e.sequence]
      OBVIOUS
    <2>3. n \in Entry /\ n.key = k /\ n.value = v /\ n.sequence = e.sequence
      BY <1>5, <2>2 DEF OneEach, Entry
    <2>4. F = (E \ {e}) \cup {n}
      BY <1>4, <2>1, <2>2
    <2>5. \A x \in E : x # e => x.key # k
      BY <1>5, <2>1 DEF OneEach
    <2>6. DOMAIN f = DOMAIN f \cup {k}
      BY <1>7, <2>1
    <2>7. \A x : x \in DOMAIN w <=> \E d \in F : x = d.key
      BY <1>7, <1>10, <2>1, <2>3, <2>4, <2>5
    <2>8. \A d \in F : w[d.key] = d.value
      <3>1. ASSUME NEW d \in F
            PROVE  w[d.key] = d.value
        <4>1. CASE d = n
          BY <1>10, <2>3, <4>1
        <4>2. CASE d # n
          <5>1. d \in E /\ d.key # k /\ d.key \in DOMAIN f
            BY <1>7, <2>4, <2>5, <4>2
          <5>. QED
            BY <1>7, <1>10, <5>1
        <4>. QED
          BY <4>1, <4>2
      <3>. QED
        BY <3>1
    <2>9. w = [x \in DOMAIN w |-> w[x]]
      BY <1>10
    <2>10. Contents(g) = w
      BY <1>3, <1>4, <2>7, <2>8, <2>9, ContentsFrom
    <2>11. ASSUME h.order_mode # 0
           PROVE  OrderOfKeys(g) = o
      <3>1. InOrder(o, F)
        BY <1>5, <1>9, <2>1, <2>3, <2>4, <2>11, SameOrder
      <3>. QED
        BY <1>3, <1>4, <2>11, <3>1, OrderFrom
    <2>12. k \in DOMAIN f
      BY <1>7, <2>1
    <2>. QED
      BY <1>1, <1>4, <1>6, <1>8, <1>11, <1>12, <2>10, <2>11, <2>12
  <1>14. CASE \A e \in E : e.key # k
    <2>1. PICK n : n = [key |-> k, value |-> v, sequence |-> h.next_sequence + 1]
      OBVIOUS
    <2>2. /\ n \in Entry /\ n.key = k /\ n.value = v
          /\ n.sequence = h.next_sequence + 1
      BY <2>1 DEF HashOK, Entry
    <2>3. F = E \cup {n}
      BY <1>4, <1>14, <2>1
    <2>4. \A x : x \in DOMAIN w <=> \E d \in F : x = d.key
      BY <1>7, <1>10, <2>2, <2>3
    <2>5. \A d \in F : w[d.key] = d.value
      <3>1. ASSUME NEW d \in F
            PROVE  w[d.key] = d.value
        <4>1. CASE d = n
          BY <1>10, <2>2, <4>1
        <4>2. CASE d # n
          <5>1. d \in E /\ d.key # k /\ d.key \in DOMAIN f
            BY <1>7, <1>14, <2>3, <4>2
          <5>. QED
            BY <1>7, <1>10, <5>1
        <4>. QED
          BY <4>1, <4>2
      <3>. QED
        BY <3>1
    <2>6. w = [x \in DOMAIN w |-> w[x]]
      BY <1>10
    <2>7. Contents(g) = w
      BY <1>3, <1>4, <2>4, <2>5, <2>6, ContentsFrom
    <2>8. ASSUME h.order_mode # 0
          PROVE  OrderOfKeys(g) = Append(o, k)
      <3>1. \A d \in E : d.key # n.key /\ d.sequence < n.sequence
        <4>1. \A d \in E : d.sequence \in 1..h.next_sequence
          BY <1>2 DEF HashOK
        <4>2. h.next_sequence \in Nat
          BY DEF HashOK
        <4>. QED
          BY <1>14, <2>2, <4>1, <4>2
      <3>2. InOrder(Append(o, n.key), E \cup {n})
        BY <1>5, <1>9, <2>2, <2>8, <3>1, AppendOrder
      <3>3. InOrder(Append(o, k), F)
        BY <2>2, <2>3, <3>2
      <3>. QED
        BY <1>3, <1>4, <2>8, <3>3, OrderFrom
    <2>9. k \notin DOMAIN f
      BY <1>7, <1>14
    <2>. QED
      BY <1>1, <1>4, <1>6, <1>8, <1>11, <1>12, <2>7, <2>8, <2>9
  <1>. QED
    BY <1>13, <1>14

(* A deletion takes its key out of the map and out of the order.           *)
LEMMA WithoutMaps ==
  ASSUME NEW h, HashOK(h), NEW k \in Keys
  PROVE  LET g == Without(h, k) IN
         /\ HashOK(g) /\ g.order_mode = h.order_mode
         /\ Contents(g) = Map!Dropped(Contents(h), k)
         /\ h.order_mode # 0 => OrderOfKeys(g) = RemoveFirst(OrderOfKeys(h), k)
  <1>1. PICK g : g = Without(h, k)
    OBVIOUS
  <1>2. PICK E : E = Entries(h.entries)
    OBVIOUS
  <1>3. PICK F : F = Entries(g.entries)
    OBVIOUS
  <1>4. /\ HashOK(g) /\ g.order_mode = h.order_mode
        /\ \A e \in E : e.key = k => F = E \ {e}
        /\ (\A e \in E : e.key # k) => g = h
    BY <1>1, <1>2, <1>3, WithoutEntries
  <1>5. OneEach(E)
    BY <1>2, EntriesOf
  <1>6. PICK f : f = Contents(h)
    OBVIOUS
  <1>7. /\ DOMAIN f = {e.key : e \in E} /\ \A e \in E : f[e.key] = e.value
        /\ f = [x \in DOMAIN f |-> f[x]]
    BY <1>2, <1>6, ContentsIs
  <1>8. PICK o : o = OrderOfKeys(h)
    OBVIOUS
  <1>9. PICK w : w = [x \in DOMAIN f \ {k} |-> f[x]]
    OBVIOUS
  <1>10. w = Map!Dropped(f, k)
    BY <1>9 DEF Map!Dropped
  <1>11. CASE \E e \in E : e.key = k
    <2>1. PICK e \in E : e.key = k
      BY <1>11
    <2>2. F = E \ {e}
      BY <1>4, <2>1
    <2>3. \A x \in E : x # e => x.key # k
      BY <1>5, <2>1 DEF OneEach
    <2>4. \A x : x \in DOMAIN w <=> \E d \in F : x = d.key
      BY <1>7, <1>9, <2>1, <2>2, <2>3
    <2>5. \A d \in F : w[d.key] = d.value
      <3>1. ASSUME NEW d \in F
            PROVE  w[d.key] = d.value
        <4>1. d \in E /\ d.key # k /\ d.key \in DOMAIN f
          BY <1>7, <2>2, <2>3
        <4>. QED
          BY <1>7, <1>9, <4>1
      <3>. QED
        BY <3>1
    <2>6. w = [x \in DOMAIN w |-> w[x]]
      BY <1>9
    <2>7. Contents(g) = w
      BY <1>3, <1>4, <2>4, <2>5, <2>6, ContentsFrom
    <2>8. ASSUME h.order_mode # 0
          PROVE  OrderOfKeys(g) = RemoveFirst(o, k)
      <3>1. InOrder(o, E)
        BY <1>2, <1>8, <2>8, OrderOfIs
      <3>2. InOrder(RemoveFirst(o, e.key), E \ {e})
        BY <1>5, <3>1, RemoveOrder
      <3>3. InOrder(RemoveFirst(o, k), F)
        BY <2>1, <2>2, <3>2
      <3>. QED
        BY <1>3, <1>4, <2>8, <3>3, OrderFrom
    <2>. QED
      BY <1>1, <1>4, <1>6, <1>8, <1>10, <2>7, <2>8
  <1>12. CASE \A e \in E : e.key # k
    <2>1. g = h
      BY <1>4, <1>12
    <2>2. k \notin DOMAIN f
      BY <1>7, <1>12
    <2>3. w = f
      <3>1. DOMAIN f \ {k} = DOMAIN f
        BY <2>2
      <3>. QED
        BY <1>7, <1>9, <3>1
    <2>4. RemoveFirst(o, k) = o
      <3>1. /\ o \in Seq(Keys) /\ Len(o) = h.count
            /\ ~\E n \in 1..h.count : o[n] = k
        BY <1>6, <1>8, <2>2, OrderOfIs
      <3>2. ~\E n \in 1..Len(o) : o[n] = k
        BY <3>1
      <3>. QED
        BY <3>2 DEF RemoveFirst
    <2>. QED
      BY <1>1, <1>4, <1>6, <1>8, <1>10, <2>1, <2>3, <2>4
  <1>. QED
    BY <1>11, <1>12

(* A read that makes its key the last changes nothing else.                *)
LEMMA TouchedMaps ==
  ASSUME NEW h, HashOK(h), NEW k \in Keys, Holds(h.entries, k)
  PROVE  LET g == Touched(h, k) IN
         /\ HashOK(g) /\ g.order_mode = h.order_mode
         /\ Contents(g) = Contents(h)
         /\ h.order_mode # 0 =>
              OrderOfKeys(g) = Append(RemoveFirst(OrderOfKeys(h), k), k)
  <1>1. PICK g : g = Touched(h, k)
    OBVIOUS
  <1>2. PICK E : E = Entries(h.entries)
    OBVIOUS
  <1>3. PICK F : F = Entries(g.entries)
    OBVIOUS
  <1>4. OneEach(E)
    BY <1>2, EntriesOf
  <1>5. PICK e \in E : e.key = k
    <2>1. Good(h.entries)
      BY DEF HashOK
    <2>. QED
      BY <1>2, <2>1, EntryKeys
  <1>6. PICK n : n = [key |-> k, value |-> e.value, sequence |-> h.next_sequence + 1]
    OBVIOUS
  <1>7. /\ n \in Entry /\ n.key = k /\ n.value = e.value
        /\ n.sequence = h.next_sequence + 1
    BY <1>4, <1>5, <1>6 DEF HashOK, OneEach, Entry
  <1>8. HashOK(g) /\ g.order_mode = h.order_mode /\ F = (E \ {e}) \cup {n}
    BY <1>1, <1>2, <1>3, <1>5, <1>6, TouchedEntries
  <1>9. \A d \in E : d # e => d.key # k
    BY <1>4, <1>5 DEF OneEach
  <1>10. PICK f : f = Contents(h)
    OBVIOUS
  <1>11. /\ DOMAIN f = {d.key : d \in E} /\ \A d \in E : f[d.key] = d.value
         /\ f = [x \in DOMAIN f |-> f[x]]
    BY <1>2, <1>10, ContentsIs
  <1>12. \A x : x \in DOMAIN f <=> \E d \in F : x = d.key
    BY <1>5, <1>7, <1>8, <1>9, <1>11
  <1>13. \A d \in F : f[d.key] = d.value
    BY <1>5, <1>7, <1>8, <1>11
  <1>14. Contents(g) = f
    <2>1. /\ HashOK(g) /\ f = [x \in DOMAIN f |-> f[x]]
          /\ \A d \in Entries(g.entries) : f[d.key] = d.value
      BY <1>3, <1>8, <1>11, <1>13
    <2>2. \A x : x \in DOMAIN f <=> \E d \in Entries(g.entries) : x = d.key
      BY <1>3, <1>12
    <2>. QED
      BY <2>1, <2>2, ContentsFrom
  <1>15. PICK o : o = OrderOfKeys(h)
    OBVIOUS
  <1>16. ASSUME h.order_mode # 0
         PROVE  OrderOfKeys(g) = Append(RemoveFirst(o, k), k)
    <2>1. InOrder(o, E)
      BY <1>2, <1>15, <1>16, OrderOfIs
    <2>2. InOrder(RemoveFirst(o, k), E \ {e})
      <3>1. InOrder(RemoveFirst(o, e.key), E \ {e})
        BY <1>4, <2>1, RemoveOrder
      <3>. QED
        BY <1>5, <3>1
    <2>3. PICK s : s = RemoveFirst(o, k)
      OBVIOUS
    <2>4. OneEach(E \ {e})
      BY <1>4 DEF OneEach
    <2>5. \A d \in E \ {e} : d.key # n.key /\ d.sequence < n.sequence
      <3>1. \A d \in E : d.sequence \in 1..h.next_sequence
        BY <1>2 DEF HashOK
      <3>2. h.next_sequence \in Nat
        BY DEF HashOK
      <3>. QED
        BY <1>7, <1>9, <3>1, <3>2
    <2>6. PICK D : D = E \ {e}
      OBVIOUS
    <2>7. InOrder(Append(s, n.key), D \cup {n})
      BY <1>7, <2>2, <2>3, <2>4, <2>5, <2>6, AppendOrder
    <2>8. InOrder(Append(s, k), F)
      BY <1>7, <1>8, <2>6, <2>7
    <2>. QED
      BY <1>3, <1>8, <1>16, <2>3, <2>8, OrderFrom
  <1>. QED
    BY <1>1, <1>8, <1>10, <1>14, <1>15, <1>16

(* A hash without entries stands for the empty map.                        *)
LEMMA EmptyMaps ==
  ASSUME NEW h, HashOK(h), Entries(h.entries) = {}
  PROVE  Contents(h) = << >> /\ OrderOfKeys(h) = << >>
  <1>1. DOMAIN Contents(h) = {}
    <2>1. PICK f : f = Contents(h)
      OBVIOUS
    <2>2. PICK E : E = Entries(h.entries)
      OBVIOUS
    <2>3. DOMAIN f = {d.key : d \in E}
      BY <2>1, <2>2, ContentsIs
    <2>4. E = {}
      BY <2>2
    <2>. QED
      BY <2>1, <2>3, <2>4
  <1>2. Contents(h) = << >>
    <2>1. PICK f : f = << >>
      OBVIOUS
    <2>2. DOMAIN f = {} /\ f = [k \in DOMAIN f |-> f[k]]
      BY <2>1
    <2>3. Contents(h) = f
      BY <2>2, ContentsFrom
    <2>. QED
      BY <2>1, <2>3
  <1>3. PICK o : o = OrderOfKeys(h)
    OBVIOUS
  <1>4. /\ o \in Seq(Keys) /\ Len(o) = h.count /\ h.count \in Nat
        /\ ~\E n \in 1..h.count : o[n] = o[n]
    BY <1>1, <1>3, OrderOfIs
  <1>5. Len(o) = 0
    BY <1>4
  <1>6. o = << >>
    BY <1>4, <1>5, EmptySeq
  <1>. QED
    BY <1>2, <1>3, <1>6

-----------------------------------------------------------------------------
(* Copies.                                                                 *)

(* g shows the copy of h that grows, ordinal by ordinal, up to m of them.  *)
Copies(h, g, m) ==
  g = [n \in 0..m |->
         IF n = 0 THEN NewHash(h.order_mode)
         ELSE IF Ordered(h)[n] < 0 THEN g[n-1]
         ELSE Put(g[n-1], h.entries[Ordered(h)[n]].key,
                  h.entries[Ordered(h)[n]].value)]

(* Every hash can be copied.                                               *)
LEMMA Copyable ==
  ASSUME NEW h, NEW m \in Nat
  PROVE  \E g : Copies(h, g, m)
  <1>. DEFINE new == NewHash(h.order_mode)
              next(n, c) == IF Ordered(h)[n] < 0 THEN c
                            ELSE Put(c, h.entries[Ordered(h)[n]].key,
                                     h.entries[Ordered(h)[n]].value)
              S == {n \in Nat : \E g : Copies(h, g, n)}
  <1>1. 0 \in S
    <2>. DEFINE g == [n \in 0..0 |-> new]
    <2>1. Copies(h, g, 0)
      BY DEF Copies
    <2>. QED
      BY <2>1
  <1>2. ASSUME NEW a \in Nat, a \in S
        PROVE  a + 1 \in S
    <2>1. PICK f : Copies(h, f, a)
      BY <1>2
    <2>. DEFINE b == a + 1
                last == next(b, f[b-1])
                g == [n \in 0..b |-> IF n = b THEN last ELSE f[n]]
                step(n, q) == IF n = 0 THEN new ELSE next(n, q[n-1])
    <2>2. f = [n \in 0..a |-> step(n, f)]
      BY <2>1 DEF Copies
    <2>. HIDE DEF next, new
    <2>3. ASSUME NEW n \in 0..b
          PROVE  g[n] = step(n, g)
      <3>1. CASE n = b
        <4>1. n # 0 /\ n - 1 \in 0..b /\ n - 1 # b
          BY <3>1
        <4>2. g[n - 1] = f[n - 1] /\ g[n] = last
          BY <3>1, <4>1
        <4>. QED
          BY <3>1, <4>1, <4>2
      <3>2. CASE n # b
        <4>1. n \in 0..a /\ (n # 0 => n - 1 \in 0..b /\ n - 1 # b)
          BY <3>2
        <4>2. g[n] = f[n] /\ (n # 0 => g[n - 1] = f[n - 1])
          BY <3>2, <4>1
        <4>3. f[n] = step(n, f)
          BY <2>2, <4>1
        <4>. QED
          BY <4>1, <4>2, <4>3
      <3>. QED
        BY <3>1, <3>2
    <2>4. g = [n \in 0..b |-> g[n]]
      OBVIOUS
    <2>5. g = [n \in 0..b |-> step(n, g)]
      <3>. HIDE DEF g, step
      <3>. QED
        BY <2>3, <2>4
    <2>6. Copies(h, g, b)
      <3>. HIDE DEF g, b
      <3>. QED
        BY <2>5 DEF Copies, next, new
    <2>. QED
      BY <2>6
  <1>. HIDE DEF S
  <1>3. \A n \in 0..m : n \in S
    BY <1>1, <1>2, Climb
  <1>4. m \in S
    BY <1>3
  <1>. QED
    BY <1>4 DEF S

(* The copy of a hash stands for the same map, in the same order.          *)
LEMMA DuplicateMaps ==
  ASSUME NEW h, HashOK(h)
  PROVE  LET g == Duplicate(h) IN
         /\ HashOK(g) /\ g.order_mode = h.order_mode
         /\ Contents(g) = Contents(h)
         /\ h.order_mode # 0 => OrderOfKeys(g) = OrderOfKeys(h)
  <1>. DEFINE t == h.entries
              n == h.count
  <1>1. PICK s : s = Ordered(h)
    OBVIOUS
  <1>2. PICK o : o = OrderOfKeys(h)
    OBVIOUS
  <1>3. PICK f : f = Contents(h)
    OBVIOUS
  <1>4. /\ o \in Seq(Keys) /\ Len(o) = n /\ n \in Nat
        /\ \A i \in 1..n : s[i] \in Live(t) /\ o[i] = t[s[i]].key
        /\ \A k : (\E i \in 1..n : o[i] = k) <=> k \in DOMAIN f
        /\ \A i, j \in 1..n : o[i] = o[j] => i = j
    BY <1>1, <1>2, <1>3, OrderOfIs
  <1>5. s \in [1..n -> Live(t)] /\ Len(s) = n
    <2>1. s \in [1..n -> Live(t)]
      BY <1>1, OrderedIs
    <2>. QED
      BY <1>4, <2>1, SequenceOfFunction
  <1>6. Good(t) /\ IsTable(t) /\ h.order_mode \in 0..2
    BY DEF HashOK, Good
  <1>7. \A i \in 1..n : /\ ~(s[i] < 0) /\ o[i] \in Keys
                        /\ t[s[i]].value \in Values /\ t[s[i]] \in Entries(t)
    <2>1. \A i \in Live(t) : i \in DOMAIN t /\ i \in Nat /\ t[i] \in Entry
      BY <1>6, Slots DEF IsTable, Live
    <2>2. \A i \in Live(t) : t[i].value \in Values /\ t[i].key \in Keys /\ ~(i < 0)
      BY <2>1 DEF Entry
    <2>. QED
      BY <1>4, <2>2 DEF Entries
  <1>8. PICK g : Copies(h, g, n) /\ Duplicate(h) = g[n]
    <2>1. Duplicate(h) = (CHOOSE g : Copies(h, g, n))[n]
      BY <1>1, <1>5 DEF Duplicate, Copies
    <2>2. \E g : Copies(h, g, n)
      BY <1>4, Copyable
    <2>. QED
      BY <2>1, <2>2
  <1>9. g[0] = NewHash(h.order_mode)
    BY <1>4, <1>8 DEF Copies
  <1>10. ASSUME NEW m \in 0..n, m < n
         PROVE  g[m + 1] = Put(g[m], o[m + 1], t[s[m + 1]].value)
    <2>1. PICK q : q = m + 1
      OBVIOUS
    <2>2. q \in 1..n /\ q \in 0..n /\ q # 0 /\ q - 1 = m
      BY <1>4, <1>10, <2>1
    <2>3. \A i \in 0..n : i # 0 =>
            g[i] = IF s[i] < 0 THEN g[i-1] ELSE Put(g[i-1], t[s[i]].key, t[s[i]].value)
      BY <1>1, <1>8 DEF Copies
    <2>4. g[q] = Put(g[q-1], t[s[q]].key, t[s[q]].value)
      BY <1>7, <2>2, <2>3
    <2>. QED
      BY <1>4, <2>1, <2>2, <2>4
  <1>. DEFINE e(i) == [key |-> o[i], value |-> t[s[i]].value, sequence |-> i]
              Is(m) == /\ HashOK(g[m]) /\ g[m].order_mode = h.order_mode
                       /\ g[m].next_sequence = m
                       /\ Entries(g[m].entries) = {e(i) : i \in 1..m}
              S == {m \in 0..n : Is(m)}
  <1>11. 0 \in S
    <2>1. PICK c : c = NewHash(h.order_mode)
      OBVIOUS
    <2>2. HashOK(c) /\ Entries(c.entries) = {} /\ c.order_mode = h.order_mode
          /\ c.next_sequence = 0
      BY <1>6, <2>1, NewEntries DEF NewHash
    <2>3. {e(i) : i \in 1..0} = {}
      OBVIOUS
    <2>. HIDE DEF e
    <2>4. Is(0)
      BY <1>9, <2>1, <2>2, <2>3
    <2>. QED
      BY <1>4, <2>4
  <1>12. ASSUME NEW m \in 0..n, m < n, m \in S
         PROVE  m + 1 \in S
    <2>1. PICK c : c = g[m]
      OBVIOUS
    <2>2. PICK k \in Keys : k = o[m + 1]
      BY <1>4, <1>7, <1>12
    <2>3. PICK v \in Values : v = t[s[m + 1]].value
      BY <1>4, <1>7, <1>12
    <2>4. PICK d : d = Put(c, k, v)
      OBVIOUS
    <2>5. d = g[m + 1]
      BY <1>10, <1>12, <2>1, <2>2, <2>3, <2>4
    <2>6. /\ HashOK(c) /\ c.order_mode = h.order_mode /\ c.next_sequence = m
          /\ Entries(c.entries) = {e(i) : i \in 1..m}
      BY <1>12, <2>1
    <2>7. \A x \in Entries(c.entries) : x.key # k
      <3>1. SUFFICES ASSUME NEW i \in 1..m
                     PROVE  o[i] # k
        BY <2>6
      <3>2. i \in 1..n /\ m + 1 \in 1..n /\ i # m + 1
        BY <1>4, <1>12
      <3>. QED
        BY <1>4, <2>2, <3>2
    <2>8. /\ HashOK(d) /\ d.order_mode = c.order_mode
          /\ Entries(d.entries) = Entries(c.entries) \cup
               {[key |-> k, value |-> v, sequence |-> c.next_sequence + 1]}
          /\ d.next_sequence = c.next_sequence + 1
      BY <2>4, <2>6, <2>7, PutEntries
    <2>9. [key |-> k, value |-> v, sequence |-> c.next_sequence + 1] = e(m + 1)
      BY <2>2, <2>3, <2>6
    <2>10. {e(i) : i \in 1..m + 1} = {e(i) : i \in 1..m} \cup {e(m + 1)}
      <3>1. \A i : i \in 1..m + 1 <=> i \in 1..m \/ i = m + 1
        BY <1>4
      <3>. HIDE DEF e
      <3>. QED
        BY <3>1
    <2>. HIDE DEF e
    <2>11. Entries(d.entries) = {e(i) : i \in 1..m + 1}
      BY <2>6, <2>8, <2>9, <2>10
    <2>12. Is(m + 1)
      BY <2>5, <2>6, <2>8, <2>11
    <2>13. m + 1 \in 0..n
      BY <1>4, <1>12
    <2>. QED
      BY <2>12, <2>13
  <1>13. n \in S
    <2>. HIDE DEF S
    <2>1. \A m \in 0..n : m < n /\ m \in S => m + 1 \in S
      BY <1>12
    <2>2. \A m \in 0..n : m \in S
      BY <1>4, <1>11, <2>1, Climb
    <2>. QED
      BY <1>4, <2>2
  <1>14. PICK c : c = g[n]
    OBVIOUS
  <1>15. /\ HashOK(c) /\ c.order_mode = h.order_mode
         /\ Entries(c.entries) = {e(i) : i \in 1..n}
    BY <1>13, <1>14
  <1>. HIDE DEF S
  <1>16. /\ Entries(c.entries) = {e(i) : i \in 1..n}
        /\ \A i \in 1..n : /\ e(i).key = o[i] /\ e(i).sequence = i
                           /\ e(i).value = t[s[i]].value
    BY <1>15
  <1>. HIDE DEF e
  <1>17. Contents(c) = f
    <2>1. /\ f = [k \in DOMAIN f |-> f[k]]
          /\ \A x \in Entries(t) : f[x.key] = x.value
      BY <1>3, ContentsIs
    <2>2. \A k : k \in DOMAIN f <=> \E x \in Entries(c.entries) : k = x.key
      BY <1>4, <1>16
    <2>3. \A i \in 1..n : f[o[i]] = t[s[i]].value
      BY <1>4, <1>7, <2>1
    <2>4. \A x \in Entries(c.entries) : f[x.key] = x.value
      BY <1>16, <2>3
    <2>. QED
      BY <1>15, <2>1, <2>2, <2>4, ContentsFrom
  <1>18. ASSUME h.order_mode # 0
         PROVE  OrderOfKeys(c) = o
    <2>1. \A x \in Entries(c.entries) : \E i \in 1..n : o[i] = x.key
      BY <1>16
    <2>2. \A i \in 1..n : \E x \in Entries(c.entries) : o[i] = x.key
      BY <1>16
    <2>3. ASSUME NEW i \in 1..n, NEW j \in 1..n, i < j,
                 NEW x \in Entries(c.entries), NEW y \in Entries(c.entries),
                 o[i] = x.key, o[j] = y.key
          PROVE  x.sequence < y.sequence
      <3>1. PICK a \in 1..n : x = e(a)
        BY <1>16
      <3>2. PICK b \in 1..n : y = e(b)
        BY <1>16
      <3>3. a = i /\ b = j
        BY <1>4, <1>16, <2>3, <3>1, <3>2
      <3>. QED
        BY <1>16, <2>3, <3>1, <3>2, <3>3
    <2>4. InOrder(o, Entries(c.entries))
      BY <1>4, <2>1, <2>2, <2>3 DEF InOrder
    <2>. QED
      BY <1>15, <1>18, <2>4, OrderFrom
  <1>. QED
    BY <1>2, <1>3, <1>8, <1>14, <1>15, <1>17, <1>18

-----------------------------------------------------------------------------
(* What a listing shows, and the eldest entry.                             *)

(* The n-th number of a set of positions is one of them.                   *)
LEMMA NthIs ==
  ASSUME NEW n \in Nat, NEW S \in SUBSET (1..n)
  PROVE  /\ Cardinality(S) \in Nat
         /\ \A m \in 1..Cardinality(S) : Nth(S, m) \in S
  <1>. DEFINE R == {x \in S \X S : x[1] < x[2]}
              c == Cardinality(S)
  <1>1. IsFiniteSet(S) /\ c \in Nat
    <2>1. n \in Int /\ 1 \in Int
      OBVIOUS
    <2>2. IsFiniteSet(1..n)
      BY <2>1, FS_Interval
    <2>3. IsFiniteSet(S)
      BY <2>2, FS_Subset
    <2>. QED
      BY <2>3, FS_CardinalityType
  <1>2. \A i, j \in S : i \in Int /\ (<<i, j>> \in R <=> i < j)
    OBVIOUS
  <1>3. \A m \in 0..c-1 : \E i \in S : Cardinality(Before(S, R, i)) = m
    <2>. HIDE DEF R
    <2>1. /\ \A i \in S : <<i, i>> \notin R
          /\ \A i, j \in S : i = j \/ <<i, j>> \in R \/ <<j, i>> \in R
          /\ \A i, j, l \in S : <<i, j>> \in R /\ <<j, l>> \in R => <<i, l>> \in R
      BY <1>2
    <2>. QED
      BY <1>1, <2>1, Ranked
  <1>. HIDE DEF R
  <1>4. ASSUME NEW i \in S
        PROVE  Cardinality(UpTo(S, i)) = Cardinality(Before(S, R, i)) + 1
    <2>1. UpTo(S, i) = Before(S, R, i) \cup {i} /\ i \notin Before(S, R, i)
      <3>1. \A j \in S : j \in Int /\ i \in Int /\ (<<j, i>> \in R <=> j < i)
        BY <1>2
      <3>2. \A j \in S : j <= i <=> <<j, i>> \in R \/ j = i
        BY <3>1
      <3>3. <<i, i>> \notin R
        BY <3>1
      <3>. QED
        BY <3>2, <3>3 DEF UpTo, Before
    <2>2. IsFiniteSet(Before(S, R, i))
      BY <1>1, FS_Subset DEF Before
    <2>. QED
      BY <2>1, <2>2, FS_AddElement
  <1>5. ASSUME NEW m \in 1..c
        PROVE  Nth(S, m) \in S
    <2>1. m - 1 \in 0..c-1 /\ m - 1 + 1 = m
      BY <1>1
    <2>2. PICK i \in S : Cardinality(Before(S, R, i)) = m - 1
      BY <1>3, <2>1
    <2>3. Cardinality(UpTo(S, i)) = m
      BY <1>4, <2>1, <2>2
    <2>. QED
      BY <2>3 DEF Nth
  <1>. QED
    BY <1>1, <1>5

(* keys() lists the keys of the map that are bound, in the order.          *)
LEMMA ListMaps ==
  ASSUME NEW h, HashOK(h)
  PROVE  LET t == h.entries
             f == Contents(h)
             shown == Only(Ordered(h), {i \in Live(t) : t[i].value # Null})
         IN [n \in 1..Len(shown) |-> t[shown[n]].key] =
            Map!Only(OrderOfKeys(h), {k \in DOMAIN f : f[k] # Null})
  <1>1. PICK t : t = h.entries
    OBVIOUS
  <1>2. PICK f : f = Contents(h)
    OBVIOUS
  <1>3. PICK s : s = Ordered(h)
    OBVIOUS
  <1>4. PICK o : o = OrderOfKeys(h)
    OBVIOUS
  <1>5. PICK b : b = h.count
    OBVIOUS
  <1>6. PICK T : T = {i \in Live(t) : t[i].value # Null}
    OBVIOUS
  <1>7. PICK U : U = {k \in DOMAIN f : f[k] # Null}
    OBVIOUS
  <1>8. PICK S : S = {n \in 1..b : s[n] \in T}
    OBVIOUS
  <1>9. PICK c : c = Cardinality(S)
    OBVIOUS
  <1>10. /\ b \in Nat /\ DOMAIN s = 1..b /\ DOMAIN o = 1..b
         /\ \A n \in 1..b : s[n] \in Live(t) /\ o[n] = t[s[n]].key /\ o[n] \in DOMAIN f
    <2>1. s \in [1..b -> Live(t)]
      BY <1>1, <1>3, <1>5, OrderedIs
    <2>2. /\ b \in Nat /\ DOMAIN o = 1..b
          /\ \A n \in 1..b : s[n] \in Live(t) /\ o[n] = t[s[n]].key
          /\ \A k : (\E n \in 1..b : o[n] = k) <=> k \in DOMAIN f
      BY <1>1, <1>2, <1>3, <1>4, <1>5, OrderOfIs
    <2>. QED
      BY <2>1, <2>2
  <1>11. \A n \in 1..b : f[o[n]] = t[s[n]].value
    <2>1. \A e \in Entries(t) : f[e.key] = e.value
      BY <1>1, <1>2, ContentsIs
    <2>2. \A n \in 1..b : t[s[n]] \in Entries(t)
      BY <1>10 DEF Entries
    <2>. QED
      BY <1>10, <2>1, <2>2
  <1>12. \A n \in 1..b : s[n] \in T <=> o[n] \in U
    BY <1>6, <1>7, <1>10, <1>11
  <1>13. S = {n \in DOMAIN o : o[n] \in U} /\ S = {n \in DOMAIN s : s[n] \in T}
    BY <1>8, <1>10, <1>12
  <1>14. c \in Nat /\ \A m \in 1..c : Nth(S, m) \in S
    BY <1>8, <1>9, <1>10, NthIs
  <1>15. Only(o, U) = [m \in 1..c |-> o[Nth(S, m)]]
    BY <1>9, <1>13 DEF Only
  <1>16. PICK shown : shown = Only(s, T)
    OBVIOUS
  <1>17. shown = [m \in 1..c |-> s[Nth(S, m)]]
    BY <1>9, <1>13, <1>16 DEF Only
  <1>18. Len(shown) = c
    <2>1. \A m \in 1..c : s[Nth(S, m)] \in Live(t)
      BY <1>8, <1>10, <1>14
    <2>2. shown \in [1..c -> Live(t)]
      BY <1>17, <2>1
    <2>. QED
      BY <1>14, <2>2, SequenceOfFunction
  <1>19. \A m \in 1..c : t[shown[m]].key = o[Nth(S, m)]
    BY <1>8, <1>10, <1>14, <1>17
  <1>20. [m \in 1..Len(shown) |-> t[shown[m]].key] = Only(o, U)
    BY <1>15, <1>18, <1>19
  <1>21. Map!Only(o, U) = Only(o, U)
    BY SameOperators
  <1>. QED
    BY <1>1, <1>2, <1>3, <1>4, <1>6, <1>7, <1>16, <1>20, <1>21

(* The eldest is the first in the order; an empty hash has none.           *)
LEMMA EldestIs ==
  ASSUME NEW h, HashOK(h)
  PROVE  /\ Eldest(h) = IF OrderOfKeys(h) # << >> THEN OrderOfKeys(h)[1] ELSE Null
         /\ h.count \in Nat
         /\ h.count = 0 => Eldest(h) = Null
         /\ h.count # 0 => Eldest(h) \in DOMAIN Contents(h)
         /\ DOMAIN Contents(h) \subseteq Keys
  <1>1. PICK o : o = OrderOfKeys(h)
    OBVIOUS
  <1>2. PICK s : s = Ordered(h)
    OBVIOUS
  <1>3. PICK t : t = h.entries
    OBVIOUS
  <1>4. PICK D : D = DOMAIN Contents(h)
    OBVIOUS
  <1>5. /\ o \in Seq(Keys) /\ Len(o) = h.count /\ h.count \in Nat
        /\ \A n \in 1..h.count : s[n] \in Live(t) /\ o[n] = t[s[n]].key
        /\ \A k : (\E n \in 1..h.count : o[n] = k) <=> k \in D
    BY <1>1, <1>2, <1>3, <1>4, OrderOfIs
  <1>6. D \subseteq Keys
    <2>1. \A n \in 1..h.count : o[n] \in Keys
      BY <1>5, ElementOfSeq
    <2>. QED
      BY <1>5, <2>1
  <1>7. CASE h.count = 0
    <2>1. o = << >>
      BY <1>5, <1>7, EmptySeq
    <2>2. Live(t) = {}
      <3>1. IsFiniteSet(Live(t)) /\ Cardinality(Live(t)) = 0
        BY <1>3, <1>7, EntriesCount DEF HashOK
      <3>. QED
        BY <3>1, FS_EmptySet
    <2>3. OrderedIndex(h, 0) = -1
      BY <1>3, <2>2 DEF OrderedIndex
    <2>4. Eldest(h) = Null
      BY <2>3 DEF Eldest
    <2>. QED
      BY <1>1, <1>4, <1>5, <1>6, <1>7, <2>1, <2>4
  <1>8. CASE h.count # 0
    <2>1. 1 \in 1..h.count /\ 1 - 1 = 0
      BY <1>5, <1>8
    <2>2. s[1] = OrderedIndex(h, 0)
      BY <1>2, <2>1 DEF Ordered
    <2>3. s[1] \in Live(t) /\ o[1] = t[s[1]].key
      BY <1>5, <2>1
    <2>4. ~(s[1] < 0)
      <3>1. IsTable(t)
        BY <1>3 DEF HashOK, Good
      <3>2. s[1] \in Nat
        BY <2>3, <3>1 DEF IsTable, Live
      <3>. QED
        BY <3>2
    <2>5. Eldest(h) = o[1]
      BY <1>3, <2>2, <2>3, <2>4 DEF Eldest
    <2>6. o # << >>
      <3>1. Len(o) # 0
        BY <1>5, <1>8
      <3>. QED
        BY <3>1
    <2>7. o[1] \in D
      BY <1>5, <2>1
    <2>. QED
      BY <1>1, <1>4, <1>5, <1>6, <1>8, <2>5, <2>6, <2>7
  <1>. QED
    BY <1>7, <1>8

(* A key is held when the map has it, and bound to the value of its entry. *)
LEMMA Held ==
  ASSUME NEW h, HashOK(h), NEW k \in Keys
  PROVE  /\ Holds(h.entries, k) <=> k \in DOMAIN Contents(h)
         /\ Holds(h.entries, k) =>
              /\ h.entries[Index(h.entries, k)].value = Contents(h)[k]
              /\ Contents(h)[k] \in Values
  <1>1. PICK t : t = h.entries
    OBVIOUS
  <1>2. PICK f : f = Contents(h)
    OBVIOUS
  <1>3. Good(t) /\ IsTable(t)
    BY <1>1 DEF HashOK, Good
  <1>4. DOMAIN f = {e.key : e \in Entries(t)} /\ \A e \in Entries(t) : f[e.key] = e.value
    BY <1>1, <1>2, ContentsIs
  <1>5. Holds(t, k) <=> k \in DOMAIN f
    <2>1. Holds(t, k) <=> \E e \in Entries(t) : e.key = k
      BY <1>3, EntryKeys
    <2>. QED
      BY <1>4, <2>1
  <1>6. ASSUME Holds(t, k)
        PROVE  t[Index(t, k)].value = f[k] /\ f[k] \in Values
    <2>1. PICK i \in Live(t) : i = Index(t, k) /\ t[i].key = k
      BY <1>3, <1>6, Finds
    <2>2. t[i] \in Entries(t) /\ t[i] \in Entry
      BY <1>3, Slots DEF Entries, Live
    <2>3. t[i].value = f[k]
      BY <1>4, <2>1, <2>2
    <2>. QED
      BY <2>1, <2>2, <2>3 DEF Entry
  <1>. QED
    BY <1>1, <1>2, <1>5, <1>6

(* How many entries a hash has after a set, a deletion, a read.            *)
LEMMA Counts ==
  ASSUME NEW h, HashOK(h), NEW k \in Keys
  PROVE  /\ h.count = Cardinality(DOMAIN Contents(h)) /\ h.count \in Nat
         /\ \A v \in Values : Put(h, k, v).count =
              IF k \in DOMAIN Contents(h) THEN h.count ELSE h.count + 1
         /\ Without(h, k).count =
              IF k \in DOMAIN Contents(h) THEN h.count - 1 ELSE h.count
  <1>1. PICK E : E = Entries(h.entries)
    OBVIOUS
  <1>2. PICK f : f = Contents(h)
    OBVIOUS
  <1>3. h.count = Cardinality(DOMAIN f)
    <2>1. Map!Lists(OrderOfKeys(h), f)
      BY <1>2, OrderLists
    <2>2. Len(OrderOfKeys(h)) = Cardinality(DOMAIN f)
      BY <2>1, SameOperators DEF Map!Lists
    <2>3. Len(OrderOfKeys(h)) = h.count
      BY OrderOfIs
    <2>. QED
      BY <2>2, <2>3
  <1>4. h.count \in Nat
    BY OrderOfIs
  <1>5. DOMAIN f = {e.key : e \in E}
    BY <1>1, <1>2, ContentsIs
  <1>6. ASSUME NEW v \in Values
        PROVE  Put(h, k, v).count = IF k \in DOMAIN f THEN h.count ELSE h.count + 1
    <2>1. PICK g : g = Put(h, k, v)
      OBVIOUS
    <2>2. /\ \A e \in E : e.key = k => g.count = h.count
          /\ (\A e \in E : e.key # k) => g.count = h.count + 1
      BY <1>1, <2>1, PutEntries
    <2>. QED
      BY <1>5, <2>1, <2>2
  <1>7. Without(h, k).count = IF k \in DOMAIN f THEN h.count - 1 ELSE h.count
    <2>1. PICK g : g = Without(h, k)
      OBVIOUS
    <2>2. /\ \A e \in E : e.key = k => g.count = h.count - 1
          /\ (\A e \in E : e.key # k) => g = h
      BY <1>1, <2>1, WithoutEntries
    <2>. QED
      BY <1>5, <2>1, <2>2
  <1>. QED
    BY <1>2, <1>3, <1>4, <1>6, <1>7

(* size(%h) of a hash without keys bound to $null.                         *)
LEMMA AllVisible ==
  ASSUME NEW h, HashOK(h), \A k \in DOMAIN Contents(h) : Contents(h)[k] # Null
  PROVE  VisibleCount(h) = h.count
  <1>1. PICK t : t = h.entries
    OBVIOUS
  <1>2. PICK f : f = Contents(h)
    OBVIOUS
  <1>3. DOMAIN f = {e.key : e \in Entries(t)} /\ \A e \in Entries(t) : f[e.key] = e.value
    BY <1>1, <1>2, ContentsIs
  <1>4. \A i \in Live(t) : t[i].value # Null
    <2>1. \A e \in Entries(t) : e.value # Null
      BY <1>2, <1>3
    <2>. QED
      BY <2>1 DEF Entries
  <1>5. {i \in Live(t) : t[i].value # Null} = Live(t)
    BY <1>4
  <1>. QED
    BY <1>1, <1>5 DEF VisibleCount, HashOK

-----------------------------------------------------------------------------
(* The invariant.                                                          *)

Questions == [kind : {"miss", "remove"}, key : Keys, value : Values,
              reading : BOOLEAN, eldest : Keys \cup {Null}]

PoliciesOK ==
  /\ policies \subseteq {"miss", "remove"} /\ limited \in BOOLEAN
  /\ policies # {} => hash.order_mode \in {1, 2}
  /\ pending \in Seq(Questions)
  /\ pending # << >> => hash.order_mode # 0

HashInv == HashOK(hash) /\ PoliciesOK

(* A cache has no key bound to $null, one removal policy at most runs, and *)
(* should the eldest that it was asked about be gone, an entry is missing. *)
Bounded(h) == /\ h.count <= Limit
              /\ \A k \in DOMAIN Contents(h) : Contents(h)[k] # Null
Settled(s) ==
  \A i, j \in DOMAIN s : s[i].kind = "remove" /\ s[j].kind = "remove" => i = j
Waiting(h, s) ==
  \A i \in DOMAIN s : s[i].kind = "remove" =>
    /\ s[i].value # Null
    /\ s[i].eldest \notin DOMAIN Contents(h) => h.count < Limit
CacheInv ==
  limited => /\ "remove" \in policies
             /\ Bounded(hash)
             /\ Settled(pending)
             /\ Waiting(hash, pending)

(* A question put behind the others, and one that is taken from the end.   *)
LEMMA Asked ==
  ASSUME NEW s \in Seq(Questions), NEW q \in Questions
  PROVE  /\ Append(s, q) \in Seq(Questions) /\ DOMAIN Append(s, q) = 1..Len(s)+1
         /\ Len(s) \in Nat /\ DOMAIN s = 1..Len(s)
         /\ \A i \in 1..Len(s) : Append(s, q)[i] = s[i]
         /\ Append(s, q)[Len(s)+1] = q /\ Append(s, q) # << >>
  BY AppendProperties, LenProperties

LEMMA Settles ==
  ASSUME NEW s \in Seq(Questions), s # << >>
  PROVE  /\ Last(s) \in Questions /\ Len(s) \in Nat \ {0}
         /\ DOMAIN s = 1..Len(s) /\ Last(s) = s[Len(s)]
         /\ Front(s) \in Seq(Questions) /\ Len(Front(s)) = Len(s) - 1
         /\ DOMAIN Front(s) = 1..Len(s)-1
         /\ \A i \in 1..Len(s)-1 : Front(s)[i] = s[i]
  <1>1. /\ Len(s) \in Nat /\ Len(s) >= 1 /\ Last(s) = s[Len(s)]
        /\ Last(s) \in Questions
    BY LastElement
  <1>2. Len(s) - 1 \in 0..Len(s) /\ Front(s) = SubSeq(s, 1, Len(s) - 1)
    BY <1>1 DEF Front
  <1>3. /\ Front(s) \in Seq(Questions) /\ Len(Front(s)) = Len(s) - 1
        /\ \A i \in 1..Len(s)-1 : Front(s)[i] = s[i]
    BY <1>2, Prefix
  <1>4. DOMAIN Front(s) = 1..Len(s)-1 /\ DOMAIN s = 1..Len(s)
    BY <1>3, LenProperties
  <1>. QED
    BY <1>1, <1>3, <1>4

-----------------------------------------------------------------------------
(* Each operation is one of the map.                                       *)

LEMMA SetMaps ==
  ASSUME HashInv, NEW k \in Keys, NEW v \in Values, Set(k, v), UNCHANGED pending
  PROVE  HashOK(hash') /\ hash'.order_mode = hash.order_mode /\ Map!Set(k, v)
  <1>1. PICK g : g = hash'
    OBVIOUS
  <1>2. g = Put(hash, k, v) /\ answer' = <<TRUE>>
    BY <1>1 DEF Set
  <1>3. /\ HashOK(g) /\ g.order_mode = hash.order_mode
        /\ Contents(g) = Map!With(Contents(hash), k, v)
        /\ hash.order_mode # 0 => OrderOfKeys(g) = Map!Inserted(OrderOfKeys(hash), k)
    BY <1>2, PutMaps DEF HashInv
  <1>4. Map!Lists(OrderOfKeys(g), Contents(g))
    BY <1>3, OrderLists
  <1>. QED
    BY <1>1, <1>2, <1>3, <1>4 DEF Map!Set, Map!Reordered

LEMMA GetMaps ==
  ASSUME HashInv, NEW k \in Keys, Get(k), UNCHANGED pending
  PROVE  /\ HashOK(hash') /\ hash'.order_mode = hash.order_mode
         /\ Contents(hash') = Contents(hash) /\ Map!Get(k)
  <1>1. PICK g : g = hash'
    OBVIOUS
  <1>2. PICK t : t = hash.entries
    OBVIOUS
  <1>3. PICK f : f = Contents(hash)
    OBVIOUS
  <1>4. HashOK(hash)
    BY DEF HashInv
  <1>5. /\ Holds(t, k) <=> k \in DOMAIN f
        /\ Holds(t, k) => t[Index(t, k)].value = f[k]
    BY <1>2, <1>3, <1>4, Held
  <1>6. Map!Lists(OrderOfKeys(hash), f)
    BY <1>3, <1>4, OrderLists
  <1>7. CASE ~Holds(t, k)
    <2>1. answer' = <<Null>> /\ g = hash
      BY <1>1, <1>2, <1>7 DEF Get
    <2>. QED
      BY <1>1, <1>3, <1>4, <1>5, <1>6, <1>7, <2>1 DEF Map!Get, Map!Reordered
  <1>8. CASE Holds(t, k) /\ hash.order_mode = 2 /\ f[k] # Null
    <2>1. answer' = <<f[k]>> /\ g = Touched(hash, k)
      BY <1>1, <1>2, <1>5, <1>8 DEF Get, Touched
    <2>2. /\ HashOK(g) /\ g.order_mode = hash.order_mode /\ Contents(g) = f
          /\ OrderOfKeys(g) = Append(RemoveFirst(OrderOfKeys(hash), k), k)
      BY <1>2, <1>3, <1>4, <1>8, <2>1, TouchedMaps
    <2>3. OrderOfKeys(g) = Append(Map!Without(k), k)
      BY <2>2, SameOperators DEF Map!Without
    <2>. QED
      BY <1>1, <1>3, <1>5, <1>8, <2>1, <2>2, <2>3 DEF Map!Get, Map!Reordered
  <1>9. CASE Holds(t, k) /\ ~(hash.order_mode = 2 /\ f[k] # Null)
    <2>1. answer' = <<f[k]>> /\ g = hash
      BY <1>1, <1>2, <1>5, <1>9 DEF Get
    <2>. QED
      BY <1>1, <1>3, <1>4, <1>5, <1>6, <1>9, <2>1 DEF Map!Get, Map!Reordered
  <1>. QED
    BY <1>7, <1>8, <1>9

LEMMA HasMaps ==
  ASSUME HashInv, NEW k \in Keys, Has(k), UNCHANGED pending
  PROVE  hash' = hash /\ Map!Has(k)
  <1>1. HashOK(hash)
    BY DEF HashInv
  <1>2. Holds(hash.entries, k) = (k \in DOMAIN Contents(hash))
    <2>1. Holds(hash.entries, k) \in BOOLEAN
      BY DEF Holds
    <2>. QED
      BY <1>1, <2>1, Held
  <1>. QED
    BY <1>2 DEF Has, Map!Has

LEMMA DeleteMaps ==
  ASSUME HashInv, NEW k \in Keys, Delete(k), UNCHANGED pending
  PROVE  HashOK(hash') /\ hash'.order_mode = hash.order_mode /\ Map!Delete(k)
  <1>1. PICK g : g = hash'
    OBVIOUS
  <1>2. HashOK(hash)
    BY DEF HashInv
  <1>3. g = Without(hash, k) /\ answer' = <<k \in DOMAIN Contents(hash)>>
    <2>1. Holds(hash.entries, k) = (k \in DOMAIN Contents(hash))
      <3>1. Holds(hash.entries, k) \in BOOLEAN
        BY DEF Holds
      <3>. QED
        BY <1>2, <3>1, Held
    <2>. QED
      BY <1>1, <2>1 DEF Delete
  <1>4. /\ HashOK(g) /\ g.order_mode = hash.order_mode
        /\ Contents(g) = Map!Dropped(Contents(hash), k)
        /\ hash.order_mode # 0 => OrderOfKeys(g) = RemoveFirst(OrderOfKeys(hash), k)
    BY <1>2, <1>3, WithoutMaps
  <1>5. Map!Lists(OrderOfKeys(g), Contents(g))
    BY <1>4, OrderLists
  <1>6. Map!Without(k) = RemoveFirst(OrderOfKeys(hash), k)
    BY SameOperators DEF Map!Without
  <1>. QED
    BY <1>1, <1>3, <1>4, <1>5, <1>6 DEF Map!Delete, Map!Reordered

LEMMA ListingMaps ==
  ASSUME HashInv, List, UNCHANGED pending
  PROVE  hash' = hash /\ Map!List
  <1>1. HashOK(hash)
    BY DEF HashInv
  <1>2. answer' = Map!Visible /\ hash' = hash
    BY <1>1, ListMaps DEF List, Map!Visible
  <1>. QED
    BY <1>2 DEF Map!List

LEMMA ClearMaps ==
  ASSUME HashInv, Clear, UNCHANGED pending
  PROVE  /\ HashOK(hash') /\ hash'.order_mode = hash.order_mode
         /\ hash'.count = 0 /\ Contents(hash') = << >> /\ Map!Clear
  <1>1. PICK g : g = hash'
    OBVIOUS
  <1>2. g = Cleared(hash) /\ answer' = << >>
    BY <1>1 DEF Clear, Cleared
  <1>3. /\ HashOK(g) /\ g.order_mode = hash.order_mode /\ g.count = 0
        /\ Entries(g.entries) = {}
    BY <1>2, ClearedEntries DEF HashInv
  <1>4. Contents(g) = << >> /\ OrderOfKeys(g) = << >>
    BY <1>3, EmptyMaps
  <1>. QED
    BY <1>1, <1>2, <1>3, <1>4 DEF Map!Clear

LEMMA CopyMaps ==
  ASSUME HashInv, Copy, UNCHANGED pending
  PROVE  /\ HashOK(hash') /\ hash'.order_mode = hash.order_mode
         /\ Contents(hash') = Contents(hash) /\ Map!Copy
  <1>1. PICK g : g = hash'
    OBVIOUS
  <1>2. g = Duplicate(hash) /\ answer' = << >>
    BY <1>1 DEF Copy
  <1>3. /\ HashOK(g) /\ g.order_mode = hash.order_mode
        /\ Contents(g) = Contents(hash)
        /\ hash.order_mode # 0 => OrderOfKeys(g) = OrderOfKeys(hash)
    BY <1>2, DuplicateMaps DEF HashInv
  <1>4. Map!Lists(OrderOfKeys(g), Contents(g))
    BY <1>3, OrderLists
  <1>. QED
    BY <1>1, <1>2, <1>3, <1>4 DEF Map!Copy, Map!Reordered

(* What the script is asked: the eldest is the first in the order now.     *)
LEMMA RequestIs ==
  ASSUME HashInv, NEW kind \in {"miss", "remove"}, NEW k \in Keys,
         NEW v \in Values, NEW reading \in BOOLEAN
  PROVE  LET q == Request(kind, k, v, reading) IN
         /\ q \in Questions /\ q = Map!Question(kind, k, v, reading)
         /\ q.kind = kind /\ q.key = k /\ q.value = v /\ q.reading = reading
         /\ q.eldest = IF kind = "remove" THEN Eldest(hash) ELSE Null
  <1>1. /\ Eldest(hash) = IF OrderOfKeys(hash) # << >> THEN OrderOfKeys(hash)[1] ELSE Null
        /\ Eldest(hash) \in Keys \cup {Null}
    <2>1. HashOK(hash)
      BY DEF HashInv
    <2>2. /\ Eldest(hash) = IF OrderOfKeys(hash) # << >> THEN OrderOfKeys(hash)[1] ELSE Null
          /\ hash.count = 0 => Eldest(hash) = Null
          /\ hash.count # 0 => Eldest(hash) \in DOMAIN Contents(hash)
          /\ DOMAIN Contents(hash) \subseteq Keys
      BY <2>1, EldestIs
    <2>. QED
      BY <2>2
  <1>2. PICK e \in Keys \cup {Null} : e = IF kind = "remove" THEN Eldest(hash) ELSE Null
    BY <1>1
  <1>3. PICK q : q = Request(kind, k, v, reading)
    OBVIOUS
  <1>4. q = [kind |-> kind, key |-> k, value |-> v, reading |-> reading, eldest |-> e]
    BY <1>2, <1>3 DEF Request
  <1>5. q = Map!Question(kind, k, v, reading)
    <2>1. e = IF kind = "remove" /\ OrderOfKeys(hash) # << >>
              THEN OrderOfKeys(hash)[1] ELSE Null
      BY <1>1, <1>2
    <2>. QED
      BY <1>4, <2>1 DEF Map!Question
  <1>6. q \in Questions
    BY <1>4 DEF Questions
  <1>7. q.kind = kind /\ q.key = k /\ q.value = v /\ q.reading = reading /\ q.eldest = e
    BY <1>4
  <1>. QED
    BY <1>2, <1>3, <1>5, <1>6, <1>7

(* A new key: the removal policy is called.                                *)
LEMMA ConsultMaps ==
  ASSUME HashInv, NEW k \in Keys, NEW v \in Values, NEW reading \in BOOLEAN,
         NEW s \in Seq(Questions), Asks(k), hash' = hash, answer' = << >>,
         pending' = Append(s, Request("remove", k, v, reading))
  PROVE  Map!Consult(k, v, reading, s) /\ pending' \in Seq(Questions)
  <1>1. PICK q : q = Request("remove", k, v, reading)
    OBVIOUS
  <1>2. q \in Questions /\ q = Map!Question("remove", k, v, reading)
    BY <1>1, RequestIs
  <1>3. PICK r : r = pending'
    OBVIOUS
  <1>4. r = Append(s, q)
    BY <1>1, <1>3
  <1>5. r \in Seq(Questions) /\ Len(r) = Len(s) + 1
    BY <1>2, <1>4, AppendProperties
  <1>6. hash.order_mode # 0 /\ k \notin DOMAIN Contents(hash)
    BY Held DEF Asks, HashInv
  <1>. QED
    BY <1>2, <1>3, <1>4, <1>5, <1>6 DEF Map!Consult

LEMMA SetByScriptMaps ==
  ASSUME HashInv, NEW k \in Keys, NEW v \in Values, SetByScript(k, v)
  PROVE  HashInv' /\ Map!Next
  <1>1. CASE Asks(k)
    <2>1. /\ pending' = Append(pending, Request("remove", k, v, FALSE))
          /\ answer' = << >> /\ hash' = hash /\ policies' = policies
          /\ limited' \in BOOLEAN
      BY <1>1 DEF SetByScript, HashInv, PoliciesOK
    <2>2. pending \in Seq(Questions)
      BY DEF HashInv, PoliciesOK
    <2>3. Map!Consult(k, v, FALSE, pending) /\ pending' \in Seq(Questions)
      BY <1>1, <2>1, <2>2, ConsultMaps
    <2>4. HashInv'
      BY <1>1, <2>1, <2>3 DEF HashInv, PoliciesOK, Asks
    <2>. QED
      BY <2>3, <2>4 DEF Map!Next
  <1>2. CASE ~Asks(k)
    <2>1. /\ Set(k, v) /\ pending' = pending /\ policies' = policies
          /\ limited' \in BOOLEAN
      BY <1>2 DEF SetByScript, HashInv, PoliciesOK
    <2>2. HashOK(hash') /\ hash'.order_mode = hash.order_mode /\ Map!Set(k, v)
      BY <2>1, SetMaps
    <2>3. HashInv'
      BY <2>1, <2>2 DEF HashInv, PoliciesOK
    <2>. QED
      BY <2>1, <2>2, <2>3 DEF Map!Next
  <1>. QED
    BY <1>1, <1>2

LEMMA GetByScriptMaps ==
  ASSUME HashInv, NEW k \in Keys, GetByScript(k)
  PROVE  HashInv' /\ Map!Next
  <1>. DEFINE t == hash.entries
              missed == ~Holds(t, k) \/ t[Index(t, k)].value = Null
  <1>1. CASE missed /\ "miss" \in policies
    <2>1. /\ pending' = Append(pending, Request("miss", k, Null, TRUE))
          /\ answer' = << >> /\ hash' = hash
          /\ policies' = policies /\ limited' = limited
      BY <1>1 DEF GetByScript
    <2>2. hash.order_mode # 0 /\ pending \in Seq(Questions)
      BY <1>1 DEF HashInv, PoliciesOK
    <2>3. PICK q : q = Request("miss", k, Null, TRUE)
      OBVIOUS
    <2>4. q \in Questions /\ q = Map!Question("miss", k, Null, TRUE)
      <3>1. PICK m \in {"miss", "remove"} : m = "miss"
        OBVIOUS
      <3>2. PICK v \in Values : v = Null
        BY HashAssumption
      <3>3. PICK b \in BOOLEAN : b = TRUE
        OBVIOUS
      <3>4. /\ Request(m, k, v, b) \in Questions
            /\ Request(m, k, v, b) = Map!Question(m, k, v, b)
        BY RequestIs
      <3>. QED
        BY <2>3, <3>1, <3>2, <3>3, <3>4
    <2>5. pending' = Append(pending, q) /\ pending' \in Seq(Questions)
      BY <2>1, <2>2, <2>3, <2>4, AppendProperties
    <2>6. k \in DOMAIN Contents(hash) => Contents(hash)[k] = Null
      BY <1>1, Held DEF HashInv
    <2>7. Map!Miss(k)
      BY <2>1, <2>2, <2>4, <2>5, <2>6 DEF Map!Miss
    <2>8. HashInv'
      BY <2>1, <2>2, <2>5 DEF HashInv, PoliciesOK
    <2>. QED
      BY <2>7, <2>8 DEF Map!Next
  <1>2. CASE ~(missed /\ "miss" \in policies)
    <2>1. Get(k) /\ pending' = pending /\ policies' = policies /\ limited' = limited
      BY <1>2 DEF GetByScript
    <2>2. HashOK(hash') /\ hash'.order_mode = hash.order_mode /\ Map!Get(k)
      BY <2>1, GetMaps
    <2>3. HashInv'
      BY <2>1, <2>2 DEF HashInv, PoliciesOK
    <2>. QED
      BY <2>1, <2>2, <2>3 DEF Map!Next
  <1>. QED
    BY <1>1, <1>2

LEMMA MissReturnsMaps ==
  ASSUME HashInv, NEW v \in Values, MissReturns(v)
  PROVE  HashInv' /\ Map!Next
  <1>1. PICK p : p = Last(pending)
    OBVIOUS
  <1>2. PICK s : s = Front(pending)
    OBVIOUS
  <1>3. /\ pending # << >> /\ p.kind = "miss" /\ policies' = policies
        /\ limited' \in BOOLEAN
    BY <1>1 DEF MissReturns, HashInv, PoliciesOK
  <1>4. pending \in Seq(Questions) /\ hash.order_mode # 0
    BY <1>3 DEF HashInv, PoliciesOK
  <1>5. p \in Questions /\ p.key \in Keys /\ s \in Seq(Questions)
    <2>1. p \in Questions /\ s \in Seq(Questions)
      BY <1>1, <1>2, <1>3, <1>4, Settles
    <2>. QED
      BY <2>1 DEF Questions
  <1>6. Map!Last(pending) = p /\ Map!Front(pending) = s
    BY <1>1, <1>2, SameOperators
  <1>7. CASE Asks(p.key)
    <2>1. /\ pending' = Append(s, Request("remove", p.key, v, TRUE))
          /\ answer' = << >> /\ hash' = hash
      BY <1>1, <1>2, <1>7 DEF MissReturns
    <2>2. Map!Consult(p.key, v, TRUE, s) /\ pending' \in Seq(Questions)
      BY <1>5, <1>7, <2>1, ConsultMaps
    <2>3. Map!AnswerMiss(v)
      BY <1>3, <1>6, <2>2 DEF Map!AnswerMiss
    <2>4. HashInv'
      BY <1>3, <1>4, <2>1, <2>2 DEF HashInv, PoliciesOK
    <2>. QED
      BY <2>3, <2>4 DEF Map!Next
  <1>8. CASE ~Asks(p.key)
    <2>1. PICK g : g = hash'
      OBVIOUS
    <2>2. g = Put(hash, p.key, v) /\ answer' = <<v>> /\ pending' = s
      BY <1>1, <1>2, <1>8, <2>1 DEF MissReturns
    <2>3. /\ HashOK(g) /\ g.order_mode = hash.order_mode
          /\ Contents(g) = Map!With(Contents(hash), p.key, v)
          /\ OrderOfKeys(g) = Map!Inserted(OrderOfKeys(hash), p.key)
      BY <1>4, <1>5, <2>2, PutMaps DEF HashInv
    <2>4. Map!AnswerMiss(v)
      BY <1>3, <1>6, <2>1, <2>2, <2>3 DEF Map!AnswerMiss
    <2>5. HashInv'
      BY <1>3, <1>4, <1>5, <2>1, <2>2, <2>3 DEF HashInv, PoliciesOK
    <2>. QED
      BY <2>4, <2>5 DEF Map!Next
  <1>. QED
    BY <1>7, <1>8

LEMMA RemovalReturnsMaps ==
  ASSUME HashInv, NEW remove \in BOOLEAN, RemovalReturns(remove)
  PROVE  HashInv' /\ Map!Next
  <1>1. PICK p : p = Last(pending)
    OBVIOUS
  <1>2. PICK s : s = Front(pending)
    OBVIOUS
  <1>3. PICK g : g = hash'
    OBVIOUS
  <1>4. /\ pending # << >> /\ p.kind = "remove" /\ policies' = policies
        /\ limited' \in BOOLEAN /\ pending' = s
        /\ answer' = <<IF p.reading THEN p.value ELSE TRUE>>
        /\ g = AfterRemoval(p, remove)
    BY <1>1, <1>2, <1>3 DEF RemovalReturns, HashInv, PoliciesOK
  <1>5. pending \in Seq(Questions) /\ hash.order_mode # 0 /\ HashOK(hash)
    BY <1>4 DEF HashInv, PoliciesOK
  <1>6. /\ p \in Questions /\ p.key \in Keys /\ p.value \in Values
        /\ p.eldest \in Keys \cup {Null} /\ s \in Seq(Questions)
    <2>1. p \in Questions /\ s \in Seq(Questions)
      BY <1>1, <1>2, <1>4, <1>5, Settles
    <2>. QED
      BY <2>1 DEF Questions
  <1>7. Map!Last(pending) = p /\ Map!Front(pending) = s
    BY <1>1, <1>2, SameOperators
  <1>8. /\ HashOK(g) /\ g.order_mode = hash.order_mode
        /\ Map!Keep(p) \/ Map!DriveOut(p)
    <2>1. CASE ~remove
      <3>1. g = Put(hash, p.key, p.value)
        BY <1>4, <2>1 DEF AfterRemoval
      <3>2. /\ HashOK(g) /\ g.order_mode = hash.order_mode
            /\ Contents(g) = Map!With(Contents(hash), p.key, p.value)
            /\ OrderOfKeys(g) = Map!Inserted(OrderOfKeys(hash), p.key)
        BY <1>5, <1>6, <3>1, PutMaps
      <3>3. Map!Keep(p)
        BY <1>3, <3>2 DEF Map!Keep
      <3>. QED
        BY <3>2, <3>3
    <2>2. CASE remove /\ p.eldest = Null
      <3>1. g = hash
        BY <1>4, <2>2 DEF AfterRemoval
      <3>2. Map!DriveOut(p)
        BY <1>3, <2>2, <3>1 DEF Map!DriveOut
      <3>. QED
        BY <1>5, <3>1, <3>2
    <2>3. CASE remove /\ p.eldest # Null
      <3>1. PICK e \in Keys : e = p.eldest
        BY <1>6, <2>3
      <3>2. PICK h : h = Without(hash, e)
        OBVIOUS
      <3>3. g = Put(h, p.key, p.value)
        BY <1>4, <2>3, <3>1, <3>2 DEF AfterRemoval
      <3>4. /\ HashOK(h) /\ h.order_mode = hash.order_mode
            /\ Contents(h) = Map!Dropped(Contents(hash), e)
            /\ OrderOfKeys(h) = RemoveFirst(OrderOfKeys(hash), e)
        BY <1>5, <3>2, WithoutMaps
      <3>5. /\ HashOK(g) /\ g.order_mode = h.order_mode
            /\ Contents(g) = Map!With(Contents(h), p.key, p.value)
            /\ OrderOfKeys(g) = Map!Inserted(OrderOfKeys(h), p.key)
        BY <1>5, <1>6, <3>3, <3>4, PutMaps
      <3>6. Map!Without(e) = OrderOfKeys(h)
        BY <3>4, SameOperators DEF Map!Without
      <3>7. Map!DriveOut(p)
        BY <1>3, <2>3, <3>1, <3>4, <3>5, <3>6 DEF Map!DriveOut
      <3>. QED
        BY <3>4, <3>5, <3>7
    <2>. QED
      BY <2>1, <2>2, <2>3
  <1>9. Map!AnswerRemove
    BY <1>3, <1>4, <1>7, <1>8 DEF Map!AnswerRemove, Map!Told
  <1>10. HashInv'
    BY <1>3, <1>4, <1>5, <1>6, <1>8 DEF HashInv, PoliciesOK
  <1>. QED
    BY <1>9, <1>10 DEF Map!Next

LEMMA PolicyFailsMaps ==
  ASSUME HashInv, PolicyFails
  PROVE  HashInv' /\ Map!Next
  <1>1. PICK p : p = Last(pending)
    OBVIOUS
  <1>2. PICK s : s = Front(pending)
    OBVIOUS
  <1>3. /\ pending # << >> /\ policies' = policies /\ limited' = limited
        /\ pending' = s /\ hash' = hash
        /\ answer' = <<IF p.reading THEN p.value ELSE FALSE>>
    BY <1>1, <1>2 DEF PolicyFails
  <1>4. s \in Seq(Questions) /\ hash.order_mode # 0
    BY <1>2, <1>3, Settles DEF HashInv, PoliciesOK
  <1>5. Map!Last(pending) = p /\ Map!Front(pending) = s
    BY <1>1, <1>2, SameOperators
  <1>6. Map!Refuse
    BY <1>3, <1>5 DEF Map!Refuse
  <1>7. HashInv'
    BY <1>3, <1>4 DEF HashInv, PoliciesOK
  <1>. QED
    BY <1>6, <1>7 DEF Map!Next

(* Every step keeps the hash in order and is a step of the map, or none.   *)
LEMMA StepMaps ==
  ASSUME HashInv, [Next]_vars
  PROVE  HashInv' /\ [Map!Next]_(Map!vars)
  <1>1. ASSUME NEW p \in {"miss", "remove"}, SetPolicy(p)
        PROVE  HashInv' /\ UNCHANGED Map!vars
    <2>1. /\ hash' = hash /\ answer' = answer /\ pending' = pending
          /\ policies' = policies \cup {p} /\ limited' \in BOOLEAN
          /\ hash.order_mode \in {1, 2}
      BY <1>1, PoliciesAssumption DEF SetPolicy, HashInv, PoliciesOK
    <2>. QED
      BY <2>1 DEF HashInv, PoliciesOK, Map!vars
  <1>2. ASSUME NEW k \in Keys, NEW v \in Values, SetByScript(k, v)
        PROVE  HashInv' /\ Map!Next
    BY <1>2, SetByScriptMaps
  <1>3. ASSUME NEW k \in Keys, GetByScript(k)
        PROVE  HashInv' /\ Map!Next
    BY <1>3, GetByScriptMaps
  <1>4. ASSUME UNCHANGED <<policies, pending, limited>>,
               NEW k \in Keys, Has(k) \/ Delete(k)
        PROVE  HashInv' /\ Map!Next
    <2>1. pending' = pending /\ policies' = policies /\ limited' = limited
      BY <1>4
    <2>2. CASE Has(k)
      <3>1. hash' = hash /\ Map!Has(k)
        BY <2>1, <2>2, HasMaps
      <3>. QED
        BY <2>1, <3>1 DEF HashInv, PoliciesOK, Map!Next
    <2>3. CASE Delete(k)
      <3>1. HashOK(hash') /\ hash'.order_mode = hash.order_mode /\ Map!Delete(k)
        BY <2>1, <2>3, DeleteMaps
      <3>. QED
        BY <2>1, <3>1 DEF HashInv, PoliciesOK, Map!Next
    <2>. QED
      BY <1>4, <2>2, <2>3
  <1>5. ASSUME UNCHANGED <<policies, pending, limited>>, List \/ Clear \/ Copy
        PROVE  HashInv' /\ Map!Next
    <2>1. pending' = pending /\ policies' = policies /\ limited' = limited
      BY <1>5
    <2>2. CASE List
      <3>1. hash' = hash /\ Map!List
        BY <2>1, <2>2, ListingMaps
      <3>. QED
        BY <2>1, <3>1 DEF HashInv, PoliciesOK, Map!Next
    <2>3. CASE Clear
      <3>1. HashOK(hash') /\ hash'.order_mode = hash.order_mode /\ Map!Clear
        BY <2>1, <2>3, ClearMaps
      <3>. QED
        BY <2>1, <3>1 DEF HashInv, PoliciesOK, Map!Next
    <2>4. CASE Copy
      <3>1. HashOK(hash') /\ hash'.order_mode = hash.order_mode /\ Map!Copy
        BY <2>1, <2>4, CopyMaps
      <3>. QED
        BY <2>1, <3>1 DEF HashInv, PoliciesOK, Map!Next
    <2>. QED
      BY <1>5, <2>2, <2>3, <2>4
  <1>6. ASSUME NEW v \in Values, MissReturns(v)
        PROVE  HashInv' /\ Map!Next
    BY <1>6, MissReturnsMaps
  <1>7. ASSUME NEW r \in BOOLEAN, RemovalReturns(r)
        PROVE  HashInv' /\ Map!Next
    BY <1>7, RemovalReturnsMaps
  <1>8. CASE PolicyFails
    BY <1>8, PolicyFailsMaps
  <1>9. CASE UNCHANGED vars
    BY <1>9 DEF vars, HashInv, PoliciesOK, Map!vars
  <1>. QED
    BY <1>1, <1>2, <1>3, <1>4, <1>5, <1>6, <1>7, <1>8, <1>9 DEF Next

LEMMA InitMaps ==
  ASSUME Init2
  PROVE  HashInv /\ Map!Init
  <1>1. PICK m \in 0..2 : hash = NewHash(m)
    BY DEF Init2, Init
  <1>2. /\ answer = << >> /\ policies = {} /\ pending = << >> /\ limited = FALSE
    BY DEF Init2, Init
  <1>3. HashOK(hash) /\ Entries(hash.entries) = {}
    BY <1>1, NewEntries
  <1>4. Contents(hash) = << >> /\ OrderOfKeys(hash) = << >>
    BY <1>3, EmptyMaps
  <1>5. hash.order_mode \in 0..2
    BY <1>3 DEF HashOK
  <1>6. HashInv
    <2>1. policies \subseteq {"miss", "remove"} /\ limited \in BOOLEAN
      BY <1>2
    <2>2. /\ policies # {} => hash.order_mode \in {1, 2}
          /\ pending # << >> => hash.order_mode # 0
      BY <1>2
    <2>3. pending \in Seq(Questions)
      BY <1>2
    <2>. QED
      BY <1>3, <2>1, <2>2, <2>3 DEF HashInv, PoliciesOK
  <1>. QED
    BY <1>2, <1>4, <1>5, <1>6 DEF Map!Init

(* The table keeps its form whatever is done with it.                      *)
LEMMA AlwaysInOrder ==
  Spec => []HashInv
  <1>1. Init2 => HashInv
    BY InitMaps
  <1>2. HashInv /\ [Next]_vars => HashInv'
    BY StepMaps
  <1>. QED
    BY <1>1, <1>2, PTL DEF Spec

(* The table with its policies implements the ordered map: every operation *)
(* of slp_obj_hash_*, keys, clear and copy, and every call of a policy by  *)
(* slp_vm_hash_get and hash_set_canonical, is a step of OrderedMap, for    *)
(* any keys, homes and capacity.                                           *)
THEOREM TableImplementsMap ==
  Spec => ImplementsMap
  <1>1. Init2 => Map!Init
    BY InitMaps
  <1>2. HashInv /\ [Next]_vars => [Map!Next]_(Map!vars)
    BY StepMaps
  <1>. QED
    BY <1>1, <1>2, AlwaysInOrder, PTL DEF Spec, ImplementsMap, Map!Spec

(* Every entry of every hash is found by a search for its key: deletions   *)
(* leave tombstones on the way, set looks behind them, and hash_grow moves *)
(* no entry out of reach, whatever the homes and however often the table   *)
(* has grown.                                                              *)
THEOREM EveryEntryReachable ==
  Spec => []EntriesReachable
  <1>1. HashInv => EntriesReachable
    BY Found DEF HashInv, HashOK, EntriesReachable
  <1>. QED
    BY <1>1, AlwaysInOrder, PTL

(* slp_obj_hash_set never reaches its fallback for a full table: the table *)
(* it searches has a slot without an entry, for it has room for one more   *)
(* entry than the hash holds, after any number of deletions.               *)
THEOREM AlwaysRoom ==
  Spec => []RoomToInsert
  <1>1. HashInv => RoomToInsert
    <2>1. SUFFICES ASSUME HashInv, NEW k \in Keys
                   PROVE  Stops(Room(hash), k) \cup Passed(Room(hash), k) # {}
      BY DEF RoomToInsert
    <2>2. PICK t : t = Room(hash)
      OBVIOUS
    <2>3. Good(t) /\ Cardinality(Live(t)) < Capacity(t)
      BY <2>1, <2>2, Roomy DEF HashInv
    <2>4. CASE Holds(t, k)
      BY <2>2, <2>4 DEF Holds
    <2>5. CASE ~Holds(t, k)
      <3>1. PICK x \in DOMAIN t : x \notin Live(t)
        BY <2>3, EntriesCount
      <3>2. Stops(t, k) \cup Passed(t, k) # {}
        BY <2>3, <2>5, <3>1, Lands
      <3>. QED
        BY <2>2, <3>2
    <2>. QED
      BY <2>4, <2>5
  <1>. QED
    BY <1>1, AlwaysInOrder, PTL

(* The ordinals 0..count-1 of slp_obj_hash_ordered_index name every entry  *)
(* once: hash_entry_precedes is a total order of the entries, in each mode *)
(* and whatever buckets they share, so a loop over the ordinals skips none.*)
THEOREM OrdinalsNameEntries ==
  Spec => []OrderIsTotal
  <1>1. HashInv => OrderIsTotal
    <2>1. SUFFICES ASSUME HashInv
                   PROVE  OrderIsTotal
      OBVIOUS
    <2>2. PICK s : s = Ordered(hash)
      OBVIOUS
    <2>3. /\ hash.count \in Nat /\ s \in [1..hash.count -> Live(hash.entries)]
          /\ \A i \in Live(hash.entries) : \E o \in 1..hash.count : s[o] = i
      BY <2>1, <2>2, OrderedIs DEF HashInv
    <2>4. Len(s) = hash.count
      BY <2>3, SequenceOfFunction
    <2>5. ToSet(s) = Live(hash.entries)
      BY <2>3 DEF ToSet
    <2>. QED
      BY <2>2, <2>4, <2>5 DEF OrderIsTotal
  <1>. QED
    BY <1>1, AlwaysInOrder, PTL

-----------------------------------------------------------------------------
(* A cache keeps its size.                                                 *)

(* A set keeps a hash in bounds when its key is held or there is room.     *)
LEMMA BoundedPut ==
  ASSUME NEW h, HashOK(h), Bounded(h), NEW k \in Keys, NEW v \in Values, v # Null,
         k \in DOMAIN Contents(h) \/ h.count < Limit
  PROVE  Bounded(Put(h, k, v))
  <1>1. PICK f : f = Contents(h)
    OBVIOUS
  <1>2. /\ h.count \in Nat /\ h.count <= Limit /\ \A x \in DOMAIN f : f[x] # Null
        /\ k \in DOMAIN f \/ h.count < Limit
    BY <1>1, Counts DEF Bounded
  <1>3. PICK g : g = Put(h, k, v)
    OBVIOUS
  <1>4. Contents(g) = [x \in DOMAIN f \cup {k} |-> IF x = k THEN v ELSE f[x]]
    <2>1. Contents(g) = Map!With(f, k, v)
      BY <1>1, <1>3, PutMaps
    <2>. QED
      BY <2>1 DEF Map!With
  <1>5. g.count = IF k \in DOMAIN f THEN h.count ELSE h.count + 1
    BY <1>1, <1>3, Counts
  <1>6. g.count <= Limit
    <2>1. Limit \in Nat
      BY PoliciesAssumption
    <2>2. PICK n \in Nat : n = h.count
      BY <1>2
    <2>3. CASE k \in DOMAIN f
      BY <1>2, <1>5, <2>3
    <2>4. CASE k \notin DOMAIN f
      <3>1. g.count = n + 1 /\ n < Limit
        BY <1>2, <1>5, <2>2, <2>4
      <3>. QED
        BY <2>1, <3>1
    <2>. QED
      BY <2>3, <2>4
  <1>7. \A x \in DOMAIN Contents(g) : Contents(g)[x] # Null
    BY <1>2, <1>4
  <1>. QED
    BY <1>3, <1>6, <1>7 DEF Bounded

(* A deletion does, and makes room when its key is held.                   *)
LEMMA BoundedWithout ==
  ASSUME NEW h, HashOK(h), Bounded(h), NEW k \in Keys
  PROVE  /\ Bounded(Without(h, k))
         /\ k \in DOMAIN Contents(h) \/ h.count < Limit => Without(h, k).count < Limit
         /\ \A x : x \in DOMAIN Contents(Without(h, k)) <=>
              x \in DOMAIN Contents(h) /\ x # k
  <1>1. PICK f : f = Contents(h)
    OBVIOUS
  <1>2. h.count \in Nat /\ h.count <= Limit /\ \A x \in DOMAIN f : f[x] # Null
    BY <1>1, Counts DEF Bounded
  <1>3. PICK g : g = Without(h, k)
    OBVIOUS
  <1>4. Contents(g) = [x \in DOMAIN f \ {k} |-> f[x]]
    <2>1. Contents(g) = Map!Dropped(f, k)
      BY <1>1, <1>3, WithoutMaps
    <2>. QED
      BY <2>1 DEF Map!Dropped
  <1>5. g.count = IF k \in DOMAIN f THEN h.count - 1 ELSE h.count
    BY <1>1, <1>3, Counts
  <1>6. g.count <= Limit /\ (k \in DOMAIN f \/ h.count < Limit => g.count < Limit)
    <2>1. Limit \in Nat
      BY PoliciesAssumption
    <2>2. PICK n \in Nat : n = h.count
      BY <1>2
    <2>3. CASE k \in DOMAIN f
      <3>1. g.count = n - 1 /\ n <= Limit
        BY <1>2, <1>5, <2>2, <2>3
      <3>. QED
        BY <2>1, <3>1
    <2>4. CASE k \notin DOMAIN f
      BY <1>2, <1>5, <2>4
    <2>. QED
      BY <2>3, <2>4
  <1>7. \A x \in DOMAIN Contents(g) : Contents(g)[x] # Null
    BY <1>2, <1>4
  <1>8. Bounded(g)
    BY <1>6, <1>7 DEF Bounded
  <1>9. \A x : x \in DOMAIN Contents(g) <=> x \in DOMAIN f /\ x # k
    BY <1>4
  <1>. QED
    BY <1>1, <1>3, <1>6, <1>8, <1>9

(* The questions that are left are those that waited; once a removal       *)
(* policy has answered, none about another removal is left.                *)
LEMMA WaitsOn ==
  ASSUME NEW h, NEW s \in Seq(Questions), s # << >>
  PROVE  /\ Settled(s) => Settled(Front(s))
         /\ Waiting(h, s) => Waiting(h, Front(s))
         /\ Settled(s) /\ Last(s).kind = "remove" =>
              \A i \in DOMAIN Front(s) : Front(s)[i].kind # "remove"
  <1>1. PICK n \in Nat \ {0} : n = Len(s)
    BY Settles
  <1>2. PICK r : r = Front(s)
    OBVIOUS
  <1>3. /\ DOMAIN s = 1..n /\ Last(s) = s[n] /\ DOMAIN r = 1..n-1
        /\ \A i \in 1..n-1 : r[i] = s[i]
    BY <1>1, <1>2, Settles
  <1>4. \A i \in 1..n-1 : i \in 1..n /\ n \in 1..n /\ i # n
    BY <1>1
  <1>5. Settled(s) => Settled(r)
    BY <1>3, <1>4 DEF Settled
  <1>6. Waiting(h, s) => Waiting(h, r)
    BY <1>3, <1>4 DEF Waiting
  <1>7. Settled(s) /\ s[n].kind = "remove" => \A i \in DOMAIN r : r[i].kind # "remove"
    BY <1>3, <1>4 DEF Settled
  <1>. QED
    BY <1>2, <1>3, <1>5, <1>6, <1>7

(* A question about a missed key is none about a removal.                  *)
LEMMA MissWaits ==
  ASSUME NEW h, NEW s \in Seq(Questions), NEW q \in Questions, q.kind = "miss",
         Settled(s), Waiting(h, s)
  PROVE  Settled(Append(s, q)) /\ Waiting(h, Append(s, q))
  <1>1. PICK n \in Nat : n = Len(s)
    BY Asked
  <1>2. PICK r : r = Append(s, q)
    OBVIOUS
  <1>3. /\ DOMAIN s = 1..n /\ DOMAIN r = 1..n+1 /\ r[n+1] = q
        /\ \A i \in 1..n : r[i] = s[i]
    BY <1>1, <1>2, Asked
  <1>4. \A i \in 1..n+1 : i \in 1..n \/ i = n+1
    BY <1>1
  <1>5. \A i \in DOMAIN r : r[i].kind = "remove" => i \in DOMAIN s /\ r[i] = s[i]
    BY <1>3, <1>4
  <1>6. Settled(r)
    BY <1>5 DEF Settled
  <1>7. Waiting(h, r)
    BY <1>5 DEF Waiting
  <1>. QED
    BY <1>2, <1>6, <1>7

(* One about a removal is the only one, and names the eldest as it is.     *)
LEMMA RemovalWaits ==
  ASSUME HashInv, NEW s \in Seq(Questions), \A i \in DOMAIN s : s[i].kind # "remove",
         NEW k \in Keys, NEW v \in Values, v # Null, NEW b \in BOOLEAN
  PROVE  LET r == Append(s, Request("remove", k, v, b)) IN
         Settled(r) /\ Waiting(hash, r)
  <1>1. PICK q : q = Request("remove", k, v, b)
    OBVIOUS
  <1>2. q \in Questions /\ q.value = v /\ q.eldest = Eldest(hash)
    <2>1. PICK m \in {"miss", "remove"} : m = "remove"
      OBVIOUS
    <2>2. LET x == Request(m, k, v, b) IN
          /\ x \in Questions /\ x.value = v
          /\ x.eldest = IF m = "remove" THEN Eldest(hash) ELSE Null
      BY RequestIs
    <2>. QED
      BY <1>1, <2>1, <2>2
  <1>3. PICK n \in Nat : n = Len(s)
    BY Asked
  <1>4. PICK r : r = Append(s, q)
    OBVIOUS
  <1>5. /\ DOMAIN s = 1..n /\ DOMAIN r = 1..n+1 /\ r[n+1] = q
        /\ \A i \in 1..n : r[i] = s[i]
    BY <1>2, <1>3, <1>4, Asked
  <1>6. \A i \in 1..n+1 : i \in 1..n \/ i = n+1
    BY <1>3
  <1>7. \A i \in DOMAIN r : r[i].kind = "remove" => i = n+1
    BY <1>5, <1>6
  <1>8. Settled(r)
    BY <1>7 DEF Settled
  <1>9. q.eldest \notin DOMAIN Contents(hash) => hash.count < Limit
    <2>1. hash.count # 0 => Eldest(hash) \in DOMAIN Contents(hash)
      BY EldestIs DEF HashInv
    <2>2. Limit \in Nat \ {0}
      BY PoliciesAssumption
    <2>3. 0 < Limit
      BY <2>2
    <2>. QED
      BY <1>2, <2>1, <2>3
  <1>10. Waiting(hash, r)
    BY <1>2, <1>5, <1>7, <1>9 DEF Waiting
  <1>. QED
    BY <1>1, <1>4, <1>8, <1>10

(* A hash with the map of another waits as that one does.                  *)
LEMMA SameBounds ==
  ASSUME NEW h, HashOK(h), NEW g, HashOK(g), Contents(g) = Contents(h), NEW s
  PROVE  /\ g.count = h.count
         /\ Bounded(h) => Bounded(g)
         /\ Waiting(h, s) => Waiting(g, s)
  <1>1. g.count = h.count
    <2>1. ASSUME NEW x, HashOK(x)
          PROVE  x.count = Cardinality(DOMAIN Contents(x))
      <3>1. Len(OrderOfKeys(x)) = x.count
        BY <2>1, OrderOfIs
      <3>2. Map!Lists(OrderOfKeys(x), Contents(x))
        BY <2>1, OrderLists
      <3>. QED
        BY <3>1, <3>2, SameOperators DEF Map!Lists
    <2>2. h.count = Cardinality(DOMAIN Contents(h))
      BY <2>1
    <2>3. g.count = Cardinality(DOMAIN Contents(g))
      BY <2>1
    <2>. QED
      BY <2>2, <2>3
  <1>2. Bounded(h) => Bounded(g)
    BY <1>1 DEF Bounded
  <1>3. Waiting(h, s) => Waiting(g, s)
    BY <1>1 DEF Waiting
  <1>. QED
    BY <1>1, <1>2, <1>3

(* A set of a key that is held changes no count and no key.                *)
LEMMA HeldWaits ==
  ASSUME NEW h, HashOK(h), NEW k \in DOMAIN Contents(h), NEW v \in Values, NEW s,
         Waiting(h, s)
  PROVE  Waiting(Put(h, k, v), s)
  <1>1. PICK f : f = Contents(h)
    OBVIOUS
  <1>2. PICK g : g = Put(h, k, v)
    OBVIOUS
  <1>3. k \in Keys /\ k \in DOMAIN f
    BY <1>1, EldestIs
  <1>4. Contents(g) = Map!With(f, k, v)
    BY <1>1, <1>2, <1>3, PutMaps
  <1>5. DOMAIN Contents(g) = DOMAIN f
    BY <1>3, <1>4 DEF Map!With
  <1>6. g.count = h.count
    BY <1>1, <1>2, <1>3, Counts
  <1>. QED
    BY <1>1, <1>2, <1>5, <1>6 DEF Waiting

LEMMA SetByScriptBounds ==
  ASSUME HashInv, CacheInv, NEW k \in Keys, NEW v \in Values, SetByScript(k, v)
  PROVE  CacheInv'
  <1>1. SUFFICES ASSUME limited'
                 PROVE  /\ "remove" \in policies' /\ Bounded(hash')
                        /\ Settled(pending') /\ Waiting(hash', pending')
    BY DEF CacheInv
  <1>2. limited /\ v # Null /\ (Removing => Holds(hash.entries, k)) /\ policies' = policies
    BY <1>1 DEF SetByScript, InsertsPlainly
  <1>3. /\ "remove" \in policies /\ Bounded(hash)
        /\ Settled(pending) /\ Waiting(hash, pending)
    BY <1>2 DEF CacheInv
  <1>4. HashOK(hash) /\ pending \in Seq(Questions) /\ hash.order_mode # 0
    <2>1. policies # {}
      BY <1>3
    <2>2. hash.order_mode \in {1, 2}
      BY <2>1 DEF HashInv, PoliciesOK
    <2>. QED
      BY <2>2 DEF HashInv, PoliciesOK
  <1>5. CASE Asks(k)
    <2>1. /\ pending' = Append(pending, Request("remove", k, v, FALSE))
          /\ hash' = hash
      BY <1>5 DEF SetByScript
    <2>2. \A i \in DOMAIN pending : pending[i].kind # "remove"
      BY <1>2, <1>5 DEF Asks, Removing
    <2>3. PICK b \in BOOLEAN : b = FALSE
      OBVIOUS
    <2>4. PICK r : r = Append(pending, Request("remove", k, v, b))
      OBVIOUS
    <2>5. Settled(r) /\ Waiting(hash, r)
      BY <1>2, <1>4, <2>2, <2>4, RemovalWaits
    <2>6. r = pending'
      BY <2>1, <2>3, <2>4
    <2>. QED
      BY <1>2, <1>3, <2>1, <2>5, <2>6
  <1>6. CASE ~Asks(k)
    <2>1. PICK g : g = hash'
      OBVIOUS
    <2>2. g = Put(hash, k, v) /\ pending' = pending
      BY <1>6, <2>1 DEF SetByScript, Set
    <2>3. Holds(hash.entries, k)
      BY <1>3, <1>4, <1>6 DEF Asks
    <2>4. k \in DOMAIN Contents(hash)
      BY <1>4, <2>3, Held
    <2>5. Bounded(g)
      BY <1>2, <1>3, <1>4, <2>2, <2>4, BoundedPut
    <2>6. Waiting(g, pending)
      BY <1>3, <1>4, <2>2, <2>4, HeldWaits
    <2>. QED
      BY <1>2, <1>3, <2>1, <2>2, <2>5, <2>6
  <1>. QED
    BY <1>5, <1>6

LEMMA GetByScriptBounds ==
  ASSUME HashInv, CacheInv, NEW k \in Keys, GetByScript(k)
  PROVE  CacheInv'
  <1>1. SUFFICES ASSUME limited'
                 PROVE  /\ "remove" \in policies' /\ Bounded(hash')
                        /\ Settled(pending') /\ Waiting(hash', pending')
    BY DEF CacheInv
  <1>2. limited /\ policies' = policies
    BY <1>1 DEF GetByScript
  <1>3. /\ "remove" \in policies /\ Bounded(hash)
        /\ Settled(pending) /\ Waiting(hash, pending)
    BY <1>2 DEF CacheInv
  <1>4. HashOK(hash) /\ pending \in Seq(Questions)
    BY DEF HashInv, PoliciesOK
  <1>5. \/ hash' = hash /\ pending' = Append(pending, Request("miss", k, Null, TRUE))
        \/ Get(k) /\ pending' = pending
    BY DEF GetByScript
  <1>6. CASE hash' = hash /\ pending' = Append(pending, Request("miss", k, Null, TRUE))
    <2>1. PICK m \in {"miss", "remove"} : m = "miss"
      OBVIOUS
    <2>2. PICK v \in Values : v = Null
      BY HashAssumption
    <2>3. PICK b \in BOOLEAN : b = TRUE
      OBVIOUS
    <2>4. PICK q : q = Request(m, k, v, b)
      OBVIOUS
    <2>5. q \in Questions /\ q.kind = "miss"
      BY <2>1, <2>4, RequestIs
    <2>6. Settled(Append(pending, q)) /\ Waiting(hash, Append(pending, q))
      BY <1>3, <1>4, <2>5, MissWaits
    <2>7. pending' = Append(pending, q)
      BY <1>6, <2>1, <2>2, <2>3, <2>4
    <2>. QED
      BY <1>2, <1>3, <1>6, <2>6, <2>7
  <1>7. CASE Get(k) /\ pending' = pending
    <2>1. PICK g : g = hash'
      OBVIOUS
    <2>2. HashOK(g) /\ Contents(g) = Contents(hash)
      BY <1>7, <2>1, GetMaps
    <2>3. Bounded(g) /\ Waiting(g, pending)
      BY <1>3, <1>4, <2>2, SameBounds
    <2>. QED
      BY <1>2, <1>3, <1>7, <2>1, <2>3
  <1>. QED
    BY <1>5, <1>6, <1>7

LEMMA DeleteBounds ==
  ASSUME HashInv, CacheInv, NEW k \in Keys, Delete(k),
         UNCHANGED <<policies, pending, limited>>
  PROVE  CacheInv'
  <1>1. PICK g : g = hash'
    OBVIOUS
  <1>2. g = Without(hash, k) /\ HashOK(hash)
    BY <1>1 DEF Delete, HashInv
  <1>3. ASSUME limited
        PROVE  Bounded(g) /\ Waiting(g, pending)
    <2>1. Bounded(hash) /\ Waiting(hash, pending)
      BY <1>3 DEF CacheInv
    <2>2. /\ Bounded(g)
          /\ k \in DOMAIN Contents(hash) \/ hash.count < Limit => g.count < Limit
          /\ \A x : x \in DOMAIN Contents(g) <=> x \in DOMAIN Contents(hash) /\ x # k
      BY <1>2, <2>1, BoundedWithout
    <2>3. Waiting(g, pending)
      BY <2>1, <2>2 DEF Waiting
    <2>. QED
      BY <2>2, <2>3
  <1>. QED
    BY <1>1, <1>3 DEF CacheInv

LEMMA ClearBounds ==
  ASSUME HashInv, CacheInv, Clear, UNCHANGED <<policies, pending, limited>>
  PROVE  CacheInv'
  <1>1. PICK g : g = hash'
    OBVIOUS
  <1>2. g.count = 0 /\ Contents(g) = << >>
    BY <1>1, ClearMaps
  <1>3. 0 < Limit /\ 0 <= Limit
    <2>1. Limit \in Nat \ {0}
      BY PoliciesAssumption
    <2>. QED
      BY <2>1
  <1>4. Bounded(g)
    BY <1>2, <1>3 DEF Bounded
  <1>5. Waiting(hash, pending) => Waiting(g, pending)
    BY <1>2, <1>3 DEF Waiting
  <1>. QED
    BY <1>1, <1>4, <1>5 DEF CacheInv

LEMMA CopyBounds ==
  ASSUME HashInv, CacheInv, Copy, UNCHANGED <<policies, pending, limited>>
  PROVE  CacheInv'
  <1>1. PICK g : g = hash'
    OBVIOUS
  <1>2. HashOK(hash)
    BY DEF HashInv
  <1>3. HashOK(g) /\ Contents(g) = Contents(hash)
    BY <1>1, CopyMaps
  <1>4. Bounded(hash) => Bounded(g)
    BY <1>2, <1>3, SameBounds
  <1>5. Waiting(hash, pending) => Waiting(g, pending)
    BY <1>2, <1>3, SameBounds
  <1>. QED
    BY <1>1, <1>4, <1>5 DEF CacheInv

LEMMA MissReturnsBounds ==
  ASSUME HashInv, CacheInv, NEW v \in Values, MissReturns(v)
  PROVE  CacheInv'
  <1>1. SUFFICES ASSUME limited'
                 PROVE  /\ "remove" \in policies' /\ Bounded(hash')
                        /\ Settled(pending') /\ Waiting(hash', pending')
    BY DEF CacheInv
  <1>2. PICK p : p = Last(pending)
    OBVIOUS
  <1>3. PICK s : s = Front(pending)
    OBVIOUS
  <1>4. /\ limited /\ v # Null /\ policies' = policies /\ pending # << >>
        /\ \A i \in DOMAIN pending : pending[i].kind = "miss"
    BY <1>1 DEF MissReturns
  <1>5. "remove" \in policies /\ Bounded(hash)
    BY <1>4 DEF CacheInv
  <1>6. HashOK(hash) /\ pending \in Seq(Questions) /\ hash.order_mode # 0
    BY <1>4 DEF HashInv, PoliciesOK
  <1>7. /\ p \in Questions /\ p.key \in Keys /\ s \in Seq(Questions)
        /\ \A i \in DOMAIN s : s[i].kind # "remove"
    <2>1. PICK n \in Nat \ {0} : n = Len(pending)
      BY <1>4, <1>6, Settles
    <2>2. /\ p \in Questions /\ s \in Seq(Questions)
          /\ DOMAIN pending = 1..n /\ DOMAIN s = 1..n-1
          /\ \A i \in 1..n-1 : s[i] = pending[i]
      BY <1>2, <1>3, <1>4, <1>6, <2>1, Settles
    <2>3. \A i \in 1..n-1 : i \in 1..n
      BY <2>1
    <2>4. \A i \in DOMAIN s : s[i].kind = "miss"
      BY <1>4, <2>2, <2>3
    <2>5. p.key \in Keys
      BY <2>2 DEF Questions
    <2>. QED
      BY <2>2, <2>4, <2>5
  <1>8. CASE Asks(p.key)
    <2>1. pending' = Append(s, Request("remove", p.key, v, TRUE)) /\ hash' = hash
      BY <1>2, <1>3, <1>8 DEF MissReturns
    <2>2. PICK k \in Keys : k = p.key
      BY <1>7
    <2>3. PICK b \in BOOLEAN : b = TRUE
      OBVIOUS
    <2>4. PICK r : r = Append(s, Request("remove", k, v, b))
      OBVIOUS
    <2>5. Settled(r) /\ Waiting(hash, r)
      BY <1>4, <1>7, <2>4, RemovalWaits
    <2>6. pending' = r
      BY <2>1, <2>2, <2>3, <2>4
    <2>. QED
      BY <1>4, <1>5, <2>1, <2>5, <2>6
  <1>9. CASE ~Asks(p.key)
    <2>1. PICK g : g = hash'
      OBVIOUS
    <2>2. g = Put(hash, p.key, v) /\ pending' = s
      BY <1>2, <1>3, <1>9, <2>1 DEF MissReturns
    <2>3. p.key \in DOMAIN Contents(hash)
      BY <1>5, <1>6, <1>7, <1>9, Held DEF Asks
    <2>4. Bounded(g)
      BY <1>4, <1>5, <1>6, <1>7, <2>2, <2>3, BoundedPut
    <2>5. Settled(s) /\ Waiting(g, s)
      BY <1>7 DEF Settled, Waiting
    <2>. QED
      BY <1>4, <1>5, <2>1, <2>2, <2>4, <2>5
  <1>. QED
    BY <1>8, <1>9

LEMMA RemovalReturnsBounds ==
  ASSUME HashInv, CacheInv, NEW remove \in BOOLEAN, RemovalReturns(remove)
  PROVE  CacheInv'
  <1>1. SUFFICES ASSUME limited'
                 PROVE  /\ "remove" \in policies' /\ Bounded(hash')
                        /\ Settled(pending') /\ Waiting(hash', pending')
    BY DEF CacheInv
  <1>2. PICK p : p = Last(pending)
    OBVIOUS
  <1>3. PICK s : s = Front(pending)
    OBVIOUS
  <1>4. PICK g : g = hash'
    OBVIOUS
  <1>5. /\ limited /\ policies' = policies /\ pending # << >> /\ p.kind = "remove"
        /\ remove <=> VisibleCount(hash) >= Limit
        /\ g = AfterRemoval(p, remove) /\ pending' = s
    BY <1>1, <1>2, <1>3, <1>4 DEF RemovalReturns
  <1>6. /\ "remove" \in policies /\ Bounded(hash)
        /\ Settled(pending) /\ Waiting(hash, pending)
    BY <1>5 DEF CacheInv
  <1>7. HashOK(hash) /\ pending \in Seq(Questions)
    BY DEF HashInv, PoliciesOK
  <1>8. Settled(s) /\ \A i \in DOMAIN s : s[i].kind # "remove"
    BY <1>2, <1>3, <1>5, <1>6, <1>7, WaitsOn
  <1>9. /\ p.key \in Keys /\ p.value \in Values /\ p.value # Null
        /\ p.eldest \notin DOMAIN Contents(hash) => hash.count < Limit
    <2>1. PICK n \in Nat \ {0} : n = Len(pending)
      BY <1>5, <1>7, Settles
    <2>2. p \in Questions /\ p = pending[n] /\ DOMAIN pending = 1..n /\ n \in 1..n
      BY <1>2, <1>5, <1>7, <2>1, Settles
    <2>3. p.key \in Keys /\ p.value \in Values
      BY <2>2 DEF Questions
    <2>. QED
      BY <1>5, <1>6, <2>2, <2>3 DEF Waiting
  <1>10. remove <=> ~(hash.count < Limit)
    <2>1. VisibleCount(hash) = hash.count
      BY <1>6, <1>7, AllVisible DEF Bounded
    <2>2. hash.count \in Nat /\ Limit \in Nat
      BY <1>7, EldestIs, PoliciesAssumption
    <2>. QED
      BY <1>5, <2>1, <2>2
  <1>11. Bounded(g)
    <2>1. CASE ~remove
      <3>1. g = Put(hash, p.key, p.value)
        BY <1>5, <2>1 DEF AfterRemoval
      <3>. QED
        BY <1>6, <1>7, <1>9, <1>10, <2>1, <3>1, BoundedPut
    <2>2. CASE remove
      <3>1. p.eldest \in DOMAIN Contents(hash)
        BY <1>9, <1>10, <2>2
      <3>2. PICK e \in Keys : e = p.eldest
        BY <1>7, <3>1, EldestIs
      <3>3. PICK h : h = Without(hash, e)
        OBVIOUS
      <3>4. g = Put(h, p.key, p.value)
        <4>1. e # Null
          BY <3>2, HashAssumption
        <4>. QED
          BY <1>5, <2>2, <3>2, <3>3, <4>1 DEF AfterRemoval
      <3>5. HashOK(h)
        BY <1>7, <3>3, WithoutMaps
      <3>6. Bounded(h) /\ h.count < Limit
        BY <1>6, <1>7, <3>1, <3>2, <3>3, BoundedWithout
      <3>. QED
        BY <1>9, <3>4, <3>5, <3>6, BoundedPut
    <2>. QED
      BY <2>1, <2>2
  <1>12. Waiting(g, s)
    BY <1>8 DEF Waiting
  <1>. QED
    BY <1>4, <1>5, <1>6, <1>8, <1>11, <1>12

(* A cache stays one.                                                      *)
LEMMA StepBounds ==
  ASSUME HashInv, CacheInv, [Next]_vars
  PROVE  CacheInv'
  <1>1. ASSUME NEW p \in {"miss", "remove"}, SetPolicy(p)
        PROVE  CacheInv'
    <2>1. /\ hash' = hash /\ pending' = pending /\ pending = << >>
          /\ policies' = policies \cup {p} /\ limited' = (limited \/ p = "remove")
          /\ hash.next_sequence = 0
      BY <1>1 DEF SetPolicy
    <2>2. HashOK(hash)
      BY DEF HashInv
    <2>3. Entries(hash.entries) = {}
      BY <2>1, <2>2 DEF HashOK
    <2>4. Contents(hash) = << >> /\ OrderOfKeys(hash) = << >>
      BY <2>2, <2>3, EmptyMaps
    <2>5. hash.count = 0
      BY <2>2, <2>4, EldestIs
    <2>6. 0 <= Limit
      <3>1. Limit \in Nat
        BY PoliciesAssumption
      <3>. QED
        BY <3>1
    <2>7. Bounded(hash)
      BY <2>4, <2>5, <2>6 DEF Bounded
    <2>8. Settled(pending) /\ Waiting(hash, pending)
      BY <2>1 DEF Settled, Waiting
    <2>9. limited' => "remove" \in policies'
      BY <2>1 DEF CacheInv
    <2>. QED
      BY <2>1, <2>7, <2>8, <2>9 DEF CacheInv
  <1>2. ASSUME NEW k \in Keys, NEW v \in Values, SetByScript(k, v)
        PROVE  CacheInv'
    BY <1>2, SetByScriptBounds
  <1>3. ASSUME NEW k \in Keys, GetByScript(k)
        PROVE  CacheInv'
    BY <1>3, GetByScriptBounds
  <1>4. ASSUME UNCHANGED <<policies, pending, limited>>,
               NEW k \in Keys, Has(k) \/ Delete(k)
        PROVE  CacheInv'
    <2>1. CASE Has(k)
      BY <1>4, <2>1 DEF Has, CacheInv
    <2>. QED
      BY <1>4, <2>1, DeleteBounds
  <1>5. ASSUME UNCHANGED <<policies, pending, limited>>, List \/ Clear \/ Copy
        PROVE  CacheInv'
    <2>1. CASE List
      BY <1>5, <2>1 DEF List, CacheInv
    <2>. QED
      BY <1>5, <2>1, ClearBounds, CopyBounds
  <1>6. ASSUME NEW v \in Values, MissReturns(v)
        PROVE  CacheInv'
    BY <1>6, MissReturnsBounds
  <1>7. ASSUME NEW r \in BOOLEAN, RemovalReturns(r)
        PROVE  CacheInv'
    BY <1>7, RemovalReturnsBounds
  <1>8. CASE PolicyFails
    <2>1. PICK s : s = Front(pending)
      OBVIOUS
    <2>2. /\ hash' = hash /\ policies' = policies /\ limited' = limited
          /\ pending' = s /\ pending # << >> /\ pending \in Seq(Questions)
      BY <1>8, <2>1 DEF PolicyFails, HashInv, PoliciesOK
    <2>3. Settled(pending) => Settled(s)
      BY <2>1, <2>2, WaitsOn
    <2>4. Waiting(hash, pending) => Waiting(hash, s)
      BY <2>1, <2>2, WaitsOn
    <2>. QED
      BY <2>2, <2>3, <2>4 DEF CacheInv
  <1>9. CASE UNCHANGED vars
    BY <1>9 DEF vars, CacheInv
  <1>. QED
    BY <1>1, <1>2, <1>3, <1>4, <1>5, <1>6, <1>7, <1>8, <1>9 DEF Next

(* A cache whose removal policy asks for room at its limit never holds     *)
(* more entries than that, although hash_set_canonical goes on with what   *)
(* it knew before the call: when the eldest is gone by then, another call  *)
(* has made room, and when it is not, it is driven out.                    *)
THEOREM CacheKeepsItsSize ==
  Spec => []CacheBounded
  <1>1. Init2 => CacheInv
    BY DEF Init2, CacheInv
  <1>2. HashInv /\ CacheInv /\ [Next]_vars => CacheInv'
    BY StepBounds
  <1>3. CacheInv => CacheBounded
    BY DEF CacheInv, Bounded, CacheBounded
  <1>. QED
    BY <1>1, <1>2, <1>3, AlwaysInOrder, PTL DEF Spec
=============================================================================
