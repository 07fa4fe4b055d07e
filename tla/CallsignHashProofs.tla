------------------------- MODULE CallsignHashProofs -------------------------
(***************************************************************************)
(* Proofs about the table of callsigns: what hashtable_add() keeps and     *)
(* what hashtable_lookup() finds, for every table size and every hash      *)
(* function.                                                               *)
(***************************************************************************)
EXTENDS CallsignHash, WellFoundedInduction, TLAPS

-----------------------------------------------------------------------------
(* Numbers *)

(* A set of natural numbers has a least element, which Min chooses: the    *)
(* ground for the arguments by induction.                                  *)
LEMMA LeastNatural ==
  ASSUME NEW T \in SUBSET Nat, T # {}
  PROVE  Min(T) \in T /\ \A y \in T : Min(T) <= y
<1> DEFINE Less == {ss \in Nat \X Nat : ss[1] < ss[2]}
<1>1. IsWellFoundedOn(Less, Nat)
  BY NatLessThanWellFounded, Zenon DEF OpToRel
<1>2. PICK x \in T : \A y \in T : ~(<<y, x>> \in Less)
  BY <1>1, WFMin
<1>3. \A y \in T : x <= y
  <2> SUFFICES ASSUME NEW y \in T, y < x PROVE FALSE
    OBVIOUS
  <2>1. <<y, x>> \in Less
    OBVIOUS
  <2> QED
    BY <1>2, <2>1
<1> QED
  BY <1>3 DEF Min

(* Division is unique. *)
LEMMA Remainder ==
  ASSUME NEW K \in Nat \ {0}, NEW z \in Nat, NEW p \in 0 .. K - 1
  PROVE  (K * z + p) % K = p /\ (K * z + p) \div K = z
<1> DEFINE n == K * z + p
           d == n \div K
           e == n % K
<1>1. n \in Nat
  OBVIOUS
<1> HIDE DEF n
<1>2. d \in Nat /\ e \in 0 .. K - 1 /\ n = K * d + e
  BY <1>1
<1> HIDE DEF d, e
<1>3. K * d + e = K * z + p
  BY <1>2 DEF n
<1>4. d <= z
  <2> SUFFICES ASSUME d >= z + 1 PROVE FALSE
    BY <1>2
  <2>1. PICK t \in Nat : d = z + 1 + t
    BY <1>2
  <2>2. K * d = K * z + K + K * t /\ K * t \in Nat
    BY <2>1
  <2> QED
    BY <1>2, <1>3, <2>2
<1>5. z <= d
  <2> SUFFICES ASSUME z >= d + 1 PROVE FALSE
    BY <1>2
  <2>1. PICK t \in Nat : z = d + 1 + t
    BY <1>2
  <2>2. K * z = K * d + K + K * t /\ K * t \in Nat
    BY <1>2, <2>1
  <2> QED
    BY <1>2, <1>3, <2>2
<1> QED
  BY <1>2, <1>3, <1>4, <1>5 DEF e, n

(* K steps from anywhere in a ring of K places pass every place. *)
LEMMA Wraps ==
  ASSUME NEW h \in Nat, NEW K \in Nat \ {0}, NEW p \in 0 .. K - 1
  PROVE  \E i \in 0 .. K - 1 : (h + i) % K = p
<1> DEFINE r == h % K
           q == h \div K
           i == IF p >= r THEN p - r ELSE p - r + K
           z == IF p >= r THEN q ELSE q + 1
<1>1. r \in 0 .. K - 1 /\ q \in Nat /\ h = K * q + r
  OBVIOUS
<1>2. i \in 0 .. K - 1 /\ z \in Nat
  BY <1>1
<1>3. h + i = K * z + p
  BY <1>1
<1>4. (h + i) % K = p
  <2> HIDE DEF i, z
  <2>1. (K * z + p) % K = p
    BY <1>2, Remainder
  <2> QED
    BY <1>3, <2>1
<1> QED
  BY <1>2, <1>4

(* A set of numbers up to n has a greatest element, which Max chooses. *)
LEMMA GreatestNatural ==
  ASSUME NEW n \in Nat, NEW T \in SUBSET (1 .. n), T # {}
  PROVE  Max(T) \in T /\ \A y \in T : y <= Max(T)
<1> DEFINE U == {n - y : y \in T}
<1>1. U \in SUBSET Nat /\ U # {}
  <2>1. \A y \in T : n - y \in Nat
    OBVIOUS
  <2> QED
    BY <2>1
<1>2. Min(U) \in U /\ \A u \in U : Min(U) <= u
  BY <1>1, LeastNatural
<1>3. PICK x \in T : Min(U) = n - x
  BY <1>2
<1>4. \A y \in T : y <= x
  <2> TAKE y \in T
  <2>1. n - y \in U
    OBVIOUS
  <2>2. n - x <= n - y
    BY <1>2, <1>3, <2>1
  <2> QED
    BY <2>2
<1>5. \E z \in T : \A y \in T : z >= y
  BY <1>4
<1>6. Max(T) \in T /\ \A y \in T : Max(T) >= y
  BY <1>5 DEF Max
<1> QED
  BY <1>6

-----------------------------------------------------------------------------
(* The table *)

Holds(table, p, h) == table[p].used /\ table[p].n22 = h
Held(table, h) == \E p \in Places : Holds(table, p, h)
Full(table) == \A p \in Places : table[p].used

Entries == {Unused} \cup {Entry(c, N22(c)) : c \in Calls}

(* Open addressing without removal: a hash is in the table once at most,   *)
(* and a probe for it comes by it before any unused place.                 *)
Sound(table) ==
    /\ table \in [Places -> Entries]
    /\ \A p, q \in Places : \A h \in Hashes : Holds(table, p, h) /\ Holds(table, q, h) => p = q
    /\ \A h \in Hashes : Held(table, h) =>
          \A i \in Places : ~table[Visited(h, i)].used =>
             \E j \in Places : j < i /\ Holds(table, Visited(h, j), h)

(* While it has room, the table knows for every hash the call last saved.  *)
Resolves(table, last) ==
    \/ Full(table)
    \/ \A h \in Hashes :
          /\ \A p \in Places : Holds(table, p, h) => table[p].callsign = last[h]
          /\ Held(table, h) \/ last[h] = Nobody

(* Hashes are numbers. *)
LEMMA HashType == \A h \in Hashes : h \in Nat
BY CallsignHashAssumption DEF Hashes

(* A probe stays in the table. *)
LEMMA VisitedType ==
  ASSUME NEW h \in Hashes, NEW i \in Places
  PROVE  Visited(h, i) \in Places
<1>1. h + i \in Nat /\ CALLSIGN_HASH_TABLE_SIZE \in Nat \ {0}
  BY HashType, CallsignHashAssumption DEF Places
<1>2. \A n \in Nat, K \in Nat \ {0} : n % K \in 0 .. K - 1
  OBVIOUS
<1> QED
  BY <1>1, <1>2 DEF Visited, Places

(* The body of HashtableAdd. *)
LEMMA AddIs ==
  ASSUME NEW table, NEW c \in Calls
  PROVE  HashtableAdd(table, c) =
            IF Ends(table, N22(c)) = {} THEN table
            ELSE [table EXCEPT ![Visited(N22(c), Min(Ends(table, N22(c))))] = Entry(c, N22(c))]
<1>1. N22(c) \in Nat
  BY CallsignHashAssumption
<1> QED
  BY <1>1 DEF HashtableAdd

(* An entry tells its hash and its call... *)
LEMMA EntryFields ==
  ASSUME NEW c, NEW h
  PROVE  Entry(c, h).used /\ Entry(c, h).n22 = h /\ Entry(c, h).callsign = c
BY DEF Entry

(* ...and an entry of the table the hash of its own call. *)
LEMMA EntryHash ==
  ASSUME NEW e \in Entries, e.used
  PROVE  e.n22 \in Hashes
BY DEF Entries, Entry, Unused, Hashes

(* Where hashtable_add() puts a call: the place that holds its hash, or    *)
(* the first unused one when none does; nowhere only in a full table.      *)
LEMMA AddPlace ==
  ASSUME NEW table, Sound(table), NEW h \in Hashes
  PROVE  /\ Ends(table, h) = {} => Full(table)
         /\ Ends(table, h) # {} =>
               \E k \in Places :
                  /\ Min(Ends(table, h)) = k
                  /\ \/ Holds(table, Visited(h, k), h)
                     \/ ~table[Visited(h, k)].used /\ ~Held(table, h)
                  /\ \A j \in Places : j < k => table[Visited(h, j)].used
<1> DEFINE ends == Ends(table, h)
<1>1. ends = {i \in Places : ~table[Visited(h, i)].used \/ table[Visited(h, i)].n22 = h}
  BY DEF Ends
<1>2. CASE ends = {}
  <2> SUFFICES ASSUME NEW p \in Places PROVE table[p].used
    BY <1>2 DEF Full
  <2>1. PICK i \in Places : (h + i) % CALLSIGN_HASH_TABLE_SIZE = p
    BY Wraps, HashType, CallsignHashAssumption DEF Places
  <2>2. Visited(h, i) = p
    BY <2>1 DEF Visited
  <2> QED
    BY <1>1, <1>2, <2>2
<1>3. CASE ends # {}
  <2> DEFINE k == Min(ends)
  <2>1. ends \in SUBSET Nat
    BY <1>1, CallsignHashAssumption DEF Places
  <2>2. k \in ends /\ \A j \in ends : k <= j
    BY <1>3, <2>1, LeastNatural
  <2> HIDE DEF k, ends
  <2>3. \A j \in Places : j < k => j \notin ends
    BY <2>2, <2>1, CallsignHashAssumption DEF Places
  <2>4. \A j \in Places : j < k => table[Visited(h, j)].used /\ ~Holds(table, Visited(h, j), h)
    BY <1>1, <2>3 DEF Holds
  <2>5. k \in Places
    BY <1>1, <2>2
  <2>6. CASE table[Visited(h, k)].used
    <3>1. Holds(table, Visited(h, k), h)
      BY <1>1, <2>2, <2>6 DEF Holds
    <3> QED
      BY <1>3, <2>4, <2>5, <3>1 DEF k, ends
  <2>7. CASE ~table[Visited(h, k)].used
    <3>1. ~Held(table, h)
      BY <2>4, <2>5, <2>7 DEF Sound
    <3> QED
      BY <1>3, <2>4, <2>5, <2>7, <3>1 DEF k, ends
  <2> QED
    BY <2>6, <2>7
<1> QED
  BY <1>2, <1>3

(* hashtable_add() keeps the table sound and makes the call the one its    *)
(* hash resolves to.                                                       *)
LEMMA AddKeeps ==
  ASSUME NEW table, Sound(table), NEW c \in Calls, NEW last, last = [h \in Hashes |-> last[h]],
         Resolves(table, last)
  PROVE  /\ Sound(HashtableAdd(table, c))
         /\ Resolves(HashtableAdd(table, c), [last EXCEPT ![N22(c)] = c])
<1> DEFINE h == N22(c)
           new == HashtableAdd(table, c)
<1>0. h \in Hashes
  BY DEF Hashes
<1>1. CASE Ends(table, h) = {}
  <2>1. new = table /\ Full(table)
    BY <1>0, <1>1, AddIs, AddPlace
  <2> QED
    BY <2>1 DEF Resolves
<1>2. CASE Ends(table, h) # {}
  <2> DEFINE e == Entry(c, h)
  <2>1. PICK k \in Places :
               /\ Min(Ends(table, h)) = k
               /\ \/ Holds(table, Visited(h, k), h)
                  \/ ~table[Visited(h, k)].used /\ ~Held(table, h)
               /\ \A j \in Places : j < k => table[Visited(h, j)].used
    BY <1>0, <1>2, AddPlace
  <2> DEFINE p == Visited(h, k)
  <2>2. new = [table EXCEPT ![p] = e] /\ p \in Places
    BY <1>0, <1>2, <2>1, AddIs, VisitedType
  <2>3. e \in Entries /\ e.used /\ e.n22 = h /\ e.callsign = c
    BY EntryFields DEF Entries
  <2>4. table \in [Places -> Entries]
    BY DEF Sound
  <2>5. Holds(table, p, h) \/ (~table[p].used /\ ~Held(table, h))
    BY <2>1
  <2> HIDE DEF h, new, e, p
  <2>6. /\ new \in [Places -> Entries]
        /\ \A q \in Places : new[q] = IF q = p THEN e ELSE table[q]
    BY <2>2, <2>3, <2>4
  <2>7. /\ \A x : Holds(new, p, x) <=> x = h
        /\ \A q \in Places : q # p => \A x : Holds(new, q, x) <=> Holds(table, q, x)
    BY <2>2, <2>3, <2>6 DEF Holds
  <2>8. \A q \in Places : Holds(table, q, h) => q = p
    BY <1>0, <2>2, <2>5 DEF Sound, Held
  <2>9. \A x \in Hashes : x # h => ~Holds(table, p, x)
    BY <2>5 DEF Holds
  <2>10. \A x \in Hashes : Held(new, x) <=> Held(table, x) \/ x = h
    BY <2>2, <2>7, <2>9 DEF Held
  <2>11. \A q, r \in Places : \A x \in Hashes : Holds(new, q, x) /\ Holds(new, r, x) => q = r
    BY <2>7, <2>8, <2>9 DEF Sound
  <2>12. ASSUME NEW x \in Hashes, Held(new, x), NEW i \in Places, ~new[Visited(x, i)].used
         PROVE  \E j \in Places : j < i /\ Holds(new, Visited(x, j), x)
    <3>1. Visited(x, i) \in Places /\ \A j \in Places : Visited(x, j) \in Places
      BY VisitedType
    <3>2. Visited(x, i) # p /\ ~table[Visited(x, i)].used
      BY <2>3, <2>6, <2>12, <3>1
    <3>3. CASE x # h
      <4>1. PICK j \in Places : j < i /\ Holds(table, Visited(x, j), x)
        BY <2>10, <2>12, <3>2, <3>3 DEF Sound
      <4>2. Visited(x, j) # p
        BY <2>9, <3>3, <4>1
      <4> QED
        BY <2>7, <3>1, <4>1, <4>2
    <3>4. CASE x = h
      <4>1. i # k /\ ~(i < k)
        BY <2>1, <3>2, <3>4 DEF p
      <4>2. k < i
        BY <4>1, CallsignHashAssumption DEF Places
      <4>3. Holds(new, Visited(h, k), h)
        BY <2>7 DEF p
      <4> QED
        BY <3>4, <4>2, <4>3
    <3> QED
      BY <3>3, <3>4
  <2>13. Sound(new)
    BY <2>6, <2>11, <2>12 DEF Sound
  <2>14. Resolves(new, [last EXCEPT ![h] = c])
    <3>1. CASE Full(table)
      BY <2>3, <2>6, <3>1 DEF Full, Resolves
    <3>2. CASE ~Full(table)
      <4> DEFINE newer == [last EXCEPT ![h] = c]
      <4>1. newer[h] = c /\ \A x \in Hashes : x # h => newer[x] = last[x]
        BY <1>0
      <4> HIDE DEF newer
      <4>2. ASSUME NEW x \in Hashes, NEW q \in Places, Holds(new, q, x)
            PROVE  new[q].callsign = newer[x]
        BY <2>3, <2>6, <2>7, <2>8, <3>2, <4>1, <4>2 DEF Resolves
      <4>3. ASSUME NEW x \in Hashes PROVE Held(new, x) \/ newer[x] = Nobody
        BY <2>10, <3>2, <4>1 DEF Resolves
      <4> QED
        BY <4>2, <4>3 DEF Resolves, newer
    <3> QED
      BY <3>1, <3>2
  <2> QED
    BY <2>13, <2>14 DEF h, new
<1> QED
  BY <1>1, <1>2

(* In a sound table with room, hashtable_lookup() finds the call last      *)
(* saved, scanning from the start where hashtable_add() probed.            *)
LEMMA LookupFinds ==
  ASSUME NEW table, Sound(table), NEW last, Resolves(table, last), ~Full(table),
         NEW h \in Hashes
  PROVE  HashtableLookup(table, 22, h) = last[h]
<1> DEFINE found == {p \in Places : Holds(table, p, h)}
<1>1. HashtableLookup(table, 22, h) = IF found = {} THEN Nobody ELSE table[Min(found)].callsign
  BY DEF HashtableLookup, Reduced, Holds
<1>2. CASE found = {}
  BY <1>1, <1>2 DEF Resolves, Held
<1>3. CASE found # {}
  <2>1. found \in SUBSET Nat
    BY CallsignHashAssumption DEF Places
  <2>2. Min(found) \in found
    BY <1>3, <2>1, LeastNatural
  <2>3. Min(found) \in Places /\ Holds(table, Min(found), h)
    BY <2>2
  <2>4. table[Min(found)].callsign = last[h]
    BY <2>3 DEF Resolves
  <2> QED
    BY <1>1, <1>3, <2>4
<1> QED
  BY <1>2, <1>3
=============================================================================
