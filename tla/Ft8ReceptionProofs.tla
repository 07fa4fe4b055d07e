------------------------- MODULE Ft8ReceptionProofs -------------------------
(***************************************************************************)
(* Proofs about the reception of a slot: the candidates of the search, for *)
(* a heap of any size and any waterfall, and the end of bp_decode().       *)
(***************************************************************************)
EXTENDS Ft8Reception, CallsignHashProofs, FiniteSetTheorems, TLAPS

-----------------------------------------------------------------------------
(* Sums.  The function by which SumFunction recurs, on the subsets of S    *)
(* with up to n elements...                                                *)

Small(S, n) == {s \in SUBSET S : Cardinality(s) <= n}
SumStep(f, g, s) ==
    IF s = {} THEN 0
    ELSE f[CHOOSE x \in s : TRUE] + g[s \ {CHOOSE x \in s : TRUE}]
Sums(f, g, S, n) ==
    /\ g = [s \in Small(S, n) |-> g[s]]
    /\ \A s \in Small(S, n) : g[s] = SumStep(f, g, s)

(* ...exists for every n.                                                  *)
LEMMA SumsExist ==
  ASSUME NEW S, IsFiniteSet(S), NEW f, NEW N \in Nat
  PROVE  \E g : Sums(f, g, S, N)
<1> DEFINE Good(n) == \E g : Sums(f, g, S, n)
           bad == {n \in Nat : ~Good(n)}
<1> SUFFICES ASSUME bad # {} PROVE FALSE
  OBVIOUS
<1> DEFINE n == Min(bad)
<1>1. n \in Nat /\ ~Good(n) /\ \A k \in Nat : k < n => Good(k)
  <2>1. bad \in SUBSET Nat
    OBVIOUS
  <2>2. n \in bad /\ \A y \in bad : n <= y
    BY <2>1, LeastNatural
  <2> HIDE DEF n
  <2>3. \A k \in Nat : k < n => k \notin bad
    BY <2>2
  <2> QED
    BY <2>2, <2>3
<1> HIDE DEF n, bad
<1>2. \A s \in SUBSET S : IsFiniteSet(s) /\ Cardinality(s) \in Nat
  BY FS_Subset, FS_CardinalityType
<1>3. CASE n = 0
  <2> DEFINE g == [s \in Small(S, 0) |-> 0]
  <2>1. \A s \in Small(S, 0) : s = {}
    BY <1>2, FS_EmptySet DEF Small
  <2>2. Sums(f, g, S, 0)
    BY <2>1 DEF Sums, SumStep
  <2> QED
    BY <1>1, <1>3, <2>2
<1>4. CASE n # 0
  <2>1. n - 1 \in Nat /\ n - 1 < n
    BY <1>1, <1>4
  <2>2. PICK g : Sums(f, g, S, n - 1)
    BY <1>1, <2>1
  <2> DEFINE k == [s \in Small(S, n) |-> SumStep(f, g, s)]
  <2>3. ASSUME NEW s \in Small(S, n), s # {}
        PROVE  LET x == CHOOSE x \in s : TRUE
               IN  x \in S /\ s \ {x} \in Small(S, n - 1) /\ s \ {x} \in Small(S, n)
    <3> DEFINE x == CHOOSE x \in s : TRUE
    <3>1. x \in s
      BY <2>3
    <3>2. Cardinality(s \ {x}) = Cardinality(s) - 1
      BY <1>2, <3>1, FS_RemoveElement DEF Small
    <3> QED
      BY <1>1, <1>2, <2>1, <3>1, <3>2 DEF Small
  <2>4. \A s \in Small(S, n - 1) : s \in Small(S, n) /\ g[s] = SumStep(f, g, s)
    BY <1>1, <1>2, <2>1, <2>2 DEF Sums, Small
  <2>5. ASSUME NEW s \in Small(S, n)
        PROVE  k[s] = SumStep(f, k, s)
    <3>1. k[s] = SumStep(f, g, s)
      OBVIOUS
    <3>2. CASE s = {}
      BY <3>1, <3>2 DEF SumStep
    <3>3. CASE s # {}
      <4> DEFINE x == CHOOSE x \in s : TRUE
      <4>1. x \in S /\ s \ {x} \in Small(S, n - 1) /\ s \ {x} \in Small(S, n)
        BY <2>3, <3>3
      <4>2. k[s \ {x}] = SumStep(f, g, s \ {x})
        BY <4>1
      <4>3. k[s \ {x}] = g[s \ {x}]
        BY <2>4, <4>1, <4>2
      <4>4. SumStep(f, g, s) = f[x] + g[s \ {x}] /\ SumStep(f, k, s) = f[x] + k[s \ {x}]
        BY <3>3 DEF SumStep
      <4> HIDE DEF x, k
      <4> QED
        BY <3>1, <4>3, <4>4
    <3> QED
      BY <3>2, <3>3
  <2>6. k = [s \in Small(S, n) |-> k[s]]
    OBVIOUS
  <2> HIDE DEF k
  <2>7. Sums(f, k, S, n)
    BY <2>5, <2>6 DEF Sums
  <2> QED
    BY <1>1, <2>7
<1> QED
  BY <1>3, <1>4

(* The sum of integers is an integer, and of naturals a natural.           *)
LEMMA SumType ==
  ASSUME NEW T, T = Int \/ T = Nat,
         NEW f, IsFiniteSet(DOMAIN f), \A x \in DOMAIN f : f[x] \in T
  PROVE  SumFunction(f) \in T
<1> DEFINE S == DOMAIN f
           F(g) == [s \in SUBSET S |->
                      IF s = {} THEN 0
                      ELSE f[CHOOSE x \in s : TRUE] + g[s \ {CHOOSE x \in s : TRUE}]]
           h == CHOOSE g : g = F(g)
<1>1. SumFunction(f) = h[S]
  BY DEF SumFunction, SumFunctionOnSet, FoldFunctionOnSet, MapThenFoldSet
<1>2. \E g : g = F(g)
  <2>1. Cardinality(S) \in Nat /\ \A s \in SUBSET S : Cardinality(s) <= Cardinality(S)
    BY FS_CardinalityType, FS_Subset
  <2>2. Small(S, Cardinality(S)) = SUBSET S
    BY <2>1 DEF Small
  <2>3. PICK g : Sums(f, g, S, Cardinality(S))
    BY <2>1, SumsExist
  <2>4. g = F(g)
    BY <2>2, <2>3 DEF Sums, SumStep
  <2> QED
    BY <2>4
<1>3. h = F(h)
  BY <1>2
<1> HIDE DEF h
<1> DEFINE wrong == {s \in SUBSET S : h[s] \notin T}
           bad == {Cardinality(s) : s \in wrong}
<1>4. \A s \in SUBSET S : IsFiniteSet(s) /\ Cardinality(s) \in Nat
  BY FS_Subset, FS_CardinalityType
<1>5. ASSUME wrong # {} PROVE FALSE
  <2>1. bad \in SUBSET Nat /\ bad # {}
    BY <1>4, <1>5
  <2>2. PICK s \in wrong : \A r \in wrong : Cardinality(s) <= Cardinality(r)
    <3> DEFINE n == Min(bad)
    <3>1. n \in bad /\ \A y \in bad : n <= y
      BY <2>1, LeastNatural
    <3> HIDE DEF n
    <3>2. PICK s \in wrong : n = Cardinality(s)
      BY <3>1
    <3>3. \A r \in wrong : Cardinality(r) \in bad
      OBVIOUS
    <3> QED
      BY <3>1, <3>2, <3>3
  <2> DEFINE x == CHOOSE x \in s : TRUE
  <2>3. s # {}
    BY <1>3, <2>2
  <2>4. x \in s /\ s \in SUBSET S
    BY <2>2, <2>3
  <2>5. h[s] = f[x] + h[s \ {x}] /\ f[x] \in T
    BY <1>3, <2>3, <2>4
  <2>6. s \ {x} \in SUBSET S /\ Cardinality(s \ {x}) = Cardinality(s) - 1
    BY <1>4, <2>4, FS_RemoveElement
  <2>7. h[s \ {x}] \in T
    BY <1>4, <2>2, <2>4, <2>6
  <2> QED
    BY <2>2, <2>5, <2>7
<1> QED
  BY <1>1, <1>5


-----------------------------------------------------------------------------
(* Heaps.  h is an array of candidates of which the first n are in use.    *)

Parent(i) == (i - 1) \div 2
Array(h, places) == h = [i \in places |-> h[i]]
Written(h, i, x) == [h EXCEPT ![i] = x]
Swapped(h, i, j) == [h EXCEPT ![i] = h[j], ![j] = h[i]]
Contents(h, n) == {h[i] : i \in 0 .. n - 1}
Distinct(h, n) == \A i, j \in 0 .. n - 1 : h[i] = h[j] => i = j
Scores(h, n) == \A i \in 0 .. n - 1 : h[i].score \in Int

(* No candidate is worse than the one above it, except perhaps the one at  *)
(* place up and those below place down; -1 is no place.                    *)
Above(h, i) == h[Parent(i)].score <= h[i].score
Ordered(h, n, up, down) == \A i \in 1 .. n - 1 : i = up \/ Parent(i) = down \/ Above(h, i)

(* What is below place c would be in order below what is above c.          *)
Bridged(h, n, c) ==
    c > 0 => \A i \in 1 .. n - 1 : Parent(i) = c => h[Parent(c)].score <= h[i].score

(* From place k on the places hold the worst, the very worst last.         *)
WorstLast(h, k, n) == \A i \in k .. n - 1 : \A j \in 0 .. i - 1 : h[j].score >= h[i].score

(* What is known of the search between two steps: of the list it walks     *)
(* through, ...                                                            *)
Listed(s) ==
    /\ s \in Seq(Range(s))
    /\ \A i, j \in 1 .. Len(s) : s[i] = s[j] => i = j
    /\ \A i \in 1 .. Len(s) : s[i].score \in Int

SortBegun == search \in {"sort", "found"} \/ (search = "down" /\ todo = << >>)
Replacing == search \in {"down", "add"} /\ todo # << >>

ListInv ==
    /\ Listed(offered)
    /\ todo \in Seq(Range(offered)) /\ Len(todo) <= Len(offered)
    /\ \A i \in 1 .. Len(todo) : todo[i] = offered[Len(offered) - Len(todo) + i]
    /\ search \in {"scan", "up", "down", "add", "sort", "found"}
    /\ search \in {"sort", "found"} => todo = << >>
    /\ search = "add" => todo # << >>

(* ...of the candidates it has kept and left out, ...                      *)
Seen == {offered[i] : i \in 1 .. Len(offered) - Len(todo)}
Kept == Contents(heap, heap_size)
LeftOut == {c \in Seen \ Kept : Worth(c)}

KeptInv ==
    /\ Array(heap, HeapPlaces)
    /\ heap_size \in 0 .. num_candidates
    /\ Replacing => heap_size = num_candidates - 1 /\ Worth(Head(todo))
    /\ Distinct(heap, heap_size)
    /\ Kept \subseteq {c \in Seen : Worth(c)}
    /\ \A c \in LeftOut :
          /\ \A k \in Kept : c.score <= k.score
          /\ heap_size = num_candidates \/ (Replacing /\ c.score <= Head(todo).score)

(* ...and of the order of the heap.                                        *)
HeapLen == IF SortBegun THEN len_unsorted ELSE heap_size
Rising == IF search = "up" THEN current ELSE -1
Sinking == IF search = "down" THEN current ELSE -1

HeapInv ==
    /\ HeapLen \in 0 .. heap_size /\ current \in Nat
    /\ search = "up" => current < heap_size
    /\ Ordered(heap, HeapLen, Rising, Sinking)
    /\ search \in {"up", "down"} => Bridged(heap, HeapLen, current)
    /\ SortBegun => WorstLast(heap, len_unsorted, heap_size)
    /\ search = "found" => len_unsorted <= 1

SearchInv == search # "idle" => ListInv /\ KeptInv /\ HeapInv

-----------------------------------------------------------------------------
(* Above and below are the inverse of each other. *)
LEMMA ParentFacts ==
  /\ \A i \in Nat \ {0} : Parent(i) \in Nat /\ Parent(i) < i /\ i \in {Left(Parent(i)), Right(Parent(i))}
  /\ \A i \in Nat : Parent(Left(i)) = i /\ Parent(Right(i)) = i
  /\ \A i \in Nat : Left(i) \in Nat /\ Right(i) \in Nat
  /\ \A i \in Nat : Left(i) > i /\ Right(i) > i /\ Left(i) < Right(i)
BY DEF Parent, Left, Right

(* An entry is written. *)
LEMMA PutKeeps ==
  ASSUME NEW P, NEW h, Array(h, P), NEW a \in P, NEW x
  PROVE  LET g == Written(h, a, x)
         IN  Array(g, P) /\ g[a] = x /\ \A i \in P \ {a} : g[i] = h[i]
BY DEF Written, Array

(* An exchange of two places in use keeps the entries. *)
LEMMA SwapKeeps ==
  ASSUME NEW P, NEW h, Array(h, P), NEW n \in Nat, 0 .. n - 1 \subseteq P,
         NEW a \in 0 .. n - 1, NEW b \in 0 .. n - 1
  PROVE  LET g == Swapped(h, a, b)
         IN  /\ Array(g, P)
             /\ g[a] = h[b] /\ g[b] = h[a] /\ \A i \in P \ {a, b} : g[i] = h[i]
             /\ Contents(g, n) = Contents(h, n)
             /\ Distinct(h, n) => Distinct(g, n)
             /\ Scores(h, n) => Scores(g, n)
<1> DEFINE g == Swapped(h, a, b)
<1>1. /\ Array(g, P)
      /\ g[a] = h[b] /\ g[b] = h[a] /\ \A i \in P \ {a, b} : g[i] = h[i]
  BY DEF Swapped, Array
<1> HIDE DEF g
<1> DEFINE at(i) == IF i = a THEN b ELSE IF i = b THEN a ELSE i
<1>2. \A i \in 0 .. n - 1 : at(i) \in 0 .. n - 1 /\ at(at(i)) = i /\ g[i] = h[at(i)] /\ h[i] = g[at(i)]
  BY <1>1
<1> HIDE DEF at
<1>3. Contents(g, n) = Contents(h, n)
  BY <1>2 DEF Contents
<1>4. Distinct(h, n) => Distinct(g, n)
  BY <1>2 DEF Distinct
<1>5. Scores(h, n) => Scores(g, n)
  BY <1>2 DEF Scores
<1> QED
  BY <1>1, <1>3, <1>4, <1>5 DEF g

(* The worst candidate is at the root. *)
LEMMA RootIsWorst ==
  ASSUME NEW h, NEW n \in Nat, Scores(h, n), Ordered(h, n, -1, -1)
  PROVE  \A i \in 0 .. n - 1 : h[0].score <= h[i].score
<1> DEFINE bad == {i \in 0 .. n - 1 : ~(h[0].score <= h[i].score)}
<1> SUFFICES ASSUME bad # {} PROVE FALSE
  OBVIOUS
<1> DEFINE m == Min(bad)
<1>1. m \in bad /\ \A y \in bad : m <= y
  <2>1. bad \in SUBSET Nat
    OBVIOUS
  <2> QED
    BY <2>1, LeastNatural
<1> HIDE DEF m
<1>2. m \in 0 .. n - 1 /\ ~(h[0].score <= h[m].score) /\ m # 0
  BY <1>1 DEF Scores
<1>3. Parent(m) \in 0 .. n - 1 /\ Parent(m) \notin bad
  BY <1>1, <1>2, ParentFacts
<1>4. h[Parent(m)].score <= h[m].score
  BY <1>2, <1>3, ParentFacts DEF Ordered, Above
<1> QED
  BY <1>2, <1>3, <1>4 DEF Scores

(* heapify_up(): one exchange with the candidate above, and the end. *)
LEMMA UpStep ==
  ASSUME NEW P, NEW h, Array(h, P), NEW n \in Nat, 0 .. n - 1 \subseteq P, Scores(h, n),
         NEW c \in 1 .. n - 1, h[c].score < h[Parent(c)].score,
         Ordered(h, n, c, -1), Bridged(h, n, c)
  PROVE  LET g == Swapped(h, c, Parent(c))
         IN  Ordered(g, n, Parent(c), -1) /\ Bridged(g, n, Parent(c))
<1> DEFINE p == Parent(c)
           g == Swapped(h, c, p)
<1>1. p \in 0 .. n - 1 /\ p < c
  BY ParentFacts
<1>2. g[c] = h[p] /\ g[p] = h[c] /\ \A i \in (0 .. n - 1) \ {c, p} : g[i] = h[i]
  <2>1. g[c] = h[p] /\ g[p] = h[c] /\ \A i \in P \ {c, p} : g[i] = h[i]
    BY <1>1, SwapKeeps
  <2> QED
    BY <2>1
<1> HIDE DEF g
<1>3. \A i \in 1 .. n - 1 : Parent(i) \in 0 .. n - 1 /\ Parent(i) < i
  BY ParentFacts
<1>4. \A i \in 1 .. n - 1 : i # c => h[Parent(i)].score <= h[i].score
  BY <1>3 DEF Ordered, Above
<1>5. \A i \in 1 .. n - 1 : Parent(i) = c => h[p].score <= h[i].score
  BY DEF Bridged
<1>6. \A i \in 0 .. n - 1 : h[i].score \in Int
  BY DEF Scores
<1>7. ASSUME NEW i \in 1 .. n - 1, i # p PROVE g[Parent(i)].score <= g[i].score
  <2>1. CASE i = c
    BY <1>1, <1>2, <1>6, <2>1
  <2>2. CASE Parent(i) = c
    BY <1>2, <1>3, <1>5, <1>7, <2>2
  <2>3. CASE Parent(i) = p /\ i # c
    BY <1>1, <1>2, <1>4, <1>6, <1>7, <2>3
  <2>4. CASE i # c /\ Parent(i) \notin {c, p}
    BY <1>2, <1>3, <1>4, <1>7, <2>4
  <2> QED
    BY <2>1, <2>2, <2>3, <2>4
<1>8. ASSUME p > 0, NEW i \in 1 .. n - 1, Parent(i) = p PROVE g[Parent(p)].score <= g[i].score
  <2> DEFINE q == Parent(p)
  <2>1. q \in 0 .. n - 1 /\ q < p /\ h[q].score <= h[p].score
    BY <1>1, <1>3, <1>4, <1>8
  <2> HIDE DEF q
  <2>2. g[q] = h[q]
    BY <1>1, <1>2, <2>1
  <2>3. CASE i = c
    BY <1>2, <2>1, <2>2, <2>3 DEF q
  <2>4. CASE i # c
    <3>1. g[i] = h[i] /\ h[p].score <= h[i].score
      BY <1>2, <1>3, <1>4, <1>8, <2>4
    <3>2. h[q].score \in Int /\ h[p].score \in Int /\ h[i].score \in Int
      BY <1>1, <1>6, <2>1
    <3>3. h[q].score <= h[i].score
      BY <2>1, <3>1, <3>2
    <3> QED
      BY <2>2, <3>1, <3>3 DEF q
  <2> QED
    BY <2>3, <2>4
<1> QED
  BY <1>1, <1>7, <1>8 DEF Ordered, Above, Bridged, g

(* heapify_down(): one exchange with the worst below, and the end. *)
LEMMA DownStep ==
  ASSUME NEW P, NEW h, Array(h, P), NEW n \in Nat, 0 .. n - 1 \subseteq P, Scores(h, n),
         NEW c \in Nat, NEW s \in 0 .. n - 1, s > 0, Parent(s) = c, h[s].score < h[c].score,
         \A i \in 1 .. n - 1 : Parent(i) = c => h[s].score <= h[i].score,
         Ordered(h, n, -1, c), Bridged(h, n, c)
  PROVE  LET g == Swapped(h, s, c)
         IN  Ordered(g, n, -1, s) /\ Bridged(g, n, s)
<1> DEFINE g == Swapped(h, s, c)
<1>1. c \in 0 .. n - 1 /\ c < s
  BY ParentFacts
<1>2. g[c] = h[s] /\ g[s] = h[c] /\ \A i \in (0 .. n - 1) \ {c, s} : g[i] = h[i]
  BY <1>1, SwapKeeps
<1> HIDE DEF g
<1>3. \A i \in 1 .. n - 1 : Parent(i) \in 0 .. n - 1 /\ Parent(i) < i
  BY ParentFacts
<1>4. \A i \in 1 .. n - 1 : Parent(i) # c => h[Parent(i)].score <= h[i].score
  BY <1>3 DEF Ordered, Above
<1>5. c > 0 => \A i \in 1 .. n - 1 : Parent(i) = c => h[Parent(c)].score <= h[i].score
  BY DEF Bridged
<1>6. \A i \in 0 .. n - 1 : h[i].score \in Int
  BY DEF Scores
<1>9. h[s].score <= h[c].score
  <2>1. h[s].score \in Int /\ h[c].score \in Int
    BY <1>1, <1>6
  <2> QED
    BY <2>1
<1>7. ASSUME NEW i \in 1 .. n - 1, Parent(i) # s PROVE g[Parent(i)].score <= g[i].score
  <2>1. CASE i = s
    BY <1>2, <1>9, <2>1
  <2>2. CASE Parent(i) = c /\ i # s
    BY <1>1, <1>2, <1>3, <2>2
  <2>3. CASE i = c
    BY <1>1, <1>2, <1>3, <1>5, <1>7, <2>3
  <2>4. CASE i \notin {c, s} /\ Parent(i) # c
    BY <1>2, <1>3, <1>4, <1>7, <2>4
  <2> QED
    BY <2>1, <2>2, <2>3, <2>4
<1>8. ASSUME NEW i \in 1 .. n - 1, Parent(i) = s PROVE g[Parent(s)].score <= g[i].score
  <2>1. i > s
    BY <1>3, <1>8
  <2>2. h[s].score <= h[i].score
    BY <1>1, <1>4, <1>8
  <2> QED
    BY <1>1, <1>2, <2>1, <2>2
<1> QED
  BY <1>7, <1>8 DEF Ordered, Above, Bridged, g

(* An exchange among the first k places leaves the worst ones last. *)
LEMMA SwapBefore ==
  ASSUME NEW P, NEW h, Array(h, P), NEW n \in Nat, 0 .. n - 1 \subseteq P,
         NEW k \in 0 .. n, NEW a \in 0 .. k - 1, NEW b \in 0 .. k - 1, WorstLast(h, k, n)
  PROVE  WorstLast(Swapped(h, a, b), k, n)
<1> DEFINE g == Swapped(h, a, b)
<1>1. g[a] = h[b] /\ g[b] = h[a] /\ \A i \in (0 .. n - 1) \ {a, b} : g[i] = h[i]
  BY SwapKeeps
<1> HIDE DEF g
<1>2. ASSUME NEW i \in k .. n - 1, NEW j \in 0 .. i - 1 PROVE g[j].score >= g[i].score
  <2>1. g[i] = h[i] /\ \A j1 \in 0 .. i - 1 : h[j1].score >= h[i].score
    BY <1>1 DEF WorstLast
  <2>2. \E j1 \in 0 .. i - 1 : g[j] = h[j1]
    BY <1>1
  <2> QED
    BY <2>1, <2>2
<1> QED
  BY <1>2 DEF WorstLast, g


-----------------------------------------------------------------------------
(* The steps of the search *)

(* What a candidate of the heap or of the list has for a score. *)
LEMMA InUse ==
  ASSUME ListInv, KeptInv
  PROVE  /\ heap_size \in Nat /\ 0 .. heap_size - 1 \subseteq HeapPlaces
         /\ Scores(heap, heap_size)
         /\ \A c \in Seen : c.score \in Int
         /\ \A i \in 0 .. heap_size - 1 : heap[i] \in Kept
<1>1. heap_size \in 0 .. num_candidates /\ num_candidates \in Nat
  BY SearchAssumption DEF KeptInv
<1>2. \A c \in Seen : c.score \in Int
  <2>1. Len(offered) \in Nat /\ Len(todo) \in Nat /\ \A i \in 1 .. Len(offered) : offered[i].score \in Int
    BY DEF ListInv, Listed
  <2> QED
    BY <2>1 DEF Seen
<1>3. \A i \in 0 .. heap_size - 1 : heap[i] \in Kept /\ heap[i] \in Seen
  BY DEF KeptInv, Kept, Contents
<1> QED
  BY <1>1, <1>2, <1>3 DEF HeapPlaces, Scores

(* The scan goes on to the next candidate, which it has not met before. *)
LEMMA Advance ==
  ASSUME ListInv, todo # << >>
  PROVE  /\ Head(todo) \notin Seen /\ Head(todo).score \in Int
         /\ todo' = Tail(todo) /\ UNCHANGED offered /\ search' \in {"scan", "up"}
              => ListInv' /\ Seen' = Seen \cup {Head(todo)}
<1> DEFINE n == Len(offered)
           k == n - Len(todo)
           S == Range(offered)
<1>1. /\ n \in Nat /\ Len(todo) \in Nat /\ Len(todo) > 0 /\ k \in 0 .. n - 1
      /\ Head(todo) = offered[k + 1]
      /\ Tail(todo) \in Seq(S) /\ Len(Tail(todo)) = Len(todo) - 1
      /\ \A i \in 1 .. Len(todo) - 1 : Tail(todo)[i] = todo[i + 1]
  BY DEF ListInv, Listed
<1>2. Head(todo) \notin Seen /\ Head(todo).score \in Int
  BY <1>1 DEF ListInv, Listed, Seen
<1>3. ASSUME todo' = Tail(todo), UNCHANGED offered, search' \in {"scan", "up"}
      PROVE  ListInv' /\ Seen' = Seen \cup {Head(todo)}
  <2>1. Seen' = Seen \cup {Head(todo)}
    <3>1. Len(offered') - Len(todo') = k + 1
      BY <1>1, <1>3
    <3>2. Seen' = {offered[i] : i \in 1 .. k + 1}
      BY <1>3, <3>1 DEF Seen
    <3>3. Seen = {offered[i] : i \in 1 .. k}
      BY DEF Seen
    <3>4. 1 .. k + 1 = (1 .. k) \cup {k + 1}
      BY <1>1
    <3> HIDE DEF k
    <3> QED
      BY <1>1, <3>2, <3>3, <3>4
  <2>2. \A i \in 1 .. Len(todo') : todo'[i] = offered'[Len(offered') - Len(todo') + i]
    <3> SUFFICES ASSUME NEW i \in 1 .. Len(todo) - 1 PROVE Tail(todo)[i] = offered[k + 1 + i]
      BY <1>1, <1>3
    <3>1. Tail(todo)[i] = todo[i + 1] /\ i + 1 \in 1 .. Len(todo)
      BY <1>1
    <3>2. todo[i + 1] = offered[k + (i + 1)]
      BY <3>1 DEF ListInv
    <3> QED
      BY <1>1, <3>1, <3>2
  <2>3. todo' \in Seq(Range(offered')) /\ Len(todo') <= Len(offered')
    BY <1>1, <1>3
  <2> QED
    BY <1>3, <2>1, <2>2, <2>3 DEF ListInv
<1> QED
  BY <1>2, <1>3

(* Exchanges change nothing about which candidates are kept. *)
LEMMA SameCandidates ==
  ASSUME ListInv, KeptInv,
         heap' = heap \/ \E a, b \in 0 .. heap_size - 1 : heap' = Swapped(heap, a, b),
         UNCHANGED <<todo, heap_size, offered>>, Replacing' <=> Replacing
  PROVE  KeptInv'
<1>1. /\ Array(heap', HeapPlaces)
      /\ Contents(heap', heap_size) = Contents(heap, heap_size)
      /\ Distinct(heap', heap_size)
  <2>1. Array(heap, HeapPlaces) /\ Distinct(heap, heap_size)
    BY DEF KeptInv
  <2>2. CASE heap' = heap
    BY <2>1, <2>2
  <2>3. CASE heap' # heap
    <3>1. PICK a \in 0 .. heap_size - 1, b \in 0 .. heap_size - 1 : heap' = Swapped(heap, a, b)
      BY <2>3
    <3>2. heap_size \in Nat /\ 0 .. heap_size - 1 \subseteq HeapPlaces
      BY InUse
    <3> QED
      BY <2>1, <3>1, <3>2, SwapKeeps
  <2> QED
    BY <2>2, <2>3
<1>2. Kept' = Kept /\ Seen' = Seen
  BY <1>1 DEF Kept, Seen
<1>3. LeftOut' = LeftOut
  BY <1>2 DEF LeftOut
<1> QED
  BY <1>1, <1>2, <1>3 DEF KeptInv, HeapPlaces


(* The heap is in order whenever nothing rises or sinks. *)
LEMMA WholeHeap ==
  ASSUME ListInv, KeptInv, HeapInv, search \in {"scan", "add", "sort"}
  PROVE  /\ HeapLen \in Nat /\ HeapLen <= heap_size
         /\ \A i \in 1 .. HeapLen - 1 :
               Parent(i) \in 0 .. HeapLen - 1 /\ Parent(i) < i /\ Above(heap, i)
         /\ \A i \in 0 .. HeapLen - 1 : heap[0].score <= heap[i].score
<1> DEFINE n == HeapLen
<1>1. n \in 0 .. heap_size /\ heap_size \in Nat /\ Scores(heap, heap_size)
  BY InUse DEF HeapInv
<1>2. Ordered(heap, n, -1, -1)
  BY DEF HeapInv, Rising, Sinking
<1> HIDE DEF n
<1>3. n \in Nat /\ n <= heap_size /\ Scores(heap, n)
  BY <1>1 DEF Scores
<1>4. \A i \in 0 .. n - 1 : heap[0].score <= heap[i].score
  BY <1>2, <1>3, RootIsWorst
<1>5. \A i \in 1 .. n - 1 : Parent(i) \in 0 .. n - 1 /\ Parent(i) < i
  BY <1>3, ParentFacts
<1>6. \A i \in 1 .. n - 1 : Above(heap, i)
  BY <1>2, <1>5 DEF Ordered
<1> QED
  BY <1>3, <1>4, <1>5, <1>6 DEF n

(* A candidate is put behind the last of the heap. *)
LEMMA AddCandidateKeeps ==
  ASSUME ListInv, KeptInv, HeapInv, AddCandidate, UNCHANGED offered
  PROVE  ListInv' /\ KeptInv' /\ HeapInv'
<1> DEFINE n == heap_size
           c == Head(todo)
<1>1. /\ search \in {"scan", "add"} /\ todo # << >> /\ Worth(c) /\ n < num_candidates
      /\ heap' = [heap EXCEPT ![n] = c] /\ heap_size' = n + 1
      /\ current' = n /\ todo' = Tail(todo) /\ search' = "up"
      /\ n = heap_size
  BY DEF AddCandidate
<1>2. ListInv' /\ Seen' = Seen \cup {c} /\ c \notin Seen /\ c.score \in Int
  BY <1>1, Advance
<1> HIDE DEF n
<1>3. n \in Nat /\ num_candidates \in Nat /\ Array(heap, HeapPlaces)
  BY <1>1, SearchAssumption, InUse DEF KeptInv
<1>4. /\ Array(heap', HeapPlaces)
      /\ heap'[n] = c /\ \A i \in 0 .. n - 1 : heap'[i] = heap[i]
  <2>1. n \in HeapPlaces /\ 0 .. n - 1 \subseteq HeapPlaces \ {n}
    BY <1>1, <1>3 DEF HeapPlaces
  <2>2. LET g == Written(heap, n, c)
        IN  Array(g, HeapPlaces) /\ g[n] = c /\ \A i \in HeapPlaces \ {n} : g[i] = heap[i]
    BY <1>3, <2>1, PutKeeps
  <2> QED
    BY <1>1, <2>1, <2>2 DEF Written
<1>5. Kept' = Kept \cup {c}
  <2>1. Kept' = {heap'[i] : i \in 0 .. n} /\ Kept = {heap[i] : i \in 0 .. n - 1}
    BY <1>1, <1>3 DEF Kept, Contents
  <2>2. 0 .. n = (0 .. n - 1) \cup {n}
    BY <1>3
  <2> QED
    BY <1>4, <2>1, <2>2
<1>6. Kept \subseteq {k \in Seen : Worth(k)} /\ Distinct(heap, n)
  BY <1>1 DEF KeptInv
<1>7. KeptInv'
  <2>1. heap_size' \in 0 .. num_candidates /\ ~Replacing'
    BY <1>1, <1>3 DEF Replacing
  <2>2. Distinct(heap', heap_size')
    <3>1. \A i \in 0 .. n - 1 : heap[i] # c
      BY <1>1, <1>2, <1>6 DEF Kept, Contents
    <3>2. Distinct(heap', n + 1)
      <4> SUFFICES ASSUME NEW i \in 0 .. n, NEW j \in 0 .. n, heap'[i] = heap'[j] PROVE i = j
        BY <1>3 DEF Distinct
      <4>1. CASE i \in 0 .. n - 1 /\ j \in 0 .. n - 1
        BY <1>4, <1>6, <4>1 DEF Distinct
      <4>2. CASE i = n \/ j = n
        BY <1>3, <1>4, <3>1, <4>2
      <4> QED
        BY <1>3, <4>1, <4>2
    <3> QED
      BY <1>1, <3>2
  <2>3. Kept' \subseteq {k \in Seen' : Worth(k)}
    BY <1>1, <1>2, <1>5, <1>6
  <2>4. LeftOut' = LeftOut
    BY <1>2, <1>5, <1>6 DEF LeftOut, Worth
  <2>5. ASSUME NEW d \in LeftOut
        PROVE  heap_size' = num_candidates /\ \A k \in Kept' : d.score <= k.score
    <3>1. Replacing /\ d.score <= c.score /\ \A k \in Kept : d.score <= k.score
      BY <1>1, <1>3 DEF KeptInv
    <3>2. n = num_candidates - 1
      BY <1>1, <3>1 DEF KeptInv
    <3> QED
      BY <1>1, <1>3, <1>5, <3>1, <3>2
  <2> HIDE DEF c
  <2> QED
    BY <1>4, <2>1, <2>2, <2>3, <2>4, <2>5 DEF KeptInv, HeapPlaces
<1>8. HeapInv'
  <2>1. HeapLen = n /\ HeapLen' = n + 1 /\ ~SortBegun' /\ Rising' = n /\ Sinking' = -1
    BY <1>1 DEF HeapLen, SortBegun, Rising, Sinking
  <2>2. \A i \in 1 .. n : i # n => Above(heap', i)
    <3>1. \A i \in 1 .. n - 1 :
             Parent(i) \in 0 .. n - 1 /\ heap[Parent(i)].score <= heap[i].score
      BY <1>1, <2>1, WholeHeap DEF Above
    <3> HIDE DEF c
    <3> QED
      BY <1>3, <1>4, <3>1 DEF Above
  <2>3. Ordered(heap', n + 1, n, -1)
    BY <1>3, <2>2 DEF Ordered
  <2>4. Bridged(heap', n + 1, n)
    <3>1. \A i \in 1 .. n : Parent(i) < i
      BY <1>3, ParentFacts
    <3> QED
      BY <1>3, <3>1 DEF Bridged
  <2> QED
    BY <1>1, <1>3, <2>1, <2>3, <2>4 DEF HeapInv
<1> QED
  BY <1>2, <1>7, <1>8

(* The worst makes room. *)
LEMMA RemoveWorstKeeps ==
  ASSUME ListInv, KeptInv, HeapInv, RemoveWorst, UNCHANGED offered
  PROVE  ListInv' /\ KeptInv' /\ HeapInv'
<1> DEFINE n == heap_size
           c == Head(todo)
           w == heap[0]
<1>1. /\ search = "scan" /\ todo # << >> /\ Worth(c) /\ n = num_candidates /\ c.score > w.score
      /\ heap' = [heap EXCEPT ![0] = heap[n - 1]] /\ heap_size' = n - 1
      /\ current' = 0 /\ search' = "down" /\ UNCHANGED <<todo, len_unsorted>>
      /\ n = heap_size
  BY DEF RemoveWorst, Better
<1>2. ListInv' /\ Seen' = Seen /\ Replacing' /\ ~SortBegun' /\ ~SortBegun
  BY <1>1 DEF ListInv, Seen, Replacing, SortBegun
<1> HIDE DEF n
<1>3. n \in Nat \ {0} /\ Array(heap, HeapPlaces) /\ HeapPlaces = 0 .. n - 1
  BY <1>1, SearchAssumption DEF KeptInv, HeapPlaces
<1>4. /\ Array(heap', HeapPlaces)
      /\ heap'[0] = heap[n - 1] /\ \A i \in 1 .. n - 1 : heap'[i] = heap[i]
  <2>1. 0 \in HeapPlaces
    BY <1>3
  <2>2. ASSUME NEW x
        PROVE  LET g == Written(heap, 0, x)
               IN  Array(g, HeapPlaces) /\ g[0] = x /\ \A i \in HeapPlaces \ {0} : g[i] = heap[i]
    BY <1>3, <2>1, PutKeeps
  <2>3. heap' = Written(heap, 0, heap[n - 1])
    BY <1>1 DEF Written
  <2>4. 1 .. n - 1 \subseteq HeapPlaces \ {0}
    BY <1>3
  <2> QED
    BY <2>2, <2>3, <2>4
<1>5. Kept \subseteq {k \in Seen : Worth(k)} /\ Distinct(heap, n)
  BY <1>1 DEF KeptInv
<1>6. Kept' = Kept \ {w}
  <2>1. Kept' = {heap'[i] : i \in 0 .. n - 2}
    BY <1>1, <1>3 DEF Kept, Contents
  <2>2. \A i \in 1 .. n - 1 : heap[i] # w
    BY <1>3, <1>5 DEF Distinct
  <2>5. \A i \in 1 .. n - 1 : heap[i] \in Kept
    BY <1>1, <1>3, InUse
  <2>3. ASSUME NEW k \in Kept' PROVE k \in Kept \ {w}
    <3>1. PICK i \in 0 .. n - 2 : k = heap'[i]
      BY <2>1
    <3>2. \E j \in 1 .. n - 1 : k = heap[j]
      <4>1. CASE i = 0
        BY <1>3, <1>4, <3>1, <4>1
      <4>2. CASE i # 0
        BY <1>3, <1>4, <3>1, <4>2
      <4> QED
        BY <4>1, <4>2
    <3> QED
      BY <2>2, <2>5, <3>2
  <2>4. ASSUME NEW k \in Kept, k # w PROVE k \in Kept'
    <3>1. PICK i \in 1 .. n - 1 : k = heap[i]
      BY <1>1, <1>3, <2>4 DEF Kept, Contents
    <3>2. \E j \in 0 .. n - 2 : k = heap'[j]
      <4>1. CASE i = n - 1
        BY <1>3, <1>4, <3>1, <4>1
      <4>2. CASE i # n - 1
        BY <1>3, <1>4, <3>1, <4>2
      <4> QED
        BY <4>1, <4>2
    <3> QED
      BY <2>1, <3>2
  <2> QED
    BY <2>3, <2>4
<1>7. w \in Kept /\ \A k \in Kept : w.score <= k.score
  <2>1. HeapLen = n
    BY <1>1, <1>2 DEF HeapLen
  <2> QED
    BY <1>1, <1>3, <2>1, WholeHeap DEF Kept, Contents
<1>8. \A k \in Seen : k.score \in Int
  BY InUse
<1>9. c.score \in Int
  BY <1>1, Advance
<1>10. KeptInv'
  <2>1. Distinct(heap', heap_size')
    <3>1. \A i \in 0 .. n - 2 : heap'[i] = heap[IF i = 0 THEN n - 1 ELSE i]
      BY <1>3, <1>4
    <3> QED
      BY <1>1, <1>3, <1>5, <3>1 DEF Distinct
  <2>2. LeftOut' = LeftOut \cup {w}
    BY <1>2, <1>5, <1>6, <1>7 DEF LeftOut, Worth
  <2>3. ASSUME NEW d \in LeftOut
        PROVE  d.score <= c.score /\ \A k \in Kept : d.score <= k.score
    <3>1. \A k \in Kept : d.score <= k.score
      BY DEF KeptInv
    <3>2. d.score \in Int /\ w.score \in Int /\ d.score <= w.score
      BY <1>5, <1>7, <1>8, <3>1 DEF LeftOut
    <3> QED
      BY <1>1, <1>9, <3>1, <3>2
  <2>4. w.score <= c.score
    BY <1>1, <1>5, <1>7, <1>8, <1>9
  <2>5. \A d \in LeftOut' : d.score <= c.score /\ \A k \in Kept' : d.score <= k.score
    BY <1>6, <1>7, <2>2, <2>3, <2>4
  <2>6. /\ heap_size' \in 0 .. num_candidates /\ heap_size' = num_candidates - 1
        /\ Worth(Head(todo')) /\ Head(todo') = c
        /\ Kept' \subseteq {k \in Seen' : Worth(k)}
    BY <1>1, <1>2, <1>3, <1>5, <1>6
  <2> HIDE DEF c, w
  <2> QED
    BY <1>2, <1>4, <2>1, <2>5, <2>6 DEF KeptInv, HeapPlaces, Worth
<1>11. HeapInv'
  <2>1. HeapLen = n /\ HeapLen' = n - 1 /\ Rising' = -1 /\ Sinking' = 0
    BY <1>1, <1>2 DEF HeapLen, Rising, Sinking
  <2>2. \A i \in 1 .. n - 2 : Parent(i) = 0 \/ Above(heap', i)
    <3>1. \A i \in 1 .. n - 1 :
             Parent(i) \in 0 .. n - 1 /\ Parent(i) < i /\ heap[Parent(i)].score <= heap[i].score
      BY <1>1, <2>1, WholeHeap DEF Above
    <3> HIDE DEF c, w
    <3>2. ASSUME NEW i \in 1 .. n - 2, Parent(i) # 0 PROVE heap'[Parent(i)].score <= heap'[i].score
      <4>1. i \in 1 .. n - 1 /\ Parent(i) \in 1 .. n - 1
        BY <1>3, <3>1, <3>2
      <4> QED
        BY <1>4, <3>1, <4>1
    <3> QED
      BY <3>2 DEF Above
  <2>3. Ordered(heap', n - 1, -1, 0) /\ Bridged(heap', n - 1, 0)
    BY <1>3, <2>2 DEF Ordered, Bridged
  <2> QED
    BY <1>1, <1>2, <1>3, <2>1, <2>3 DEF HeapInv
<1> QED
  BY <1>2, <1>10, <1>11

(* A candidate is passed over. *)
LEMMA PassCandidateKeeps ==
  ASSUME ListInv, KeptInv, HeapInv, PassCandidate, UNCHANGED offered
  PROVE  ListInv' /\ KeptInv' /\ HeapInv'
<1> DEFINE c == Head(todo)
<1>1. /\ search = "scan" /\ todo # << >> /\ todo' = Tail(todo)
      /\ ~Worth(c) \/ (heap_size = num_candidates /\ ~(c.score > heap[0].score))
      /\ UNCHANGED <<search, heap, heap_size, len_unsorted, current>>
  BY DEF PassCandidate, Better
<1>2. ListInv' /\ Seen' = Seen \cup {c} /\ c \notin Seen /\ c.score \in Int
  BY <1>1, Advance
<1>3. Kept' = Kept /\ ~Replacing /\ ~Replacing' /\ ~SortBegun /\ ~SortBegun'
  BY <1>1 DEF Kept, Replacing, SortBegun
<1>4. ASSUME NEW d \in LeftOut'
      PROVE  heap_size = num_candidates /\ \A k \in Kept : d.score <= k.score
  <2>1. CASE d \in LeftOut
    BY <1>3, <2>1 DEF KeptInv
  <2>2. CASE d = c
    <3>1. heap_size = num_candidates /\ ~(c.score > heap[0].score)
      BY <1>1, <1>4, <2>2 DEF LeftOut, Worth
    <3>2. HeapLen = heap_size /\ heap_size \in Nat \ {0}
      BY <1>3, <3>1, SearchAssumption DEF HeapLen
    <3>3. \A k \in Kept : heap[0].score <= k.score
      BY <1>1, <3>2, WholeHeap DEF Kept, Contents
    <3>4. heap[0].score \in Int /\ \A k \in Kept : k.score \in Int
      BY <3>2, InUse DEF Kept, Contents, Scores
    <3>5. c.score <= heap[0].score
      BY <1>2, <3>1, <3>4
    <3> HIDE DEF c
    <3>6. \A k \in Kept : c.score <= k.score
      BY <1>2, <3>3, <3>4, <3>5
    <3> QED
      BY <2>2, <3>1, <3>6
  <2> QED
    BY <1>2, <1>3, <1>4, <2>1, <2>2 DEF LeftOut, Worth
<1>5. KeptInv'
  BY <1>1, <1>2, <1>3, <1>4 DEF KeptInv, HeapPlaces, Worth
<1>6. HeapInv'
  BY <1>1, <1>3 DEF HeapInv, HeapLen, Rising, Sinking
<1> QED
  BY <1>2, <1>5, <1>6


(* A candidate rises. *)
LEMMA HeapifyUpKeeps ==
  ASSUME ListInv, KeptInv, HeapInv, HeapifyUp, UNCHANGED offered
  PROVE  ListInv' /\ KeptInv' /\ HeapInv'
<1> DEFINE n == heap_size
           c == current
           rises == c > 0 /\ heap[c].score < heap[Parent(c)].score
<1>1. /\ search = "up" /\ UNCHANGED <<todo, heap_size, len_unsorted, offered>>
      /\ IF rises THEN heap' = Swapped(heap, c, Parent(c)) /\ current' = Parent(c) /\ search' = "up"
         ELSE search' = "scan" /\ UNCHANGED <<heap, current>>
  BY DEF HeapifyUp, Exchanged, Swapped, Parent
<1>2. /\ n \in Nat /\ c \in 0 .. n - 1 /\ Array(heap, HeapPlaces)
      /\ 0 .. n - 1 \subseteq HeapPlaces /\ Scores(heap, n)
      /\ c > 0 => Parent(c) \in 0 .. n - 1
  BY <1>1, InUse, ParentFacts DEF HeapInv, KeptInv
<1>3. /\ HeapLen = n /\ HeapLen' = n /\ ~SortBegun /\ ~SortBegun' /\ search' \in {"up", "scan"}
      /\ Ordered(heap, n, c, -1) /\ Bridged(heap, n, c)
  BY <1>1 DEF HeapLen, SortBegun, HeapInv, Rising, Sinking
<1> HIDE DEF n, c
<1>4. ListInv'
  BY <1>1, <1>3 DEF ListInv
<1>5. KeptInv'
  <2>1. heap' = heap \/ \E a, b \in 0 .. n - 1 : heap' = Swapped(heap, a, b)
    BY <1>1, <1>2
  <2>2. ~Replacing /\ ~Replacing'
    BY <1>1, <1>3 DEF Replacing
  <2> QED
    BY <1>1, <2>1, <2>2, SameCandidates DEF n
<1>6. HeapInv'
  <2>1. CASE rises
    <3>1. Ordered(heap', n, Parent(c), -1) /\ Bridged(heap', n, Parent(c))
      <4>1. c \in 1 .. n - 1
        BY <1>2, <2>1
      <4> QED
        BY <1>1, <1>2, <1>3, <2>1, <4>1, UpStep
    <3>2. Rising' = Parent(c) /\ Sinking' = -1
      BY <1>1, <2>1 DEF Rising, Sinking
    <3> QED
      BY <1>1, <1>2, <1>3, <2>1, <3>1, <3>2 DEF HeapInv, n
  <2>2. CASE ~rises
    <3>1. Ordered(heap', n, -1, -1)
      <4>1. ASSUME NEW i \in 1 .. n - 1 PROVE Above(heap, i)
        <5>1. CASE i = c
          <6>1. heap[c].score \in Int /\ heap[Parent(c)].score \in Int
            BY <1>2, <5>1 DEF Scores
          <6> QED
            BY <1>2, <2>2, <5>1, <6>1 DEF Above
        <5>2. CASE i # c
          BY <1>2, <1>3, <5>2, ParentFacts DEF Ordered
        <5> QED
          BY <5>1, <5>2
      <4> QED
        BY <1>1, <2>2, <4>1 DEF Ordered
    <3>2. Rising' = -1 /\ Sinking' = -1 /\ search' = "scan" /\ current' = c
      BY <1>1, <2>2 DEF Rising, Sinking, c
    <3> QED
      BY <1>1, <1>2, <1>3, <3>1, <3>2 DEF HeapInv, n
  <2> QED
    BY <2>1, <2>2
<1> QED
  BY <1>4, <1>5, <1>6

(* A candidate sinks. *)
LEMMA HeapifyDownKeeps ==
  ASSUME ListInv, KeptInv, HeapInv, HeapifyDown, UNCHANGED offered
  PROVE  ListInv' /\ KeptInv' /\ HeapInv'
<1> DEFINE n == HeapLen
           c == current
           left == Left(c)
           right == Right(c)
           down == IF left < n /\ heap[left].score < heap[c].score THEN left ELSE c
           s == IF right < n /\ heap[right].score < heap[down].score THEN right ELSE down
<1>1. /\ search = "down" /\ UNCHANGED <<todo, heap_size, len_unsorted, offered>>
      /\ IF s # c THEN heap' = Swapped(heap, s, c) /\ current' = s /\ search' = "down"
         ELSE search' = (IF todo = << >> THEN "sort" ELSE "add") /\ UNCHANGED <<heap, current>>
  BY DEF HeapifyDown, Exchanged, Swapped, Sorting, HeapLen, SortBegun
<1>2. /\ heap_size \in Nat /\ n \in 0 .. heap_size /\ c \in Nat /\ Array(heap, HeapPlaces)
      /\ 0 .. heap_size - 1 \subseteq HeapPlaces
      /\ \A i \in 0 .. n - 1 : heap[i].score \in Int
  BY InUse DEF HeapInv, KeptInv, Scores
<1>3. Ordered(heap, n, -1, c) /\ Bridged(heap, n, c)
  BY <1>1 DEF HeapInv, Rising, Sinking
<1>4. /\ search' \in {"down", "sort", "add"} /\ HeapLen' = n
      /\ (SortBegun <=> todo = << >>) /\ (SortBegun' <=> SortBegun)
      /\ (Replacing <=> todo # << >>) /\ (Replacing' <=> Replacing)
  BY <1>1 DEF HeapLen, SortBegun, Replacing
<1>5. /\ left \in Nat /\ right \in Nat /\ c < left /\ left < right
      /\ Parent(left) = c /\ Parent(right) = c
      /\ \A i \in 1 .. n - 1 : Parent(i) = c => i \in {left, right}
  BY <1>2, ParentFacts
<1> HIDE DEF n, c, left, right
<1>6. CASE s # c
  <2>1. /\ s \in 1 .. n - 1 /\ Parent(s) = c /\ heap[s].score < heap[c].score
        /\ \A i \in {left, right} : i < n => heap[s].score <= heap[i].score
        /\ c \in 0 .. n - 1
    BY <1>2, <1>5, <1>6
  <2>2. heap' = Swapped(heap, s, c) /\ current' = s /\ search' = "down"
    BY <1>1, <1>6
  <2> HIDE DEF s
  <2>3. \A i \in 1 .. n - 1 : Parent(i) = c => heap[s].score <= heap[i].score
    <3> TAKE i \in 1 .. n - 1
    <3> HAVE Parent(i) = c
    <3>1. i \in {left, right} /\ i < n
      BY <1>2, <1>5
    <3> QED
      BY <2>1, <3>1
  <2>4. s \in 0 .. heap_size - 1 /\ c \in 0 .. heap_size - 1 /\ s \in 0 .. n - 1 /\ s > 0
    BY <1>2, <2>1
  <2>5. Ordered(heap', n, -1, s) /\ Bridged(heap', n, s)
    <3>1. n \in Nat /\ 0 .. n - 1 \subseteq HeapPlaces /\ Scores(heap, n)
      BY <1>2 DEF Scores
    <3> QED
      BY <1>2, <1>3, <2>1, <2>2, <2>3, <2>4, <3>1, DownStep
  <2>6. SortBegun => WorstLast(heap', len_unsorted, heap_size)
    <3> SUFFICES ASSUME SortBegun PROVE WorstLast(heap', len_unsorted, heap_size)
      OBVIOUS
    <3>1. len_unsorted = n /\ WorstLast(heap, n, heap_size)
      BY DEF HeapInv, HeapLen, n
    <3> QED
      BY <1>2, <2>1, <2>2, <2>4, <3>1, SwapBefore
  <2>7. ListInv'
    BY <1>1, <2>2 DEF ListInv
  <2>8. KeptInv'
    BY <1>1, <1>4, <2>2, <2>4, SameCandidates
  <2>9. Rising' = -1 /\ Sinking' = s
    BY <2>2 DEF Rising, Sinking
  <2>10. HeapInv'
    BY <1>1, <1>2, <1>4, <2>1, <2>2, <2>5, <2>6, <2>9 DEF HeapInv
  <2> QED
    BY <2>7, <2>8, <2>10
<1>7. CASE s = c
  <2>1. \A i \in {left, right} : i < n => heap[c].score <= heap[i].score
    BY <1>2, <1>5, <1>7
  <2>2. search' = (IF todo = << >> THEN "sort" ELSE "add") /\ UNCHANGED <<heap, current>>
    BY <1>1, <1>7
  <2> HIDE DEF s
  <2>3. Ordered(heap', n, -1, -1)
    <3>1. \A i \in 1 .. n - 1 : Parent(i) = c => Above(heap, i)
      BY <1>2, <1>5, <2>1 DEF Above
    <3> QED
      BY <1>3, <2>2, <3>1 DEF Ordered
  <2>4. ListInv'
    BY <1>1, <2>2 DEF ListInv
  <2>5. KeptInv'
    BY <1>1, <1>4, <2>2, SameCandidates
  <2>6. Rising' = -1 /\ Sinking' = -1
    BY <2>2 DEF Rising, Sinking
  <2>7. SortBegun => WorstLast(heap, len_unsorted, heap_size)
    BY DEF HeapInv
  <2>8. current \in Nat
    BY <1>2 DEF c
  <2>9. HeapInv'
    BY <1>1, <1>2, <1>4, <2>2, <2>3, <2>6, <2>7, <2>8 DEF HeapInv
  <2> QED
    BY <2>4, <2>5, <2>9
<1> QED
  BY <1>6, <1>7

(* The steps of the sort *)
LEMMA SortKeeps ==
  ASSUME ListInv, KeptInv, HeapInv, SortBegins \/ SortWorst \/ SortEnds, UNCHANGED offered
  PROVE  ListInv' /\ KeptInv' /\ HeapInv'
<1>1. CASE SortBegins
  <2>1. /\ search = "scan" /\ todo = << >> /\ len_unsorted' = heap_size /\ search' = "sort"
        /\ UNCHANGED <<todo, heap, heap_size, current>>
    BY <1>1 DEF SortBegins
  <2>2. ~Replacing /\ ~Replacing' /\ ~SortBegun /\ SortBegun'
    BY <2>1 DEF Replacing, SortBegun
  <2>3. HeapLen = heap_size /\ HeapLen' = heap_size
    BY <2>1, <2>2 DEF HeapLen
  <2>4. ListInv'
    BY <2>1 DEF ListInv
  <2>5. KeptInv'
    BY <2>1, <2>2, SameCandidates
  <2>6. heap_size \in Nat /\ WorstLast(heap, heap_size, heap_size)
    BY InUse DEF WorstLast
  <2>7. Rising' = Rising /\ Sinking' = Sinking
    BY <2>1 DEF Rising, Sinking
  <2>8. HeapInv'
    BY <2>1, <2>2, <2>3, <2>6, <2>7 DEF HeapInv
  <2> QED
    BY <2>4, <2>5, <2>8
<1>2. CASE SortWorst
  <2> DEFINE n == len_unsorted
  <2>1. /\ search = "sort" /\ n > 1 /\ heap' = Swapped(heap, 0, n - 1) /\ len_unsorted' = n - 1
        /\ current' = 0 /\ search' = "down" /\ UNCHANGED <<todo, heap_size>>
    BY <1>2 DEF SortWorst, Exchanged, Swapped
  <2>2. todo = << >> /\ ~Replacing /\ ~Replacing' /\ SortBegun /\ SortBegun'
    BY <2>1 DEF ListInv, Replacing, SortBegun
  <2>3. /\ HeapLen = n /\ HeapLen' = n - 1 /\ heap_size \in Nat /\ n \in 2 .. heap_size
        /\ Array(heap, HeapPlaces) /\ 0 .. heap_size - 1 \subseteq HeapPlaces
        /\ WorstLast(heap, n, heap_size)
    BY <2>1, <2>2, InUse DEF HeapLen, HeapInv, KeptInv
  <2>4. /\ \A i \in 1 .. n - 1 :
              Parent(i) \in 0 .. n - 1 /\ Parent(i) < i /\ heap[Parent(i)].score <= heap[i].score
        /\ \A i \in 0 .. n - 1 : heap[0].score <= heap[i].score
    BY <2>1, <2>3, WholeHeap DEF Above
  <2>5. heap'[0] = heap[n - 1] /\ heap'[n - 1] = heap[0]
        /\ \A i \in (0 .. heap_size - 1) \ {0, n - 1} : heap'[i] = heap[i]
    <3>1. 0 \in 0 .. heap_size - 1 /\ n - 1 \in 0 .. heap_size - 1
      BY <2>3
    <3>2. \A i \in HeapPlaces \ {0, n - 1} : heap'[i] = heap[i]
      BY <2>1, <2>3, <3>1, SwapKeeps
    <3>3. heap'[0] = heap[n - 1] /\ heap'[n - 1] = heap[0]
      BY <2>1, <2>3, <3>1, SwapKeeps
    <3> QED
      BY <2>3, <3>2, <3>3
  <2>6. ListInv'
    BY <2>1, <2>2 DEF ListInv
  <2>7. KeptInv'
    <3>1. 0 \in 0 .. heap_size - 1 /\ n - 1 \in 0 .. heap_size - 1
      BY <2>3
    <3> QED
      BY <2>1, <2>2, <3>1, SameCandidates
  <2>8. Ordered(heap', n - 1, -1, 0) /\ Bridged(heap', n - 1, 0)
    <3>1. ASSUME NEW i \in 1 .. n - 2, Parent(i) # 0 PROVE heap'[Parent(i)].score <= heap'[i].score
      <4>1. i \in 1 .. n - 1 /\ Parent(i) \in 1 .. n - 2
        BY <2>3, <2>4, <3>1
      <4>2. heap'[i] = heap[i] /\ heap'[Parent(i)] = heap[Parent(i)]
        BY <2>3, <2>5, <4>1
      <4> QED
        BY <2>4, <4>1, <4>2
    <3> QED
      BY <2>3, <3>1 DEF Ordered, Bridged, Above
  <2>9. WorstLast(heap', n - 1, heap_size)
    <3>1. WorstLast(heap', n, heap_size)
      <4>1. 0 \in 0 .. n - 1 /\ n - 1 \in 0 .. n - 1 /\ n \in 0 .. heap_size
        BY <2>3
      <4> QED
        BY <2>1, <2>3, <4>1, SwapBefore
    <3>2. ASSUME NEW j \in 0 .. n - 2 PROVE heap'[j].score >= heap'[n - 1].score
      <4>1. \E i \in 0 .. n - 1 : heap'[j] = heap[i]
        BY <2>3, <2>5
      <4> QED
        BY <2>4, <2>5, <4>1
    <3> QED
      BY <2>3, <3>1, <3>2 DEF WorstLast
  <2>10. Rising' = -1 /\ Sinking' = 0
    BY <2>1 DEF Rising, Sinking
  <2>11. HeapInv'
    BY <2>1, <2>2, <2>3, <2>8, <2>9, <2>10 DEF HeapInv
  <2> QED
    BY <2>6, <2>7, <2>11
<1>3. CASE SortEnds
  <2>1. /\ search = "sort" /\ len_unsorted <= 1 /\ search' = "found"
        /\ UNCHANGED <<todo, heap, heap_size, len_unsorted, current>>
    BY <1>3 DEF SortEnds
  <2>2. todo = << >> /\ ~Replacing /\ ~Replacing' /\ SortBegun /\ SortBegun'
    BY <2>1 DEF ListInv, Replacing, SortBegun
  <2>3. ListInv'
    BY <2>1, <2>2 DEF ListInv
  <2>4. KeptInv'
    BY <2>1, <2>2, SameCandidates
  <2>5. HeapLen' = HeapLen /\ Rising' = Rising /\ Sinking' = Sinking
    BY <2>1, <2>2 DEF HeapLen, Rising, Sinking
  <2>6. HeapInv'
    BY <2>1, <2>2, <2>5 DEF HeapInv
  <2> QED
    BY <2>3, <2>4, <2>6
<1> QED
  BY <1>1, <1>2, <1>3

(* Every step of the search keeps the invariant, *)
LEMMA SearchKeeps ==
  ASSUME SearchInv, ftx_find_candidates, UNCHANGED offered
  PROVE  SearchInv'
<1>1. search # "idle"
  BY DEF ftx_find_candidates, RemoveWorst, AddCandidate, PassCandidate, HeapifyUp,
         SortBegins, SortWorst, SortEnds, HeapifyDown
<1>2. ListInv /\ KeptInv /\ HeapInv
  BY <1>1 DEF SearchInv
<1> QED
  BY <1>2, RemoveWorstKeeps, AddCandidateKeeps, PassCandidateKeeps, HeapifyUpKeeps,
     HeapifyDownKeeps, SortKeeps DEF ftx_find_candidates, SearchInv

(* and the invariant of a finished search is what it is for. *)
LEMMA FoundBestFirst ==
  ASSUME SearchInv
  PROVE  BestFirst
<1> DEFINE n == heap_size
           good == {c \in Range(offered) : Worth(c)}
           kept == {heap[i] : i \in 0 .. n - 1}
<1> SUFFICES ASSUME search = "found"
             PROVE  /\ n = Min({num_candidates, Cardinality(good)})
                    /\ Cardinality(kept) = n /\ kept \subseteq good
                    /\ \A i, j \in 0 .. n - 1 : i < j => heap[i].score >= heap[j].score
                    /\ \A c \in good \ kept : \A k \in kept : c.score <= k.score
  BY DEF BestFirst
<1>1. ListInv /\ KeptInv /\ HeapInv /\ todo = << >>
  BY DEF SearchInv, ListInv
<1>2. n \in 0 .. num_candidates /\ n \in Nat /\ num_candidates \in Nat /\ Distinct(heap, n)
  BY <1>1, SearchAssumption DEF KeptInv
<1>3. kept = Kept /\ Kept \subseteq {c \in Seen : Worth(c)}
  BY <1>1 DEF Kept, Contents, KeptInv
<1>4. Seen = Range(offered) /\ IsFiniteSet(Seen)
  <2>1. Len(offered) \in Nat /\ DOMAIN offered = 1 .. Len(offered)
    BY <1>1 DEF ListInv, Listed
  <2>2. Seen = {offered[i] : i \in 1 .. Len(offered)}
    BY <1>1, <2>1 DEF Seen
  <2>3. IsFiniteSet({offered[i] : i \in 1 .. Len(offered)})
    <3> DEFINE N == Len(offered)
               T == {offered[i] : i \in 1 .. N}
    <3>1. offered \in [1 .. N -> T] /\ \A y \in T : \E i \in 1 .. N : offered[i] = y
      BY <1>1, <2>1 DEF ListInv, Listed
    <3>2. offered \in Surjection(1 .. N, T)
      BY <3>1 DEF Surjection
    <3>3. IsFiniteSet(1 .. N)
      BY <2>1, FS_Interval
    <3> HIDE DEF T
    <3>4. IsFiniteSet(T)
      BY <3>2, <3>3, FS_Surjection
    <3> QED
      BY <3>4 DEF T
  <2> QED
    BY <2>1, <2>2, <2>3 DEF Range
<1>5. \A c \in good \ kept : n = num_candidates /\ \A k \in kept : c.score <= k.score
  <2>1. good \ kept = LeftOut /\ ~Replacing
    BY <1>3, <1>4 DEF LeftOut, Replacing
  <2> QED
    BY <1>1, <1>3, <2>1 DEF KeptInv
<1>6. Cardinality(kept) = n
  <2> DEFINE f == [i \in 1 .. n |-> heap[i - 1]]
  <2>1. f \in Bijection(1 .. n, kept)
    <3>1. f \in [1 .. n -> kept] /\ \A i \in 1 .. n : f[i] = heap[i - 1]
      BY <1>2
    <3> HIDE DEF f
    <3>2. \A i, j \in 1 .. n : f[i] = f[j] => i = j
      <4> TAKE i, j \in 1 .. n
      <4> HAVE f[i] = f[j]
      <4>1. i - 1 \in 0 .. n - 1 /\ j - 1 \in 0 .. n - 1 /\ heap[i - 1] = heap[j - 1]
        BY <1>2, <3>1
      <4>2. i - 1 = j - 1
        BY <1>2, <4>1 DEF Distinct
      <4> QED
        BY <1>2, <4>2
    <3>3. ASSUME NEW k \in kept PROVE \E i \in 1 .. n : f[i] = k
      <4>1. PICK i \in 0 .. n - 1 : heap[i] = k
        OBVIOUS
      <4>2. i + 1 \in 1 .. n /\ f[i + 1] = k
        BY <1>2, <3>1, <4>1
      <4> QED
        BY <4>2
    <3> HIDE DEF kept
    <3>4. f \in Injection(1 .. n, kept)
      BY <3>1, <3>2 DEF Injection, IsInjective
    <3>5. f \in Surjection(1 .. n, kept)
      BY <3>1, <3>3 DEF Surjection
    <3> QED
      BY <3>4, <3>5 DEF Bijection
  <2> HIDE DEF f, kept
  <2>2. ExistsBijection(1 .. n, kept)
    BY <2>1 DEF ExistsBijection
  <2>3. IsFiniteSet(1 .. n) /\ Cardinality(1 .. n) = n
    BY <1>2, FS_Interval
  <2> QED
    BY <2>2, <2>3, FS_Bijection
<1>7. n = Min({num_candidates, Cardinality(good)})
  <2>1. IsFiniteSet(good) /\ kept \subseteq good
    BY <1>3, <1>4, FS_Subset
  <2> HIDE DEF good, kept
  <2>2. Cardinality(good) \in Nat /\ n <= Cardinality(good)
    BY <1>6, <2>1, FS_CardinalityType, FS_Subset
  <2>3. n = num_candidates \/ n = Cardinality(good)
    BY <1>5, <1>6, <2>1
  <2> DEFINE T == {num_candidates, Cardinality(good)}
             m == Min(T)
  <2>4. T \in SUBSET Nat /\ T # {}
    BY <1>2, <2>2
  <2>5. m \in T /\ \A y \in T : m <= y
    BY <2>4, LeastNatural
  <2> HIDE DEF m
  <2>6. n = m
    BY <1>2, <2>2, <2>3, <2>5
  <2> QED
    BY <2>6 DEF m
<1>8. \A i, j \in 0 .. n - 1 : i < j => heap[i].score >= heap[j].score
  <2>1. WorstLast(heap, len_unsorted, n) /\ len_unsorted \in 0 .. n /\ len_unsorted <= 1
    BY <1>1 DEF HeapInv, SortBegun, HeapLen
  <2> QED
    BY <1>2, <2>1 DEF WorstLast
<1> QED
  BY <1>3, <1>4, <1>5, <1>6, <1>7, <1>8


-----------------------------------------------------------------------------
(* What the search is given *)

(* Dividing twice is dividing by the product. *)
LEMMA DivideTwice ==
  ASSUME NEW m \in Nat, NEW a \in Nat \ {0}, NEW b \in Nat \ {0}
  PROVE  m \div (b * a) = (m \div a) \div b
<1> DEFINE u == m \div a
           r == m % a
           v == u \div b
           w == u % b
<1>1. u \in Nat /\ r \in 0 .. a - 1 /\ m = a * u + r
  OBVIOUS
<1> HIDE DEF u, r
<1>2. v \in Nat /\ w \in 0 .. b - 1 /\ u = b * v + w
  BY <1>1
<1> HIDE DEF v, w
<1>3. b * a \in Nat \ {0}
  OBVIOUS
<1>4. a * w + r \in 0 .. b * a - 1
  <2>1. PICK t \in Nat : b = w + 1 + t
    BY <1>2
  <2>2. a * b = a * w + a + a * t /\ a * t \in Nat /\ a * w \in Nat
    BY <1>2, <2>1
  <2> QED
    BY <1>1, <2>2
<1>5. m = (b * a) * v + (a * w + r)
  BY <1>1, <1>2
<1>6. ((b * a) * v + (a * w + r)) \div (b * a) = v
  BY <1>2, <1>3, <1>4, Remainder
<1> QED
  BY <1>5, <1>6 DEF u, v

Magnitudes == [0 .. NUM_BLOCKS * block_stride - 1 -> Int]

(* The waterfall is an array of numbers. *)
LEMMA WaterfallType ==
  ASSUME NEW t, NEW place
  PROVE  Waterfall(t, place) \in Magnitudes
<1>1. ASSUME NEW h, NEW f PROVE Strength(t, place, h, f) \in {Low, Mid, High}
  BY DEF Strength
<1>2. {Low, Mid, High} \subseteq Int
  BY SignalAssumption
<1> QED
  BY <1>1, <1>2 DEF Waterfall, Magnitudes

(* Where the search looks, *)
ScanPlaces ==
    [freq_offset : 0 .. NUM_BIN - 8, time_offset : -10 .. 19, freq_sub : 0 .. 1, time_sub : 0 .. 1]

(* each place once. *)
LEMMA ScanOrderFacts ==
  /\ K_TIME_OSR * K_FREQ_OSR * 30 * Offsets \in Nat
  /\ \A n \in DOMAIN ScanOrder : ScanOrder[n] \in ScanPlaces
  /\ \A m, n \in DOMAIN ScanOrder : ScanOrder[m] = ScanOrder[n] => m = n
<1> DEFINE O == Offsets
           N == K_TIME_OSR * K_FREQ_OSR * 30 * O
<1>1. O \in Nat \ {0} /\ O = NUM_BIN - 7
  BY SignalAssumption DEF Offsets
<1> HIDE DEF O
<1>2. N = 120 * O /\ N \in Nat
  BY <1>1 DEF K_TIME_OSR, K_FREQ_OSR
<1> HIDE DEF N
<1>3. DOMAIN ScanOrder = 1 .. N
  BY DEF ScanOrder, N, O
<1>4. ASSUME NEW n \in 1 .. N
      PROVE  LET u == (n - 1) \div O
             IN  /\ u \in 0 .. 119 /\ n - 1 = O * u + ((n - 1) % O) /\ (n - 1) % O \in 0 .. O - 1
                 /\ ScanOrder[n] = [freq_offset |-> (n - 1) % O, time_offset |-> (u % 30) - 10,
                                    freq_sub |-> (u \div 30) % 2, time_sub |-> u \div 60]
  <2> DEFINE m == n - 1
             u == m \div O
             r == m % O
  <2>1. m \in Nat /\ m < 120 * O
    BY <1>2
  <2> HIDE DEF m
  <2>2. u \in Nat /\ r \in 0 .. O - 1 /\ m = O * u + r
    BY <1>1, <2>1
  <2>3. m \div (30 * O) = u \div 30 /\ m \div (60 * O) = u \div 60
    BY <1>1, <2>1, DivideTwice
  <2>4. 30 * O * K_FREQ_OSR = 60 * O
    BY <1>1 DEF K_FREQ_OSR
  <2>5. ScanOrder[n] = [freq_offset |-> r, time_offset |-> (u % 30) - 10,
                        freq_sub |-> (m \div (30 * O)) % 2, time_sub |-> m \div (60 * O)]
    BY <1>3, <2>4 DEF ScanOrder, O, m, N, K_FREQ_OSR
  <2> HIDE DEF u, r
  <2>6. u <= 119
    <3> SUFFICES ASSUME u >= 120 PROVE FALSE
      BY <2>2
    <3>1. PICK t \in Nat : u = 120 + t
      BY <2>2
    <3>2. O * u = 120 * O + O * t /\ O * t \in Nat
      BY <1>1, <3>1
    <3> QED
      BY <1>1, <2>1, <2>2, <3>2
  <2> QED
    BY <2>2, <2>3, <2>5, <2>6 DEF m, u, r
<1>5. ASSUME NEW n \in 1 .. N PROVE ScanOrder[n] \in ScanPlaces
  <2> DEFINE u == (n - 1) \div O
             r == (n - 1) % O
  <2>1. /\ u \in 0 .. 119 /\ r \in 0 .. O - 1
        /\ ScanOrder[n] = [freq_offset |-> r, time_offset |-> (u % 30) - 10,
                           freq_sub |-> (u \div 30) % 2, time_sub |-> u \div 60]
    BY <1>4
  <2> HIDE DEF u, r
  <2>2. (u % 30) - 10 \in -10 .. 19 /\ (u \div 30) % 2 \in 0 .. 1 /\ u \div 60 \in 0 .. 1
    BY <2>1
  <2>3. r \in 0 .. NUM_BIN - 8
    BY <1>1, <2>1, SignalAssumption
  <2> QED
    BY <2>1, <2>2, <2>3 DEF ScanPlaces
<1>6. ASSUME NEW m \in 1 .. N, NEW n \in 1 .. N, ScanOrder[m] = ScanOrder[n] PROVE m = n
  <2> DEFINE u == (m - 1) \div O
             v == (n - 1) \div O
             r == (m - 1) % O
             s == (n - 1) % O
  <2>1. /\ u \in 0 .. 119 /\ m - 1 = O * u + r
        /\ ScanOrder[m] = [freq_offset |-> r, time_offset |-> (u % 30) - 10,
                           freq_sub |-> (u \div 30) % 2, time_sub |-> u \div 60]
    BY <1>4
  <2>2. /\ v \in 0 .. 119 /\ n - 1 = O * v + s
        /\ ScanOrder[n] = [freq_offset |-> s, time_offset |-> (v % 30) - 10,
                           freq_sub |-> (v \div 30) % 2, time_sub |-> v \div 60]
    BY <1>4
  <2> HIDE DEF u, v, r, s
  <2>3. r = s /\ (u % 30) - 10 = (v % 30) - 10 /\ (u \div 30) % 2 = (v \div 30) % 2 /\ u \div 60 = v \div 60
    <3>1. /\ ScanOrder[m].freq_offset = r /\ ScanOrder[m].time_offset = (u % 30) - 10
          /\ ScanOrder[m].freq_sub = (u \div 30) % 2 /\ ScanOrder[m].time_sub = u \div 60
      BY <2>1
    <3>2. /\ ScanOrder[n].freq_offset = s /\ ScanOrder[n].time_offset = (v % 30) - 10
          /\ ScanOrder[n].freq_sub = (v \div 30) % 2 /\ ScanOrder[n].time_sub = v \div 60
      BY <2>2
    <3> QED
      BY <1>6, <3>1, <3>2
  <2>4. u = v
    BY <2>1, <2>2, <2>3
  <2> QED
    BY <1>2, <2>1, <2>2, <2>3, <2>4
<1> QED
  BY <1>2, <1>3, <1>5, <1>6 DEF N, O


(* A row of bins is one half bin of one half symbol: the place of bin e of *)
(* row r is inside the waterfall.                                          *)
LEMMA InsideWaterfall ==
  ASSUME NEW r \in 0 .. 367, NEW e \in 0 .. NUM_BIN - 1
  PROVE  NUM_BIN * r + e \in 0 .. NUM_BLOCKS * block_stride - 1
<1>1. NUM_BIN \in Nat
  BY SignalAssumption
<1>2. NUM_BLOCKS * block_stride = NUM_BIN * 368
  BY <1>1 DEF NUM_BLOCKS, block_stride, K_TIME_OSR, K_FREQ_OSR
<1>3. PICK t \in Nat : 367 = r + t
  OBVIOUS
<1>4. NUM_BIN * 368 = NUM_BIN * r + NUM_BIN * t + NUM_BIN /\ NUM_BIN * r \in Nat /\ NUM_BIN * t \in Nat
  BY <1>1, <1>3
<1> QED
  BY <1>1, <1>2, <1>4

(* The score of a place is a number: whatever it averages is read inside   *)
(* the waterfall.                                                          *)
LEMMA ScoreType ==
  ASSUME NEW m \in Magnitudes, NEW cand \in ScanPlaces
  PROVE  ft8_sync_score(m, cand) \in Int
<1> DEFINE block_abs(x) == cand.time_offset + FT8_SYNC_OFFSET * x[1] + x[2]
           inside  == {x \in (0 .. 2) \X (0 .. 6) : block_abs(x) \in 0 .. NUM_BLOCKS - 1}
           sm(x)   == kFT8_Costas_pattern[x[2]]
           at(x)   == get_cand_mag(cand) + (FT8_SYNC_OFFSET * x[1] + x[2]) * block_stride + sm(x)
           near(x) == Neighbours(x[2], sm(x), block_abs(x))
           differences(x) == [d \in near(x) |-> m[at(x)] - m[at(x) + d]]
           score       == SumFunction([x \in inside |-> SumFunction(differences(x))])
           num_average == SumFunction([x \in inside |-> Cardinality(near(x))])
<1>1. ft8_sync_score(m, cand) = IF num_average = 0 THEN 0 ELSE Quotient(score, num_average)
  BY DEF ft8_sync_score
<1>2. /\ cand.freq_offset \in 0 .. NUM_BIN - 8 /\ cand.time_offset \in -10 .. 19
      /\ cand.freq_sub \in 0 .. 1 /\ cand.time_sub \in 0 .. 1 /\ NUM_BIN \in Nat
  BY SignalAssumption DEF ScanPlaces
<1>3. ASSUME NEW x \in inside
      PROVE  /\ x[1] \in 0 .. 2 /\ x[2] \in 0 .. 6 /\ block_abs(x) \in 0 .. 91
             /\ sm(x) \in 0 .. 6 /\ IsFiniteSet(near(x))
  <2>1. x[1] \in 0 .. 2 /\ x[2] \in 0 .. 6 /\ block_abs(x) \in 0 .. 91
    BY DEF NUM_BLOCKS
  <2>2. sm(x) \in 0 .. 6
    <3>1. \A k \in 0 .. 6 : kFT8_Costas_pattern[k] \in 0 .. 6
      BY DEF kFT8_Costas_pattern
    <3> QED
      BY <2>1, <3>1
  <2>3. IsFiniteSet(near(x))
    <3> DEFINE four == {-1} \cup {1} \cup {-block_stride} \cup {block_stride}
    <3>1. near(x) \in SUBSET four
      BY DEF Neighbours
    <3>2. IsFiniteSet(four)
      BY FS_Singleton, FS_Union
    <3> HIDE DEF four
    <3> QED
      BY <3>1, <3>2, FS_Subset
  <2> QED
    BY <2>1, <2>2, <2>3
<1>4. ASSUME NEW x \in inside
      PROVE  m[at(x)] \in Int /\ \A d \in near(x) : m[at(x) + d] \in Int
  <2> DEFINE b == block_abs(x)
             k == x[2]
             t == sm(x)
             r == 4 * b + 2 * cand.time_sub + cand.freq_sub
             e == cand.freq_offset + t
  <2>1. /\ x[1] \in 0 .. 2 /\ k \in 0 .. 6 /\ b \in 0 .. 91 /\ t \in 0 .. 6
    BY <1>3
  <2>2. at(x) = NUM_BIN * r + e
    <3> DEFINE q == x[1]
               z == t
               o == cand.time_offset
               p == cand.time_sub
               f == cand.freq_sub
               g == cand.freq_offset
               N == NUM_BIN
    <3>1. at(x) = ((o * 2 + p) * 2 + f) * N + g + (36 * q + k) * (2 * 2 * N) + z
      BY DEF get_cand_mag, FT8_SYNC_OFFSET, block_stride, K_TIME_OSR, K_FREQ_OSR
    <3>2. b = o + 36 * q + k
      BY DEF FT8_SYNC_OFFSET
    <3>3. q \in Int /\ k \in Int /\ z \in Int /\ o \in Int /\ p \in Int /\ f \in Int /\ g \in Int /\ N \in Int
      BY <1>2, <2>1
    <3>4. r = 4 * b + 2 * p + f /\ e = g + z
      OBVIOUS
    <3> HIDE DEF q, k, z, o, p, f, g, N, b, r, e, at
    <3>5. r = 4 * (o + 36 * q + k) + 2 * p + f
      BY <3>2, <3>4
    <3>6. ((o * 2 + p) * 2 + f) * N + g + (36 * q + k) * (2 * 2 * N) + z
            = N * (4 * (o + 36 * q + k) + 2 * p + f) + (g + z)
      BY <3>3
    <3>7. at(x) = N * r + e
      BY <3>1, <3>4, <3>5, <3>6
    <3> QED
      BY <3>7 DEF N
  <2>3. r \in 0 .. 367 /\ e \in 0 .. NUM_BIN - 2 /\ block_stride = NUM_BIN * 4
    BY <1>2, <2>1 DEF block_stride, K_TIME_OSR, K_FREQ_OSR
  <2>4. \A i \in 0 .. 367 : \A j \in 0 .. NUM_BIN - 1 : m[NUM_BIN * i + j] \in Int
    BY InsideWaterfall DEF Magnitudes
  <2>5. m[at(x)] \in Int
    <3> HIDE DEF at, e, r
    <3>1. e \in 0 .. NUM_BIN - 1
      BY <1>2, <2>3
    <3> QED
      BY <2>2, <2>3, <2>4, <3>1
  <2>6. ASSUME NEW d \in near(x) PROVE m[at(x) + d] \in Int
    <3>1. \/ d = -1 /\ t > 0
          \/ d = 1
          \/ d = -block_stride /\ b > 0
          \/ d = block_stride /\ b + 1 < 92
      BY <2>6 DEF Neighbours, NUM_BLOCKS
    <3> HIDE DEF at, near, b, t
    <3>2. CASE d = -1 /\ t > 0
      <4>1. e - 1 \in 0 .. NUM_BIN - 1
        BY <1>2, <2>1, <2>3, <3>2
      <4> HIDE DEF e, r
      <4>2. at(x) + d = NUM_BIN * r + (e - 1)
        BY <1>2, <2>2, <2>3, <3>2
      <4> QED
        BY <2>3, <2>4, <4>1, <4>2
    <3>3. CASE d = 1
      <4> HIDE DEF e, r
      <4>1. e + 1 \in 0 .. NUM_BIN - 1
        BY <1>2, <2>3
      <4>2. at(x) + d = NUM_BIN * r + (e + 1)
        BY <1>2, <2>2, <2>3, <3>3
      <4> QED
        BY <2>3, <2>4, <4>1, <4>2
    <3>4. CASE d = -block_stride /\ b > 0
      <4>1. r - 4 \in 0 .. 367
        BY <1>2, <2>1, <2>3, <3>4
      <4> HIDE DEF e, r
      <4>2. at(x) + d = NUM_BIN * (r - 4) + e
        BY <1>2, <2>2, <2>3, <3>4
      <4>3. e \in 0 .. NUM_BIN - 1
        BY <1>2, <2>3
      <4> QED
        BY <2>4, <4>1, <4>2, <4>3
    <3>5. CASE d = block_stride /\ b + 1 < 92
      <4>0. b \in 0 .. 90 /\ cand.time_sub \in 0 .. 1 /\ cand.freq_sub \in 0 .. 1
        BY <1>2, <2>1, <3>5
      <4>1. r + 4 \in 0 .. 367
        BY <4>0
      <4> HIDE DEF e, r
      <4>2. at(x) + d = NUM_BIN * (r + 4) + e
        BY <1>2, <2>2, <2>3, <3>5
      <4>3. e \in 0 .. NUM_BIN - 1
        BY <1>2, <2>3
      <4> QED
        BY <2>4, <4>1, <4>2, <4>3
    <3> QED
      BY <3>1, <3>2, <3>3, <3>4, <3>5
  <2> QED
    BY <2>5, <2>6
<1>5. IsFiniteSet(inside)
  <2>1. IsFiniteSet((0 .. 2) \X (0 .. 6))
    <3>1. \A n \in Int : IsFiniteSet(0 .. n)
      BY FS_Interval
    <3>4. 2 \in Int /\ 6 \in Int
      OBVIOUS
    <3> DEFINE A == 0 .. 2
               B == 0 .. 6
    <3>2. IsFiniteSet(A) /\ IsFiniteSet(B)
      BY <3>1, <3>4, Zenon
    <3> HIDE DEF A, B
    <3>3. IsFiniteSet(A \X B)
      BY <3>2, FS_Product
    <3> QED
      BY <3>3 DEF A, B
  <2>2. inside \in SUBSET ((0 .. 2) \X (0 .. 6))
    OBVIOUS
  <2> HIDE DEF inside
  <2> QED
    BY <2>1, <2>2, FS_Subset
<1> HIDE DEF block_abs, inside, sm, at, near
<1>6. score \in Int
  <2>1. ASSUME NEW x \in inside PROVE SumFunction(differences(x)) \in Int
    <3> DEFINE f == differences(x)
    <3>1. DOMAIN f = near(x) /\ \A d \in DOMAIN f : f[d] \in Int
      BY <1>4
    <3>2. IsFiniteSet(DOMAIN f)
      BY <1>3, <3>1
    <3> HIDE DEF f
    <3>3. SumFunction(f) \in Int
      BY <3>1, <3>2, SumType
    <3> QED
      BY <3>3 DEF f
  <2> DEFINE f == [x \in inside |-> SumFunction(differences(x))]
  <2> HIDE DEF differences
  <2>2. DOMAIN f = inside /\ \A x \in DOMAIN f : f[x] \in Int
    BY <2>1
  <2>3. score = SumFunction(f)
    OBVIOUS
  <2> HIDE DEF f, score
  <2> QED
    BY <1>5, <2>2, <2>3, SumType
<1>7. num_average \in Nat
  <2> DEFINE f == [x \in inside |-> Cardinality(near(x))]
  <2>1. DOMAIN f = inside /\ \A x \in DOMAIN f : f[x] \in Nat
    BY <1>3, FS_CardinalityType
  <2>2. num_average = SumFunction(f)
    OBVIOUS
  <2> HIDE DEF f, num_average
  <2> QED
    BY <1>5, <2>1, <2>2, SumType
<1> HIDE DEF score, num_average
<1>8. num_average # 0 => Quotient(score, num_average) \in Int
  BY <1>6, <1>7 DEF Quotient
<1> QED
  BY <1>1, <1>8


-----------------------------------------------------------------------------
(* A list of candidates, one of each place, can be searched. *)
LEMMA ListOf ==
  ASSUME NEW n \in Nat, NEW s, s = [i \in 1 .. n |-> s[i]],
         \A i, j \in 1 .. n : s[i].place = s[j].place => i = j, \A i \in 1 .. n : s[i].score \in Int
  PROVE  Listed(s)
<1>1. s \in Seq(Range(s)) /\ Len(s) = n
  <2>1. DOMAIN s = 1 .. n
    OBVIOUS
  <2>2. s \in [1 .. n -> Range(s)]
    BY <2>1 DEF Range
  <2> QED
    BY <2>2
<1> QED
  BY <1>1 DEF Listed

(* The search begins with an empty heap. *)
LEMMA SearchBeginsKeeps ==
  ASSUME Listed(offered'), SearchBegins(offered')
  PROVE  SearchInv'
<1>1. /\ search' = "scan" /\ todo' = offered' /\ heap' = [i \in HeapPlaces |-> NoCandidate]
      /\ heap_size' = 0 /\ len_unsorted' = 0 /\ current' = 0
  BY DEF SearchBegins
<1>2. Len(offered') \in Nat /\ offered' \in Seq(Range(offered'))
  BY DEF Listed
<1>3. ListInv'
  BY <1>1, <1>2 DEF ListInv
<1>4. Seen' = {} /\ Kept' = {} /\ LeftOut' = {} /\ ~Replacing' /\ ~SortBegun'
  BY <1>1, <1>2 DEF Seen, Kept, Contents, LeftOut, Replacing, SortBegun
<1>5. KeptInv'
  <2>1. Array(heap', HeapPlaces)
    BY <1>1 DEF Array
  <2>2. heap_size' \in 0 .. num_candidates /\ Distinct(heap', heap_size')
    BY <1>1, SearchAssumption DEF Distinct
  <2> QED
    BY <1>4, <2>1, <2>2 DEF KeptInv, HeapPlaces
<1>6. HeapInv'
  <2>1. HeapLen' = 0
    BY <1>1, <1>4 DEF HeapLen
  <2> QED
    BY <1>1, <1>4, <2>1 DEF HeapInv, Ordered, Bridged
<1> QED
  BY <1>3, <1>5, <1>6 DEF SearchInv

-----------------------------------------------------------------------------
(* The slot: the plan holds what it held, the search has a waterfall to    *)
(* read, and the decoder runs only when it is finished.                    *)
PlanInv ==
    /\ plan \in Seq(Range(plan))
    /\ \A t \in Range(plan) : Crowd(t) => t.scores \in Seq(Int)

PhaseInv ==
    /\ phase \in {"bp", "checked"} => search = "found"
    /\ phase = "search" /\ search = "idle" => mag \in Magnitudes

ReceptionInv == PlanInv /\ PhaseInv /\ SearchInv

(* The first slot *)
LEMMA ReceptionInit == Init => ReceptionInv
BY ReceptionAssumption DEF Init, SearchInit, ReceptionInv, PlanInv, PhaseInv, SearchInv, Crowd

(* What the search does not touch it knows nothing of. *)
LEMMA SearchUntouched ==
  ASSUME SearchInv, UNCHANGED <<searchVars, offered>>
  PROVE  SearchInv'
BY DEF searchVars, SearchInv, ListInv, KeptInv, HeapInv, Seen, Kept, LeftOut, Replacing, SortBegun,
       HeapLen, Rising, Sinking

(* The slots after the next one are as planned. *)
LEMMA PlanTail ==
  ASSUME PlanInv, plan # << >>
  PROVE  /\ Head(plan) \in Range(plan)
         /\ plan' = Tail(plan) => PlanInv'
<1> DEFINE S == Range(plan)
<1>1. Head(plan) \in S
  BY DEF PlanInv, Range
<1>2. ASSUME plan' = Tail(plan) PROVE PlanInv'
  <2>1. /\ Tail(plan) \in Seq(S) /\ Len(Tail(plan)) \in Nat
        /\ \A i \in 1 .. Len(Tail(plan)) : Tail(plan)[i] \in S
    BY DEF PlanInv
  <2>2. Range(Tail(plan)) \subseteq S
    BY <2>1 DEF Range
  <2>3. Tail(plan) \in Seq(Range(Tail(plan)))
    <3> DEFINE t == Tail(plan)
               n == Len(t)
    <3>3. t \in Seq(S)
      BY <2>1
    <3> HIDE DEF t
    <3>1. n \in Nat /\ t = [i \in 1 .. n |-> t[i]] /\ DOMAIN t = 1 .. n
      BY <3>3
    <3> HIDE DEF n
    <3>2. t \in [1 .. n -> Range(t)]
      BY <3>1 DEF Range
    <3>4. t \in Seq(Range(t))
      BY <3>1, <3>2
    <3> QED
      BY <3>4 DEF t
  <2> QED
    BY <1>2, <2>2, <2>3 DEF PlanInv
<1> QED
  BY <1>1, <1>2


(* Every step of a slot keeps the invariant, *)
LEMMA ReceptionNext ==
  ASSUME ReceptionInv, Next
  PROVE  ReceptionInv'
<1> USE DEF ReceptionInv
<1>1. CASE Transmit
  <2>1. plan # << >> /\ plan' = Tail(plan) /\ phase' \in {"air", "over"} /\ UNCHANGED <<searchVars, offered>>
    BY <1>1 DEF Transmit
  <2> QED
    BY <2>1, PlanTail, SearchUntouched DEF PhaseInv
<1>2. CASE Modulate
  <2>1. phase' = "waterfall" /\ UNCHANGED <<plan, searchVars, offered>>
    BY <1>2 DEF Modulate
  <2> QED
    BY <2>1, SearchUntouched DEF PhaseInv, PlanInv, Crowd
<1>3. CASE ft8_subsystem
  <2>1. /\ phase = "waterfall" /\ phase' = "search" /\ UNCHANGED <<plan, searchVars, offered>>
        /\ mag' \in Magnitudes
    BY <1>3, WaterfallType DEF ft8_subsystem
  <2> QED
    BY <2>1, SearchUntouched DEF PhaseInv, PlanInv, Crowd
<1>4. CASE FindBegins
  <2>1. phase = "search" /\ search = "idle" /\ offered' = Scored(mag) /\ SearchBegins(offered')
        /\ UNCHANGED <<plan, phase>>
    BY <1>4 DEF FindBegins, signalVars
  <2>2. Listed(Scored(mag))
    <3> DEFINE n == K_TIME_OSR * K_FREQ_OSR * 30 * Offsets
               s == Scored(mag)
    <3>1. mag \in Magnitudes
      BY <2>1 DEF PhaseInv
    <3>2. n \in Nat /\ DOMAIN ScanOrder = 1 .. n
      BY ScanOrderFacts DEF ScanOrder
    <3>3. s = [i \in DOMAIN ScanOrder |->
                 [place |-> ScanOrder[i], score |-> ft8_sync_score(mag, ScanOrder[i])]]
      BY DEF Scored
    <3>4. \A i \in DOMAIN ScanOrder : ScanOrder[i] \in ScanPlaces
      BY ScanOrderFacts
    <3>5. \A i, j \in DOMAIN ScanOrder : ScanOrder[i] = ScanOrder[j] => i = j
      BY ScanOrderFacts
    <3> HIDE DEF n
    <3>6. \A i \in 1 .. n : ft8_sync_score(mag, ScanOrder[i]) \in Int
      BY <3>1, <3>2, <3>4, ScoreType
    <3>7. /\ s = [i \in 1 .. n |-> s[i]]
          /\ \A i \in 1 .. n : s[i].place = ScanOrder[i] /\ s[i].score \in Int
      BY <3>2, <3>3, <3>6
    <3> HIDE DEF s
    <3>8. \A i, j \in 1 .. n : s[i].place = s[j].place => i = j
      BY <3>2, <3>5, <3>7
    <3>9. Listed(s)
      BY <3>2, <3>7, <3>8, ListOf
    <3> QED
      BY <3>9 DEF s
  <2>3. SearchInv'
    BY <2>1, <2>2, SearchBeginsKeeps
  <2>4. search' = "scan"
    BY <2>1 DEF SearchBegins
  <2> QED
    BY <2>1, <2>3, <2>4 DEF PhaseInv, PlanInv, Crowd
<1>5. CASE FindInCrowd
  <2> DEFINE scores == Head(plan).scores
             s == [i \in DOMAIN scores |-> [place |-> i, score |-> scores[i]]]
  <2>1. /\ plan # << >> /\ Crowd(Head(plan)) /\ plan' = Tail(plan)
        /\ offered' = s /\ SearchBegins(offered') /\ phase' = "search"
    BY <1>5 DEF FindInCrowd
  <2>2. scores \in Seq(Int)
    BY <2>1, PlanTail DEF PlanInv
  <2>3. Listed(s)
    <3> DEFINE n == Len(scores)
    <3> HIDE DEF scores
    <3>1. n \in Nat /\ DOMAIN scores = 1 .. n /\ \A i \in 1 .. n : scores[i] \in Int
      BY <2>2
    <3> HIDE DEF n
    <3>2. s = [i \in 1 .. n |-> s[i]] /\ \A i \in 1 .. n : s[i].place = i /\ s[i].score \in Int
      BY <3>1
    <3> HIDE DEF s
    <3>3. \A i, j \in 1 .. n : s[i].place = s[j].place => i = j
      BY <3>2
    <3> QED
      BY <3>1, <3>2, <3>3, ListOf
  <2> HIDE DEF s, scores
  <2>4. SearchInv'
    BY <2>1, <2>3, SearchBeginsKeeps
  <2>5. search' = "scan"
    BY <2>1 DEF SearchBegins
  <2> QED
    BY <2>1, <2>4, <2>5, PlanTail DEF PhaseInv
<1>6. CASE Find
  <2>1. ftx_find_candidates /\ UNCHANGED <<plan, mag, phase, offered>>
    BY <1>6 DEF Find, signalVars
  <2>2. SearchInv'
    BY <2>1, SearchKeeps
  <2>3. search # "found" /\ search' # "idle"
    BY <2>1 DEF ftx_find_candidates, RemoveWorst, AddCandidate, PassCandidate, HeapifyUp,
                SortBegins, SortWorst, SortEnds, HeapifyDown
  <2> QED
    BY <2>1, <2>2, <2>3 DEF PhaseInv, PlanInv, Crowd
<1>7. CASE TryCandidate
  <2>1. search = "found" /\ phase' = "bp" /\ UNCHANGED <<plan, searchVars, offered>>
    BY <1>7 DEF TryCandidate, signalVars
  <2>2. UNCHANGED search
    BY <2>1 DEF searchVars
  <2> QED
    BY <2>1, <2>2, SearchUntouched DEF PhaseInv, PlanInv, Crowd
<1>8. CASE bp_decode
  <2>1. phase = "bp" /\ phase' \in {"bp", "checked"} /\ UNCHANGED <<plan, searchVars, offered>>
    BY <1>8 DEF bp_decode, signalVars
  <2>2. UNCHANGED search
    BY <2>1 DEF searchVars
  <2> QED
    BY <2>1, <2>2, SearchUntouched DEF PhaseInv, PlanInv, Crowd
<1>9. CASE Refuse \/ Accept
  <2>1. phase = "checked" /\ phase' = "search" /\ UNCHANGED <<plan, searchVars, offered>>
    BY <1>9 DEF Refuse, Accept, signalVars
  <2>2. UNCHANGED search
    BY <2>1 DEF searchVars
  <2> QED
    BY <2>1, <2>2, SearchUntouched DEF PhaseInv, PlanInv, Crowd
<1>10. CASE SlotEnds
  <2>1. phase' = "over" /\ UNCHANGED <<plan, searchVars, offered>>
    BY <1>10 DEF SlotEnds, signalVars
  <2> QED
    BY <2>1, SearchUntouched DEF PhaseInv, PlanInv, Crowd
<1>11. CASE NextSlot
  BY <1>11 DEF NextSlot, PhaseInv, PlanInv, SearchInv, Crowd
<1>12. CASE Silence
  <2>1. UNCHANGED <<plan, mag, phase, searchVars, offered>>
    BY <1>12 DEF Silence, vars, signalVars
  <2>2. UNCHANGED search
    BY <2>1 DEF searchVars
  <2> QED
    BY <2>1, <2>2, SearchUntouched DEF PhaseInv, PlanInv, Crowd
<1> QED
  BY <1>1, <1>2, <1>3, <1>4, <1>5, <1>6, <1>7, <1>8, <1>9, <1>10, <1>11, <1>12 DEF Next

(* and so does none at all. *)
LEMMA ReceptionStutter ==
  ASSUME ReceptionInv, UNCHANGED vars
  PROVE  ReceptionInv'
<1>1. UNCHANGED <<plan, mag, phase, search, searchVars, offered>>
  BY DEF vars, signalVars, searchVars
<1> QED
  BY <1>1, SearchUntouched DEF ReceptionInv, PhaseInv, PlanInv, Crowd

(* ftx_find_candidates() returns the num_candidates best candidates of a   *)
(* waterfall, or all there are above K_MIN_SCORE, best first: for a heap   *)
(* of any size, any waterfall, and any crowd in any order.                 *)
THEOREM CandidatesAreBest == Spec => []BestFirst
<1>1. Init => ReceptionInv
  BY ReceptionInit
<1>2. ReceptionInv /\ [Next]_vars => ReceptionInv'
  BY ReceptionNext, ReceptionStutter
<1>3. ReceptionInv => BestFirst
  BY FoundBestFirst DEF ReceptionInv
<1> QED
  BY <1>1, <1>2, <1>3, PTL DEF Spec

-----------------------------------------------------------------------------
(* The end of bp_decode().  It goes on only after an iteration with        *)
(* errors, and so the fewest errors are none only when the last iteration  *)
(* had none.                                                               *)
LdpcInv ==
    /\ phase = "bp" => min_errors \in Nat \ {0}
    /\ CodewordsOnly

(* The failed parity checks are counted. *)
LEMMA ErrorsType == ASSUME NEW codeword PROVE ldpc_check(codeword) \in Nat
<1>1. \A n \in Int : IsFiniteSet(1 .. n)
  BY FS_Interval
<1>2. 83 \in Int
  OBVIOUS
<1> DEFINE checks == 1 .. 83
<1>3. IsFiniteSet(checks)
  BY <1>1, <1>2, Zenon
<1>4. ldpc_check(codeword) \in {Cardinality(s) : s \in SUBSET checks}
  BY DEF ldpc_check
<1> HIDE DEF checks
<1>5. \A s \in SUBSET checks : Cardinality(s) \in Nat
  BY <1>3, FS_Subset, FS_CardinalityType
<1> QED
  BY <1>4, <1>5

(* When bp_decode() reports no errors, the bits it returns are a codeword  *)
(* other than the word of zeros: for any number of iterations, whatever    *)
(* belief propagation guesses.                                             *)
THEOREM DecodedAreCodewords == Spec => []CodewordsOnly
<1>1. Init => LdpcInv
  BY DEF Init, LdpcInv, CodewordsOnly
<1>2. LdpcInv /\ [Next]_vars => LdpcInv'
  <2> SUFFICES ASSUME LdpcInv, [Next]_vars PROVE LdpcInv'
    OBVIOUS
  <2>1. CASE Transmit \/ Modulate \/ ft8_subsystem \/ FindInCrowd \/ SlotEnds \/ NextSlot \/ Refuse \/ Accept
    <3>1. phase' \in {"air", "over", "waterfall", "search", "idle"}
      BY <2>1 DEF Transmit, Modulate, ft8_subsystem, FindInCrowd, SlotEnds, NextSlot, Refuse, Accept
    <3> QED
      BY <3>1 DEF LdpcInv, CodewordsOnly
  <2>2. CASE FindBegins \/ Find \/ Silence \/ UNCHANGED vars
    <3>1. UNCHANGED <<phase, plain, min_errors>>
      BY <2>2 DEF FindBegins, Find, Silence, vars, ldpcVars
    <3> QED
      BY <3>1 DEF LdpcInv, CodewordsOnly
  <2>3. CASE TryCandidate
    <3>1. phase' = "bp" /\ min_errors' = 83
      BY <2>3 DEF TryCandidate
    <3> QED
      BY <3>1 DEF LdpcInv, CodewordsOnly
  <2>4. CASE bp_decode
    <3> DEFINE errors == ldpc_check(plain)
    <3>1. /\ phase = "bp" /\ min_errors \in Nat \ {0} /\ errors \in Nat
          /\ min_errors' = IF plain # {} /\ errors < min_errors THEN errors ELSE min_errors
      BY <2>4, ErrorsType DEF bp_decode, LdpcInv
    <3>2. \/ phase' = "checked" /\ UNCHANGED plain
          \/ phase' = "bp" /\ errors # 0
      BY <2>4 DEF bp_decode
    <3> HIDE DEF errors
    <3>3. CASE phase' = "checked" /\ UNCHANGED plain
      <4>1. min_errors' = 0 => plain # {} /\ errors = 0
        BY <3>1
      <4> QED
        BY <3>3, <4>1 DEF LdpcInv, CodewordsOnly, errors
    <3>4. CASE phase' = "bp" /\ errors # 0
      BY <3>1, <3>4 DEF LdpcInv, CodewordsOnly
    <3> QED
      BY <3>2, <3>3, <3>4
  <2> QED
    BY <2>1, <2>2, <2>3, <2>4 DEF Next
<1>3. LdpcInv => CodewordsOnly
  BY DEF LdpcInv
<1> QED
  BY <1>1, <1>2, <1>3, PTL DEF Spec
=============================================================================
