--------------------------- MODULE CandidateSearch --------------------------
(***************************************************************************)
(* ftx_find_candidates() of src/libft8/ft8/decode.c: the num_candidates    *)
(* best of the candidates of a waterfall are kept in a heap, the worst at  *)
(* its root, and sorted in place at the end.                               *)
(*                                                                         *)
(* One step is one iteration of a loop of the code: a candidate looked at, *)
(* an exchange on the way up or down the heap, an exchange of the sort.    *)
(***************************************************************************)
EXTENDS Integers, SequencesExt

CONSTANTS
    num_candidates,    \* places of the heap
    K_MIN_SCORE,       \* candidates below this score are left out
    NoCandidate        \* what an unused place holds

ASSUME SearchAssumption == num_candidates \in Nat \ {0} /\ K_MIN_SCORE \in Int

VARIABLES
    search,        \* idle, scan, add, up, sort, down, found
    todo,          \* candidates the scan has still to look at
    heap, heap_size, len_unsorted,
    current        \* the node heapify_up() or heapify_down() has come to

searchVars == <<search, todo, heap, heap_size, len_unsorted, current>>

HeapPlaces == 0 .. num_candidates - 1

SearchInit ==
    /\ search = "idle" /\ todo = << >>
    /\ heap = [i \in HeapPlaces |-> NoCandidate]
    /\ heap_size = 0 /\ len_unsorted = 0 /\ current = 0

(* The scan of a new waterfall *)
SearchBegins(candidates) ==
    /\ search' = "scan"
    /\ todo' = candidates
    /\ heap' = [i \in HeapPlaces |-> NoCandidate]
    /\ heap_size' = 0 /\ len_unsorted' = 0 /\ current' = 0

Exchanged(i, j) == [heap EXCEPT ![i] = heap[j], ![j] = heap[i]]

-----------------------------------------------------------------------------
(* The scan *)

Worth(c) == c.score >= K_MIN_SCORE
Better(c) == heap_size = num_candidates /\ c.score > heap[0].score

(* The heap is full and the worst makes room. *)
RemoveWorst ==
    /\ search = "scan" /\ todo # << >> /\ Worth(Head(todo)) /\ Better(Head(todo))
    /\ heap' = [heap EXCEPT ![0] = heap[heap_size - 1]]
    /\ heap_size' = heap_size - 1
    /\ current' = 0
    /\ search' = "down"
    /\ UNCHANGED <<todo, len_unsorted>>

(* Mutation: the new candidate stays where it was put. *)
AddCandidate_NoUp ==
    /\ search \in {"scan", "add"} /\ todo # << >>
    /\ Worth(Head(todo)) /\ heap_size < num_candidates
    /\ heap' = [heap EXCEPT ![heap_size] = Head(todo)]
    /\ heap_size' = heap_size + 1
    /\ current' = heap_size
    /\ todo' = Tail(todo)
    /\ search' = "scan"
    /\ UNCHANGED len_unsorted

AddCandidate ==
    /\ search \in {"scan", "add"} /\ todo # << >>
    /\ Worth(Head(todo)) /\ heap_size < num_candidates
    /\ heap' = [heap EXCEPT ![heap_size] = Head(todo)]
    /\ heap_size' = heap_size + 1
    /\ current' = heap_size
    /\ todo' = Tail(todo)
    /\ search' = "up"
    /\ UNCHANGED len_unsorted

PassCandidate ==
    /\ search = "scan" /\ todo # << >>
    /\ ~Worth(Head(todo)) \/ (heap_size = num_candidates /\ ~Better(Head(todo)))
    /\ todo' = Tail(todo)
    /\ UNCHANGED <<search, heap, heap_size, len_unsorted, current>>

HeapifyUp ==
    LET parent == (current - 1) \div 2
    IN /\ search = "up"
       /\ IF current > 0 /\ heap[current].score < heap[parent].score
          THEN /\ heap' = Exchanged(current, parent)
               /\ current' = parent
               /\ UNCHANGED search
          ELSE /\ search' = "scan"
               /\ UNCHANGED <<heap, current>>
       /\ UNCHANGED <<todo, heap_size, len_unsorted>>

-----------------------------------------------------------------------------
(* The sort: the worst goes behind what is left of the heap. *)

SortBegins ==
    /\ search = "scan" /\ todo = << >>
    /\ len_unsorted' = heap_size
    /\ search' = "sort"
    /\ UNCHANGED <<todo, heap, heap_size, current>>

SortWorst ==
    /\ search = "sort" /\ len_unsorted > 1
    /\ heap' = Exchanged(0, len_unsorted - 1)
    /\ len_unsorted' = len_unsorted - 1
    /\ current' = 0
    /\ search' = "down"
    /\ UNCHANGED <<todo, heap_size>>

SortEnds ==
    /\ search = "sort" /\ len_unsorted <= 1
    /\ search' = "found"
    /\ UNCHANGED <<todo, heap, heap_size, len_unsorted, current>>

(* Either loop calls heapify_down(): the sort after SortBegins, which left  *)
(* nothing to scan, and the scan before.                                   *)
Sorting == todo = << >>
Left(i) == 2 * i + 1
Right(i) == 2 * i + 2

HeapifyDown ==
    LET size == IF Sorting THEN len_unsorted ELSE heap_size
        left == Left(current)
        right == Right(current)
        down == IF left < size /\ heap[left].score < heap[current].score THEN left ELSE current
        smallest == IF right < size /\ heap[right].score < heap[down].score THEN right ELSE down
    IN /\ search = "down"
       /\ IF smallest # current
          THEN /\ heap' = Exchanged(smallest, current)
               /\ current' = smallest
               /\ UNCHANGED search
          ELSE /\ search' = IF Sorting THEN "sort" ELSE "add"
               /\ UNCHANGED <<heap, current>>
       /\ UNCHANGED <<todo, heap_size, len_unsorted>>

ftx_find_candidates ==
    \/ RemoveWorst \/ AddCandidate \/ PassCandidate \/ HeapifyUp
    \/ SortBegins \/ SortWorst \/ SortEnds \/ HeapifyDown
=============================================================================
