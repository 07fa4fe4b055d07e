--------------------------- MODULE DecoderProofs ----------------------------
(***************************************************************************)
(* Proofs about decode(): what the table of a slot keeps, for any number   *)
(* of candidates, any hashes and any size of the table.                    *)
(***************************************************************************)
EXTENDS Decoder, CallsignHashProofs, FiniteSetTheorems, SequenceTheorems, TLAPS

Messages == {c.msg : c \in Candidates}

(* The i-th place a probe for message m looks at. *)
Turn(m, i) == (m.hash + i) % K_MAX_MESSAGES

Entered == {p \in InSlot : decoded_hashtable[p] # NULL}
InTable(m) == \E p \in InSlot : decoded_hashtable[p] = m

(* Open addressing without removal: before a free place, the probe for a   *)
(* message of the table has come by the message.                           *)
Reached(m) ==
    \A i \in InSlot : decoded_hashtable[Turn(m, i)] = NULL =>
        \E j \in InSlot : j < i /\ decoded_hashtable[Turn(m, j)] = m

TableInv ==
    /\ decoded_hashtable \in [InSlot -> Messages \cup {NULL}]
    /\ \A p, q \in Entered : decoded_hashtable[p] = decoded_hashtable[q] => p = q
    /\ \A m \in Messages : InTable(m) => m \in heard /\ Reached(m)
    /\ \A m \in heard : InTable(m) \/ exit_flag \/ Entered = InSlot
    /\ heard \subseteq Messages /\ IsFiniteSet(heard)

(* A sequence, whatever it holds. *)
Sequence(s) == s \in Seq(Range(s))

Showing == pc \in {"infoFreq", "infoTest", "infoPeer"}

(* decode() leaves these messages aside. *)
LeftOut(m) ==
    ~m.ok \/ m.fields = << >> \/ (Len(m.fields) = 1 /\ m.fields[1].word \in StartsCQ)

Logged(m) == \E i \in DOMAIN log_queue : log_queue[i].from = m

LogInv ==
    /\ pc \in {"idle", "scan", "infoFreq", "infoTest", "infoPeer", "print", "done"}
    /\ Sequence(log_queue)
    /\ \A i, j \in DOMAIN log_queue : log_queue[i].from = log_queue[j].from => i = j
    /\ \A i \in DOMAIN log_queue : log_queue[i].from \in Messages /\ InTable(log_queue[i].from)
    /\ Showing => /\ cand.entry.from \in Messages
                  /\ InTable(cand.entry.from) /\ ~Logged(cand.entry.from)
    /\ \A m \in Messages : InTable(m) =>
          Logged(m) \/ LeftOut(m) \/ (Showing /\ cand.entry.from = m)
    /\ tick_queue # << >> => pc \in {"print", "done"}

(* The table of the slot has room for every spot. *)
CountInv == Sequence(decodes) /\ Len(decodes) <= Cardinality(Entered)

(* What InfoIsPeers needs of the three readings. *)
InfoInv ==
    /\ Sequence(qso_queue)
    /\ contact \in Contacts \cup {NoContact}
    /\ Showing => cand.freq \in Int /\ cand.entry.freq = cand.freq
    /\ steady /\ pc \in {"infoTest", "infoPeer"} => qsoFreq = contact.freq
    /\ steady /\ pc = "infoPeer" =>
          /\ contact # NoContact /\ thisSlot = contact.slot
          /\ cand.freq - contact.freq \in -50 .. 50
    /\ pc = "idle" => qso_queue = << >> /\ log_queue = << >>
    /\ InfoIsPeers

DecoderInv == TableInv /\ LogInv /\ CountInv /\ InfoInv

-----------------------------------------------------------------------------
(* Sequences *)

(* What Append does to a sequence, whatever it holds. *)
LEMMA Appended ==
  ASSUME NEW s, Sequence(s), NEW e
  PROVE  /\ Sequence(Append(s, e))
         /\ Len(Append(s, e)) = Len(s) + 1 /\ Len(s) \in Nat
         /\ DOMAIN s = 1 .. Len(s) /\ DOMAIN Append(s, e) = 1 .. Len(s) + 1
         /\ \A i \in 1 .. Len(s) : Append(s, e)[i] = s[i]
         /\ Append(s, e)[Len(s) + 1] = e
         /\ Append(s, e) # << >>
<1> DEFINE T == Range(s) \cup {e}
           a == Append(s, e)
<1>1. s \in Seq(T) /\ e \in T
  BY SeqMonotonic DEF Sequence
<1>2. Len(s) \in Nat /\ DOMAIN s = 1 .. Len(s)
  BY <1>1, LenProperties
<1>3. /\ a \in Seq(T) /\ Len(a) = Len(s) + 1
      /\ \A i \in 1 .. Len(s) : a[i] = s[i]
      /\ a[Len(s) + 1] = e
  BY <1>1, AppendProperties
<1> HIDE DEF a, T
<1>4. DOMAIN a = 1 .. Len(s) + 1 /\ a \in [1 .. Len(a) -> T]
  BY <1>3, LenProperties
<1>5. a \in Seq(Range(a))
  BY <1>3, SeqOfRange
<1>6. a # << >>
  BY <1>2, <1>3, EmptySeq
<1> QED
  BY <1>2, <1>3, <1>4, <1>5, <1>6 DEF a, Sequence

(* Every slot begins with empty sequences. *)
LEMMA EmptySequence == Sequence(<< >>) /\ DOMAIN << >> = {} /\ Len(<< >>) = 0
BY EmptySeq DEF Sequence

-----------------------------------------------------------------------------
(* The table of the slot *)

(* The table of a slot has K_MAX_MESSAGES places. *)
LEMMA PlacesFinite == IsFiniteSet(InSlot) /\ Cardinality(InSlot) = K_MAX_MESSAGES
BY FS_Interval, DecoderAssumption DEF InSlot

(* A probe stays in the table. *)
LEMMA TurnType ==
  ASSUME NEW m \in Messages, NEW i \in InSlot
  PROVE  Turn(m, i) \in InSlot /\ m # NULL /\ m.hash \in Nat
<1>1. m # NULL /\ m.hash \in Nat
  BY DecoderAssumption DEF Messages
<1>2. m.hash + i \in Nat /\ K_MAX_MESSAGES \in Nat \ {0}
  BY <1>1, DecoderAssumption DEF InSlot
<1>3. \A n \in Nat, K \in Nat \ {0} : n % K \in 0 .. K - 1
  OBVIOUS
<1> QED
  BY <1>1, <1>2, <1>3 DEF Turn, InSlot

(* Where Probe leads: to a free place, and only for a message that is not  *)
(* in the table; nowhere only for one that is, in a full table or when the *)
(* program ends.                                                           *)
LEMMA ProbeFinds ==
  ASSUME TableInv, NEW m \in Messages
  PROVE  /\ \A p \in Probe(m) :
               /\ p \in InSlot /\ decoded_hashtable[p] = NULL /\ ~InTable(m) /\ ~exit_flag
               /\ \E i \in InSlot : /\ p = Turn(m, i)
                                     /\ \A j \in InSlot : j < i => decoded_hashtable[Turn(m, j)] # NULL
         /\ Probe(m) = {} => InTable(m) \/ exit_flag \/ Entered = InSlot
<1> DEFINE stops == {i \in InSlot : decoded_hashtable[Turn(m, i)] \in {NULL, m}}
<1>1. Probe(m) = IF exit_flag \/ stops = {} THEN {}
                 ELSE {Turn(m, Min(stops))} \ {p \in InSlot : decoded_hashtable[p] = m}
  BY DEF Probe, Turn
<1>2. stops # {} => /\ Min(stops) \in stops /\ \A j \in stops : Min(stops) <= j
  <2>1. stops \in SUBSET Nat
    BY DecoderAssumption DEF InSlot
  <2> QED
    BY <2>1, LeastNatural
<1>3. CASE stops = {} /\ ~exit_flag
  <2>1. ASSUME NEW p \in InSlot PROVE decoded_hashtable[p] # NULL
    <3>1. PICK i \in InSlot : (m.hash + i) % K_MAX_MESSAGES = p
      <4>1. m.hash \in Nat /\ K_MAX_MESSAGES \in Nat \ {0} /\ InSlot = 0 .. K_MAX_MESSAGES - 1
        BY TurnType, DecoderAssumption DEF InSlot
      <4>2. \E i \in 0 .. K_MAX_MESSAGES - 1 : (m.hash + i) % K_MAX_MESSAGES = p
        BY <4>1, Wraps
      <4> QED
        BY <4>1, <4>2
    <3> QED
      BY <1>3, <3>1 DEF Turn
  <2> QED
    BY <1>1, <1>3, <2>1 DEF Entered
<1>4. CASE stops # {} /\ ~exit_flag
  <2> DEFINE i == Min(stops)
  <2>1. i \in InSlot /\ decoded_hashtable[Turn(m, i)] \in {NULL, m} /\ \A j \in stops : i <= j
    BY <1>2, <1>4
  <2>2. \A j \in InSlot : j < i => j \notin stops
    BY <2>1, DecoderAssumption DEF InSlot
  <2>3. Probe(m) = {Turn(m, i)} \ {p \in InSlot : decoded_hashtable[p] = m}
    BY <1>1, <1>4
  <2>4. Turn(m, i) \in InSlot
    BY <2>1, TurnType
  <2> HIDE DEF i
  <2>5. CASE decoded_hashtable[Turn(m, i)] = m
    <3>1. Probe(m) = {} /\ InTable(m)
      BY <2>3, <2>4, <2>5 DEF InTable
    <3> QED
      BY <3>1
  <2>6. CASE decoded_hashtable[Turn(m, i)] = NULL /\ NULL # m
    <3>1. ~InTable(m)
      BY <2>1, <2>2, <2>6 DEF TableInv, Reached
    <3>2. \A j \in InSlot : j < i => decoded_hashtable[Turn(m, j)] # NULL
      BY <2>2
    <3>3. Probe(m) = {Turn(m, i)}
      BY <2>3, <2>6, <2>4
    <3> QED
      BY <1>4, <2>1, <2>4, <2>6, <3>1, <3>2, <3>3
  <2> QED
    BY <2>1, <2>5, <2>6
<1>5. CASE exit_flag
  BY <1>1, <1>5
<1> QED
  BY <1>3, <1>4, <1>5

(* Entering a message where Probe says. *)
LEMMA Enters ==
  ASSUME TableInv, NEW m \in Messages, NEW p \in Probe(m),
         decoded_hashtable' = [decoded_hashtable EXCEPT ![p] = m]
  PROVE  /\ p \in InSlot /\ p \notin Entered /\ Entered' = Entered \cup {p}
         /\ decoded_hashtable' \in [InSlot -> Messages \cup {NULL}]
         /\ \A q \in InSlot : decoded_hashtable'[q] = IF q = p THEN m ELSE decoded_hashtable[q]
         /\ ~InTable(m)
         /\ \A x \in Messages : InTable(x)' <=> InTable(x) \/ x = m
<1>1. p \in InSlot /\ decoded_hashtable[p] = NULL /\ ~InTable(m)
  BY ProbeFinds
<1>2. decoded_hashtable' \in [InSlot -> Messages \cup {NULL}]
  BY <1>1 DEF TableInv
<1>3. \A q \in InSlot : decoded_hashtable'[q] = IF q = p THEN m ELSE decoded_hashtable[q]
  BY DEF TableInv
<1>4. m # NULL /\ \A x \in Messages : x # NULL
  BY DecoderAssumption DEF Messages
<1>5. p \notin Entered /\ Entered' = Entered \cup {p}
  BY <1>1, <1>3, <1>4 DEF Entered
<1>6. \A x \in Messages : InTable(x)' <=> InTable(x) \/ x = m
  BY <1>1, <1>3, <1>4 DEF InTable
<1> QED
  BY <1>1, <1>2, <1>3, <1>5, <1>6

(* Nothing was entered at the start. *)
LEMMA TableInit == Init => TableInv
<1> SUFFICES ASSUME Init PROVE TableInv
  OBVIOUS
<1>1. decoded_hashtable = [i \in InSlot |-> NULL] /\ heard = {}
  BY DEF Init
<1>2. \A m \in Messages : ~InTable(m)
  BY <1>1, DecoderAssumption DEF InTable, Messages
<1> QED
  BY <1>1, <1>2, FS_EmptySet DEF TableInv, Entered

(* A message enters the table where its probe ends, and stays. *)
LEMMA TableStep == DecoderInv /\ [Next]_vars => TableInv'
<1> SUFFICES ASSUME DecoderInv, [Next]_vars PROVE TableInv'
  OBVIOUS
<1>0. TableInv
  BY DEF DecoderInv
<1>1. ASSUME NEW c \in Candidates, Candidate(c) PROVE TableInv'
  <2> DEFINE m == c.msg
  <2>0. m \in Messages /\ heard' = heard \cup {m} /\ exit_flag' = exit_flag
    BY <1>1 DEF Candidate, Messages, others
  <2>1. heard' \subseteq Messages /\ IsFiniteSet(heard')
    BY <1>0, <2>0, FS_AddElement DEF TableInv
  <2>2. CASE Probe(m) = {} /\ UNCHANGED decoded_hashtable
    <3>1. InTable(m) \/ exit_flag \/ Entered = InSlot
      BY <1>0, <2>0, <2>2, ProbeFinds
    <3> HIDE DEF m
    <3> QED
      BY <1>0, <2>0, <2>1, <2>2, <3>1 DEF TableInv, InTable, Entered, Reached
  <2>3. ASSUME NEW p \in Probe(m), NewMessage(c, p) PROVE TableInv'
    <3> HIDE DEF m
    <3>0. decoded_hashtable' = [decoded_hashtable EXCEPT ![p] = m]
      BY <2>3 DEF NewMessage, m
    <3>1. /\ p \in InSlot /\ p \notin Entered /\ Entered' = Entered \cup {p}
          /\ decoded_hashtable' \in [InSlot -> Messages \cup {NULL}]
          /\ \A q \in InSlot : decoded_hashtable'[q] = IF q = p THEN m ELSE decoded_hashtable[q]
          /\ ~InTable(m)
          /\ \A x \in Messages : InTable(x)' <=> InTable(x) \/ x = m
      BY <1>0, <2>0, <3>0, Enters
    <3>2. \A q, r \in Entered' : decoded_hashtable'[q] = decoded_hashtable'[r] => q = r
      BY <1>0, <3>1 DEF TableInv, InTable, Entered
    <3>3. m # NULL /\ \A x \in Messages : x # NULL
      BY <2>0, DecoderAssumption DEF Messages
    <3>4. ASSUME NEW x \in Messages, InTable(x)' PROVE x \in heard' /\ Reached(x)'
      <4>1. x \in heard'
        BY <1>0, <2>0, <3>1, <3>4 DEF TableInv
      <4>2. CASE x # m
        <5>1. Reached(x)
          BY <1>0, <3>1, <3>4, <4>2 DEF TableInv
        <5>2. \A i \in InSlot : Turn(x, i) \in InSlot
          BY TurnType
        <5> SUFFICES ASSUME NEW i \in InSlot, decoded_hashtable'[Turn(x, i)] = NULL
                     PROVE  \E j \in InSlot : j < i /\ decoded_hashtable'[Turn(x, j)] = x
          BY <4>1 DEF Reached, Turn
        <5>3. decoded_hashtable[Turn(x, i)] = NULL
          BY <3>1, <3>3, <5>2
        <5>4. PICK j \in InSlot : j < i /\ decoded_hashtable[Turn(x, j)] = x
          BY <5>1, <5>3 DEF Reached
        <5>5. Turn(x, j) # p
          BY <3>1, <3>3, <5>4 DEF Entered
        <5> QED
          BY <3>1, <5>2, <5>4, <5>5
      <4>3. CASE x = m
        <5>2. \A i \in InSlot : Turn(m, i) \in InSlot
          BY <2>0, TurnType
        <5>1. PICK k \in InSlot : /\ p = Turn(m, k)
                                  /\ \A j \in InSlot : j < k => decoded_hashtable[Turn(m, j)] # NULL
          BY <1>0, <2>0, ProbeFinds
        <5> SUFFICES ASSUME NEW i \in InSlot, decoded_hashtable'[Turn(m, i)] = NULL
                     PROVE  \E j \in InSlot : j < i /\ decoded_hashtable'[Turn(m, j)] = m
          BY <4>1, <4>3 DEF Reached, Turn
        <5>3. decoded_hashtable[Turn(m, i)] = NULL /\ Turn(m, i) # p
          BY <3>1, <3>3, <5>2
        <5>4. k < i
          <6>1. k \in Int /\ i \in Int /\ ~(i < k) /\ i # k
            BY <5>1, <5>3, DecoderAssumption DEF InSlot
          <6> QED
            BY <6>1
        <5> QED
          BY <3>1, <5>1, <5>4
      <4> QED
        BY <4>2, <4>3
    <3>5. ASSUME NEW x \in heard' PROVE InTable(x)' \/ exit_flag' \/ (Entered = InSlot)'
      <4>1. CASE Entered = InSlot
        BY <3>1, <4>1
      <4>2. CASE x = m \/ InTable(x)
        BY <1>0, <2>0, <2>1, <3>1, <4>2
      <4> QED
        BY <1>0, <2>0, <4>1, <4>2 DEF TableInv
    <3> QED
      BY <2>1, <3>1, <3>2, <3>4, <3>5 DEF TableInv
  <2> QED
    BY <1>1, <2>2, <2>3 DEF Candidate
<1>2. CASE Forget
  <2>1. decoded_hashtable' = [i \in InSlot |-> NULL] /\ heard' = {}
    BY <1>2 DEF Forget
  <2>2. \A m \in Messages : ~InTable(m)'
    BY <2>1, DecoderAssumption DEF InTable, Messages
  <2> QED
    BY <2>1, <2>2, FS_EmptySet DEF TableInv, Entered
<1>3. CASE UNCHANGED <<decoded_hashtable, heard>> /\ (exit_flag => exit_flag')
  BY <1>0, <1>3 DEF TableInv, InTable, Entered, Reached
<1> QED
  BY <1>1, <1>2, <1>3 DEF Next, DecoderThread, DecodeBegins, InfoFreq, InfoTest, InfoPeer,
     DecodeEnds, PrintSpots, QsoThread, Quit, vars, slotVars, others

-----------------------------------------------------------------------------
(* What decode() does with a new message *)

(* Unpacking keeps the number of words, and a first word without brackets. *)
LEMMA TextOf ==
  ASSUME NEW c \in Candidates
  PROVE  /\ Text(c.msg) = << >> => c.msg.fields = << >>
         /\ Text(c.msg) # << >> => 1 \in DOMAIN Text(c.msg)
         /\ Text(c.msg) # << >> /\ ~Text(c.msg)[1].brackets =>
               Text(c.msg)[1].word = c.msg.fields[1].word
         /\ Len(Text(c.msg)) = 1 => Len(c.msg.fields) = 1
<1> DEFINE f == c.msg.fields
           W(i) == Word(callsign_hashtable, c.msg, i)
           n == Len(f)
<1>1. f \in Seq(Range(f))
  BY DecoderAssumption
<1>2. n \in Nat /\ DOMAIN f = 1 .. n /\ f \in [1 .. n -> Range(f)]
  BY <1>1, LenProperties
<1>3. Text(c.msg) = [i \in 1 .. n |-> W(i)]
  BY <1>2 DEF Text
<1>4. \A i \in 1 .. n : ~W(i).brackets => W(i).word = f[i].word
  BY DEF Word
<1> HIDE DEF f, W
<1>5. Text(c.msg) = << >> => f = << >>
  <2> SUFFICES ASSUME Text(c.msg) = << >> PROVE f = << >>
    OBVIOUS
  <2>1. DOMAIN Text(c.msg) = {}
    BY EmptySequence
  <2>2. 1 .. n = {}
    BY <1>3, <2>1
  <2>3. n = 0
    BY <1>2, <2>2
  <2> QED
    BY <1>1, <2>3, EmptySeq
<1>6. Text(c.msg) # << >> => n >= 1
  <2> SUFFICES ASSUME n = 0 PROVE Text(c.msg) = << >>
    BY <1>2
  <2>1. 1 .. n = {}
    OBVIOUS
  <2> QED
    BY <1>3, <2>1
<1>7. Len(Text(c.msg)) = n
  BY <1>2, <1>3
<1>8. Text(c.msg) # << >> => 1 \in DOMAIN Text(c.msg) /\ Text(c.msg)[1] = W(1) /\ 1 \in 1 .. n
  BY <1>2, <1>3, <1>6
<1> QED
  BY <1>4, <1>5, <1>7, <1>8 DEF f

(* A new message is left out, or goes to the log at once, or is kept until *)
(* the contact has been looked at; at most one spot comes of it.           *)
LEMMA Dispatched ==
  ASSUME NEW c \in Candidates, Dispatch(c, Text(c.msg))
  PROVE  \/ LeftOut(c.msg) /\ UNCHANGED <<pc, cand, decodes, log_queue>>
         \/ \E e : /\ log_queue' = Append(log_queue, e) /\ UNCHANGED <<pc, cand>>
                   /\ e.from = c.msg /\ e.dest \in StartsCQ \cup StartsRcall
                   /\ UNCHANGED decodes \/ \E d : decodes' = Append(decodes, d)
         \/ \E e : /\ cand' = [freq |-> c.freq, entry |-> e] /\ pc' = "infoFreq"
                   /\ e.from = c.msg /\ e.freq = c.freq
                   /\ UNCHANGED <<decodes, log_queue>>
<1> DEFINE t == Text(c.msg)
           e == LogEntry(c, t)
<1>1. e.from = c.msg /\ e.freq = c.freq
  BY DEF LogEntry
<1>2. Begins(t, StartsCQ) \/ Begins(t, StartsRcall) => e.dest \in StartsCQ \cup StartsRcall
  BY TextOf DEF Begins, LogEntry, StripBrackets
<1>3. Skipped(c.msg, t) => LeftOut(c.msg)
  BY TextOf DEF Skipped, LeftOut, Begins
<1> HIDE DEF t, e
<1>4. CASE Skipped(c.msg, t) /\ UNCHANGED <<pc, cand, decodes, qsoh_queue, log_queue>>
  BY <1>3, <1>4
<1>5. CASE Begins(t, StartsCQ) /\ HandleCQ(c, t) /\ log_queue' = Append(log_queue, e)
           /\ UNCHANGED <<pc, cand>>
  BY <1>1, <1>2, <1>5 DEF HandleCQ
<1>6. CASE Begins(t, StartsRcall) /\ HandleOurs(c, t) /\ log_queue' = Append(log_queue, e)
           /\ UNCHANGED <<pc, cand>>
  BY <1>1, <1>2, <1>6 DEF HandleOurs
<1>7. CASE pc' = "infoFreq" /\ cand' = [freq |-> c.freq, entry |-> e]
           /\ UNCHANGED <<decodes, qsoh_queue, log_queue>>
  BY <1>1, <1>7
<1> QED
  BY <1>4, <1>5, <1>6, <1>7 DEF Dispatch, t, e

-----------------------------------------------------------------------------
(* The spots *)

(* The places taken are finitely many. *)
LEMMA EnteredFinite ==
  IsFiniteSet(Entered) /\ Cardinality(Entered) \in Nat /\ Cardinality(Entered) <= K_MAX_MESSAGES
<1>1. Entered \in SUBSET InSlot
  BY DEF Entered
<1>2. IsFiniteSet(Entered) /\ Cardinality(Entered) <= K_MAX_MESSAGES
  BY <1>1, PlacesFinite, FS_Subset
<1> QED
  BY <1>2, FS_CardinalityType

(* No spots at the start. *)
LEMMA CountInit == Init => CountInv
<1> SUFFICES ASSUME Init PROVE CountInv
  OBVIOUS
<1>1. decodes = << >>
  BY DEF Init
<1> QED
  BY <1>1, EnteredFinite, EmptySequence DEF CountInv

(* A spot is added only with a new entry of the table. *)
LEMMA CountStep == DecoderInv /\ [Next]_vars => CountInv'
<1> SUFFICES ASSUME DecoderInv, [Next]_vars PROVE CountInv'
  OBVIOUS
<1>0. TableInv /\ CountInv
  BY DEF DecoderInv
<1>1. ASSUME NEW c \in Candidates, Candidate(c) PROVE CountInv'
  <2>1. CASE UNCHANGED <<decoded_hashtable, decodes>>
    BY <1>0, <2>1 DEF CountInv, Entered
  <2>2. ASSUME NEW p \in Probe(c.msg), NewMessage(c, p) PROVE CountInv'
    <3>1. p \notin Entered /\ Entered' = Entered \cup {p}
      BY <1>0, <2>2, Enters DEF NewMessage, Messages
    <3>2. Cardinality(Entered') = Cardinality(Entered) + 1
      BY <3>1, EnteredFinite, FS_AddElement
    <3>3. UNCHANGED decodes \/ \E d : decodes' = Append(decodes, d)
      BY <2>2, Dispatched DEF NewMessage
    <3>4. Len(decodes) \in Nat
      BY <1>0, Appended DEF CountInv
    <3>5. Sequence(decodes') /\ (Len(decodes') = Len(decodes) \/ Len(decodes') = Len(decodes) + 1)
      BY <1>0, <3>3, Appended DEF CountInv
    <3> QED
      BY <1>0, <3>2, <3>4, <3>5, EnteredFinite DEF CountInv
  <2> QED
    BY <1>1, <2>1, <2>2 DEF Candidate
<1>2. CASE Forget
  <2>1. decodes' = << >>
    BY <1>2 DEF Forget
  <2>2. Entered' \in SUBSET InSlot
    BY DEF Entered, InSlot
  <2>3. Cardinality(Entered') \in Nat
    BY <2>2, PlacesFinite, FS_Subset, FS_CardinalityType
  <2> QED
    BY <2>1, <2>3, EmptySequence DEF CountInv
<1>3. CASE UNCHANGED <<decoded_hashtable, decodes>>
  BY <1>0, <1>3 DEF CountInv, Entered
<1> QED
  BY <1>1, <1>2, <1>3 DEF Next, DecoderThread, DecodeBegins, InfoFreq, InfoTest, InfoPeer,
     DecodeEnds, PrintSpots, QsoThread, Quit, vars, slotVars

-----------------------------------------------------------------------------
(* The log *)

(* Nothing is logged at the start. *)
LEMMA LogInit == Init => LogInv
<1> SUFFICES ASSUME Init PROVE LogInv
  OBVIOUS
<1>1. /\ decoded_hashtable = [i \in InSlot |-> NULL] /\ log_queue = << >>
      /\ pc = "idle" /\ tick_queue = << >>
  BY DEF Init
<1>2. \A m \in Messages : ~InTable(m)
  BY <1>1, DecoderAssumption DEF InTable, Messages
<1> QED
  BY <1>1, <1>2, EmptySequence DEF LogInv, Showing

(* An entry put behind the others. *)
LEMMA LogAppended ==
  ASSUME Sequence(log_queue), NEW e, log_queue' = Append(log_queue, e)
  PROVE  /\ Sequence(log_queue')
         /\ \E n : /\ n \notin DOMAIN log_queue /\ log_queue'[n] = e
                   /\ DOMAIN log_queue' = DOMAIN log_queue \cup {n}
         /\ \A i \in DOMAIN log_queue : log_queue'[i] = log_queue[i]
         /\ \A m : Logged(m)' <=> Logged(m) \/ e.from = m
<1> DEFINE n == Len(log_queue) + 1
<1>1. /\ Sequence(log_queue')
      /\ n \in Nat /\ Len(log_queue) \in Nat
      /\ DOMAIN log_queue = 1 .. Len(log_queue) /\ DOMAIN log_queue' = 1 .. n
      /\ \A i \in 1 .. Len(log_queue) : log_queue'[i] = log_queue[i]
      /\ log_queue'[n] = e
  BY Appended
<1>2. n \notin DOMAIN log_queue /\ DOMAIN log_queue' = DOMAIN log_queue \cup {n}
  BY <1>1
<1> HIDE DEF n
<1>3. \A m : Logged(m)' <=> Logged(m) \/ e.from = m
  BY <1>1, <1>2 DEF Logged
<1> QED
  BY <1>1, <1>2, <1>3

(* What enters the table is logged in the same turn. *)
LEMMA LogStep == DecoderInv /\ [Next]_vars => LogInv'
<1> SUFFICES ASSUME DecoderInv, [Next]_vars PROVE LogInv'
  OBVIOUS
<1>0. TableInv /\ LogInv
  BY DEF DecoderInv
<1>1. ASSUME NEW c \in Candidates, Candidate(c) PROVE LogInv'
  <2>0. pc = "scan" /\ ~Showing /\ tick_queue = << >> /\ UNCHANGED tick_queue
    BY <1>0, <1>1 DEF Candidate, Showing, LogInv
  <2>1. CASE UNCHANGED <<pc, decoded_hashtable, cand, log_queue>>
    BY <1>0, <2>0, <2>1 DEF LogInv, InTable, Logged, Showing
  <2>2. ASSUME NEW p \in Probe(c.msg), NewMessage(c, p) PROVE LogInv'
    <3> DEFINE m == c.msg
    <3>1. /\ m \in Messages /\ ~InTable(m)
          /\ \A x \in Messages : InTable(x)' <=> InTable(x) \/ x = m
      BY <1>0, <2>2, Enters DEF NewMessage, Messages
    <3>2. ~Logged(m)
      BY <1>0, <3>1 DEF LogInv, Logged
    <3>3. CASE LeftOut(m) /\ UNCHANGED <<pc, cand, log_queue>>
      <4>1. (\A x : Logged(x)' <=> Logged(x)) /\ (\A x : LeftOut(x)' <=> LeftOut(x)) /\ ~Showing'
        BY <2>0, <3>3 DEF Logged, LeftOut, Showing
      <4> HIDE DEF m
      <4> QED
        BY <1>0, <2>0, <3>1, <3>3, <4>1 DEF LogInv
    <3>4. ASSUME NEW e, log_queue' = Append(log_queue, e), UNCHANGED <<pc, cand>>, e.from = m
          PROVE  LogInv'
      <4>1. /\ Sequence(log_queue')
            /\ \A i \in DOMAIN log_queue : log_queue'[i] = log_queue[i]
            /\ \A x : Logged(x)' <=> Logged(x) \/ m = x
        BY <1>0, <3>4, LogAppended DEF LogInv
      <4>2. PICK n : /\ n \notin DOMAIN log_queue /\ log_queue'[n] = e
                     /\ DOMAIN log_queue' = DOMAIN log_queue \cup {n}
        BY <1>0, <3>4, LogAppended DEF LogInv
      <4>3. \A i \in DOMAIN log_queue : log_queue[i].from # m
        BY <3>2 DEF Logged
      <4>4. ~Showing' /\ (\A x : LeftOut(x)' <=> LeftOut(x))
        BY <2>0, <3>4 DEF Showing, LeftOut
      <4> HIDE DEF m
      <4>5. \A i, j \in DOMAIN log_queue' : log_queue'[i].from = log_queue'[j].from => i = j
        BY <1>0, <3>4, <4>1, <4>2, <4>3 DEF LogInv
      <4>6. (\A i \in DOMAIN log_queue :
                log_queue[i].from \in Messages /\ InTable(log_queue[i].from))'
        <5>1. ASSUME NEW i \in DOMAIN log_queue', NEW x, x = log_queue'[i].from
              PROVE  x \in Messages /\ InTable(x)'
          BY <1>0, <3>1, <3>4, <4>1, <4>2, <5>1 DEF LogInv
        <5> QED
          BY <5>1
      <4> QED
        BY <1>0, <2>0, <3>1, <3>4, <4>1, <4>4, <4>5, <4>6 DEF LogInv
    <3>5. ASSUME NEW e, cand' = [freq |-> c.freq, entry |-> e], pc' = "infoFreq", e.from = m,
                 UNCHANGED log_queue
          PROVE  LogInv'
      <4>1. (\A x : Logged(x)' <=> Logged(x)) /\ (\A x : LeftOut(x)' <=> LeftOut(x))
        BY <3>5 DEF Logged, LeftOut
      <4>2. cand'.entry.from = m /\ Showing'
        BY <3>5 DEF Showing
      <4> HIDE DEF m
      <4> QED
        BY <1>0, <2>0, <3>1, <3>2, <3>5, <4>1, <4>2 DEF LogInv
    <3>6. Dispatch(c, Text(c.msg))
      BY <2>2 DEF NewMessage
    <3> QED
      BY <3>3, <3>4, <3>5, <3>6, Dispatched
  <2> QED
    BY <1>1, <2>1, <2>2 DEF Candidate
<1>2. CASE LogCandidate /\ Showing /\ UNCHANGED <<decoded_hashtable, tick_queue>>
  <2> DEFINE m == cand.entry.from
  <2>1. log_queue' = Append(log_queue, cand.entry) /\ pc' = "scan" /\ tick_queue' = << >>
    BY <1>0, <1>2 DEF LogCandidate, LogInv, Showing
  <2>2. m \in Messages /\ InTable(m) /\ ~Logged(m)
    BY <1>0, <1>2 DEF LogInv
  <2>3. /\ Sequence(log_queue')
        /\ \A i \in DOMAIN log_queue : log_queue'[i] = log_queue[i]
        /\ \A x : Logged(x)' <=> Logged(x) \/ m = x
    BY <1>0, <2>1, LogAppended DEF LogInv
  <2>4. PICK n : /\ n \notin DOMAIN log_queue /\ log_queue'[n] = cand.entry
                 /\ DOMAIN log_queue' = DOMAIN log_queue \cup {n}
    BY <1>0, <2>1, LogAppended DEF LogInv
  <2>5. \A i \in DOMAIN log_queue : log_queue[i].from # m
    BY <2>2 DEF Logged
  <2>6. ~Showing' /\ (\A x : LeftOut(x)' <=> LeftOut(x)) /\ (\A x : InTable(x)' <=> InTable(x))
    BY <1>2, <2>1 DEF Showing, LeftOut, InTable
  <2>7. \A i, j \in DOMAIN log_queue' : log_queue'[i].from = log_queue'[j].from => i = j
    BY <1>0, <2>3, <2>4, <2>5 DEF LogInv
  <2>8. (\A i \in DOMAIN log_queue :
            log_queue[i].from \in Messages /\ InTable(log_queue[i].from))'
    <3>1. ASSUME NEW i \in DOMAIN log_queue', NEW x, x = log_queue'[i].from
          PROVE  x \in Messages /\ InTable(x)'
      BY <1>0, <2>2, <2>3, <2>4, <2>6, <3>1 DEF LogInv
    <3> QED
      BY <3>1
  <2>9. \A x \in Messages : InTable(x) => Logged(x) \/ LeftOut(x) \/ m = x
    BY <1>0 DEF LogInv
  <2> HIDE DEF m
  <2> QED
    BY <2>1, <2>3, <2>6, <2>7, <2>8, <2>9 DEF LogInv
<1>3. CASE Forget
  <2>1. /\ decoded_hashtable' = [i \in InSlot |-> NULL] /\ log_queue' = << >>
        /\ pc' = "idle" /\ tick_queue' = << >>
    BY <1>3 DEF Forget
  <2>2. \A m \in Messages : ~InTable(m)'
    BY <2>1, DecoderAssumption DEF InTable, Messages
  <2> QED
    BY <2>1, <2>2, EmptySequence DEF LogInv, Showing
<1>4. CASE /\ UNCHANGED <<decoded_hashtable, log_queue, cand>> /\ Showing' = Showing
           /\ pc' \in {"idle", "scan", "infoFreq", "infoTest", "infoPeer", "print", "done"}
           /\ tick_queue' # << >> => pc' \in {"print", "done"}
  <2>1. /\ \A x : Logged(x)' <=> Logged(x)
        /\ \A x : LeftOut(x)' <=> LeftOut(x)
        /\ \A x : InTable(x)' <=> InTable(x)
    BY <1>4 DEF Logged, LeftOut, InTable
  <2> QED
    BY <1>0, <1>4, <2>1 DEF LogInv
<1>5. CASE DecodeBegins \/ InfoFreq \/ DecodeEnds \/ PrintSpots \/ QsoThread \/ Quit \/ UNCHANGED vars
  BY <1>0, <1>4, <1>5 DEF LogInv, Showing, DecodeBegins, InfoFreq, DecodeEnds, PrintSpots,
     QsoThread, Quit, vars, slotVars, queues
<1>6. CASE InfoTest \/ InfoPeer
  BY <1>0, <1>2, <1>4, <1>6 DEF LogInv, Showing, InfoTest, InfoPeer, slotVars, queues
<1> QED
  BY <1>1, <1>3, <1>5, <1>6 DEF Next, DecoderThread

-----------------------------------------------------------------------------
(* The messages shown as the peer's *)

(* The frequency of a contact is a number, and not 0. *)
LEMMA ContactFreq ==
  \A k \in Contacts \cup {NoContact} : k.freq \in Int /\ (k # NoContact => k.freq # 0)
<1>1. \A k \in Contacts : k.freq \in Int /\ k.freq # 0
  BY DecoderAssumption
<1>2. NoContact.freq = 0
  BY DEF NoContact
<1> QED
  BY <1>1, <1>2

(* Nothing is shown at the start. *)
LEMMA InfoInit == Init => InfoInv
<1> SUFFICES ASSUME Init PROVE InfoInv
  OBVIOUS
<1>1. qso_queue = << >> /\ log_queue = << >> /\ pc = "idle" /\ contact = NoContact
  BY DEF Init
<1> QED
  BY <1>1, EmptySequence DEF InfoInv, InfoIsPeers, Showing

(* What a message in the log asks of the queue of the window. *)
Owed(e) ==
    /\ contact # NoContact /\ thisSlot = contact.slot
    /\ e.dest \notin StartsCQ \cup StartsRcall
    /\ e.freq - contact.freq \in -50 .. 50

Shown(m) == \E j \in DOMAIN qso_queue : qso_queue[j].from = m

Theirs(info) ==
    /\ contact # NoContact /\ info.src = contact.peer
    /\ info.slot = contact.slot /\ info.freq - contact.freq \in -50 .. 50

(* What the three unlocked readings change. *)
LEMMA InfoReads ==
  InfoIsPeers <=> (steady => /\ \A i \in DOMAIN qso_queue : Theirs(qso_queue[i])
                             /\ \A i \in DOMAIN log_queue :
                                   Owed(log_queue[i]) => Shown(log_queue[i].from))
BY DEF InfoIsPeers, Theirs, Owed, Shown

(* Another entry in the log, and perhaps another line in the window. *)
LEMMA InfoKept ==
  ASSUME LogInv, InfoInv, UNCHANGED <<contact, thisSlot, steady>>,
         UNCHANGED qso_queue \/ \E info : /\ qso_queue' = Append(qso_queue, info)
                                          /\ steady => Theirs(info),
         UNCHANGED log_queue \/ \E e : /\ log_queue' = Append(log_queue, e)
                                       /\ steady /\ Owed(e) => Shown(e.from)'
  PROVE  Sequence(qso_queue') /\ InfoIsPeers'
<1>0. Sequence(qso_queue) /\ Sequence(log_queue) /\ InfoIsPeers
  BY DEF LogInv, InfoInv
<1>1. /\ Sequence(qso_queue')
      /\ \A i \in DOMAIN qso_queue : i \in DOMAIN qso_queue' /\ qso_queue'[i] = qso_queue[i]
      /\ steady => \A i \in DOMAIN qso_queue' :
                      i \in DOMAIN qso_queue \/ Theirs(qso_queue'[i])
  <2>1. CASE UNCHANGED qso_queue
    BY <1>0, <2>1
  <2>2. ASSUME NEW info, qso_queue' = Append(qso_queue, info), steady => Theirs(info)
        PROVE  <1>1
    <3> DEFINE n == Len(qso_queue)
    <3>1. /\ Sequence(qso_queue') /\ n \in Nat
          /\ DOMAIN qso_queue = 1 .. n /\ DOMAIN qso_queue' = 1 .. n + 1
          /\ \A i \in 1 .. n : qso_queue'[i] = qso_queue[i]
          /\ qso_queue'[n + 1] = info
      BY <1>0, <2>2, Appended
    <3>2. \A i \in 1 .. n + 1 : i \in 1 .. n \/ i = n + 1
      BY <3>1
    <3>3. \A i \in 1 .. n : i \in 1 .. n + 1
      BY <3>1
    <3> HIDE DEF n
    <3> QED
      BY <2>2, <3>1, <3>2, <3>3
  <2> QED
    BY <2>1, <2>2
<1>2. \A i \in DOMAIN log_queue' : \A e : e = log_queue'[i] =>
         \/ i \in DOMAIN log_queue /\ e = log_queue[i]
         \/ steady /\ Owed(e) => Shown(e.from)'
  <2>1. CASE UNCHANGED log_queue
    BY <2>1
  <2>2. ASSUME NEW e, log_queue' = Append(log_queue, e), steady /\ Owed(e) => Shown(e.from)'
        PROVE  <1>2
    <3>1. \A i \in DOMAIN log_queue : log_queue'[i] = log_queue[i]
      BY <1>0, <2>2, LogAppended
    <3>2. \E n : DOMAIN log_queue' = DOMAIN log_queue \cup {n} /\ log_queue'[n] = e
      BY <1>0, <2>2, LogAppended
    <3> QED
      BY <2>2, <3>1, <3>2
  <2> QED
    BY <2>1, <2>2
<1>3. \A m : Shown(m) => Shown(m)'
  BY <1>1 DEF Shown
<1>4. (\A e : Owed(e)' <=> Owed(e)) /\ (\A e : Theirs(e)' <=> Theirs(e))
  BY DEF Owed, Theirs
<1>5. steady => /\ \A i \in DOMAIN qso_queue : Theirs(qso_queue[i])
                /\ \A i \in DOMAIN log_queue : Owed(log_queue[i]) => Shown(log_queue[i].from)
  BY <1>0, InfoReads
<1>6. ASSUME steady PROVE \A i \in DOMAIN qso_queue' : Theirs(qso_queue'[i])
  BY <1>1, <1>5, <1>6
<1>7. ASSUME steady, NEW i \in DOMAIN log_queue', NEW e, e = log_queue'[i], Owed(e)
      PROVE  Shown(e.from)'
  BY <1>2, <1>3, <1>5, <1>7
<1>8. (steady => /\ \A i \in DOMAIN qso_queue : Theirs(qso_queue[i])
                 /\ \A i \in DOMAIN log_queue : Owed(log_queue[i]) => Shown(log_queue[i].from))'
  <2>1. (\A i \in DOMAIN qso_queue : Theirs(qso_queue[i]))' <=>
           \A i \in DOMAIN qso_queue' : Theirs(qso_queue'[i])
    BY DEF Theirs
  <2>2. ASSUME steady
        PROVE  (\A i \in DOMAIN log_queue : Owed(log_queue[i]) => Shown(log_queue[i].from))'
    <3> SUFFICES ASSUME NEW i \in DOMAIN log_queue', Owed(log_queue[i])'
                 PROVE  Shown(log_queue[i].from)'
      OBVIOUS
    <3>1. Owed(log_queue'[i])
      BY DEF Owed
    <3> QED
      BY <1>7, <2>2, <3>1
  <2> QED
    BY <1>6, <2>1, <2>2
<1>9. InfoIsPeers'
  BY <1>8, InfoReads, PTL
<1> QED
  BY <1>1, <1>9

(* With the same contact in all readings a message is shown under its own sender. *)
LEMMA InfoStep == DecoderInv /\ [Next]_vars => InfoInv'
<1> SUFFICES ASSUME DecoderInv, [Next]_vars PROVE InfoInv'
  OBVIOUS
<1>0. LogInv /\ InfoInv /\ TableInv
  BY DEF DecoderInv
<1>k. contact \in Contacts \cup {NoContact} /\ contact.freq \in Int
      /\ (contact # NoContact => contact.freq # 0)
  BY <1>0, ContactFreq DEF InfoInv
<1>1. ASSUME NEW c \in Candidates, Candidate(c) PROVE InfoInv'
  <2>0. pc = "scan" /\ UNCHANGED <<contact, thisSlot, steady, qso_queue, qsoFreq>>
    BY <1>1 DEF Candidate, others
  <2>1. CASE UNCHANGED <<pc, log_queue>>
    <3>1. Sequence(qso_queue') /\ InfoIsPeers'
      BY <1>0, <2>0, <2>1, InfoKept
    <3> QED
      BY <1>k, <2>0, <2>1, <3>1 DEF InfoInv, Showing
  <2>2. ASSUME NEW e, log_queue' = Append(log_queue, e), UNCHANGED pc,
               e.dest \in StartsCQ \cup StartsRcall
        PROVE  InfoInv'
    <3>1. ~Owed(e)
      BY <2>2 DEF Owed
    <3>2. Sequence(qso_queue') /\ InfoIsPeers'
      BY <1>0, <2>0, <2>2, <3>1, InfoKept
    <3> QED
      BY <1>k, <2>0, <2>2, <3>2 DEF InfoInv, Showing
  <2>3. ASSUME NEW e, cand' = [freq |-> c.freq, entry |-> e], pc' = "infoFreq",
               e.freq = c.freq, UNCHANGED log_queue
        PROVE  InfoInv'
    <3>1. Sequence(qso_queue') /\ InfoIsPeers'
      BY <1>0, <2>0, <2>3, InfoKept
    <3>2. cand'.freq \in Int /\ cand'.entry.freq = cand'.freq
      BY <2>3, DecoderAssumption
    <3> QED
      BY <1>k, <2>0, <2>3, <3>1, <3>2 DEF InfoInv
  <2>4. ASSUME NEW p \in Probe(c.msg), NewMessage(c, p) PROVE InfoInv'
    <3>1. Dispatch(c, Text(c.msg))
      BY <2>4 DEF NewMessage
    <3> QED
      BY <2>1, <2>2, <2>3, <3>1, Dispatched
  <2> QED
    BY <1>1, <2>1, <2>4 DEF Candidate
<1>2. CASE InfoFreq
  <2>1. /\ UNCHANGED <<contact, thisSlot, steady, qso_queue, log_queue, cand>>
        /\ pc = "infoFreq" /\ pc' = "infoTest" /\ qsoFreq' = contact.freq
    BY <1>2 DEF InfoFreq, slotVars, queues, others
  <2>2. Sequence(qso_queue') /\ InfoIsPeers'
    BY <1>0, <2>1, InfoKept
  <2> QED
    BY <1>0, <1>k, <2>1, <2>2 DEF InfoInv, Showing
<1>3. CASE InfoTest
  <2> DEFINE near == /\ contact # NoContact /\ qsoFreq # 0
                     /\ cand.freq - qsoFreq \in -50 .. 50 /\ thisSlot = contact.slot
  <2>1. /\ UNCHANGED <<contact, thisSlot, steady, qso_queue>> /\ pc = "infoTest"
        /\ cand.freq \in Int /\ cand.entry.freq = cand.freq
        /\ steady => qsoFreq = contact.freq
    BY <1>0, <1>3 DEF InfoTest, slotVars, others, InfoInv, Showing
  <2>2. CASE near
    <3>1. pc' = "infoPeer" /\ UNCHANGED <<log_queue, cand, qsoFreq>>
      BY <1>3, <2>2 DEF InfoTest
    <3>2. Sequence(qso_queue') /\ InfoIsPeers'
      BY <1>0, <2>1, <3>1, InfoKept
    <3> QED
      BY <1>k, <2>1, <2>2, <3>1, <3>2 DEF InfoInv
  <2>3. CASE ~near
    <3>1. log_queue' = Append(log_queue, cand.entry) /\ pc' = "scan"
      BY <1>3, <2>3 DEF InfoTest, LogCandidate
    <3>2. steady => ~Owed(cand.entry)
      BY <1>k, <2>1, <2>3 DEF Owed
    <3>3. Sequence(qso_queue') /\ InfoIsPeers'
      BY <1>0, <2>1, <3>1, <3>2, InfoKept
    <3> QED
      BY <1>k, <2>1, <3>1, <3>3 DEF InfoInv, Showing
  <2> QED
    BY <2>2, <2>3
<1>4. CASE InfoPeer
  <2> DEFINE info == [src |-> contact.peer, freq |-> cand.freq, slot |-> thisSlot,
                      from |-> cand.entry.from]
  <2>1. /\ UNCHANGED <<contact, thisSlot, steady>> /\ pc = "infoPeer" /\ pc' = "scan"
        /\ qso_queue' = Append(qso_queue, info)
        /\ log_queue' = Append(log_queue, cand.entry)
    BY <1>4 DEF InfoPeer, LogCandidate, slotVars, others
  <2>2. steady => Theirs(info)
    BY <1>0, <2>1 DEF InfoInv, Theirs
  <2>3. ASSUME NEW e, e = cand.entry PROVE Shown(e.from)'
    <3> DEFINE n == Len(qso_queue) + 1
    <3>1. info.from = e.from
      BY <2>3
    <3> HIDE DEF info
    <3>2. n \in DOMAIN qso_queue' /\ qso_queue'[n] = info
      BY <1>0, <2>1, Appended DEF InfoInv
    <3> QED
      BY <3>1, <3>2 DEF Shown
  <2> HIDE DEF info
  <2>4. Sequence(qso_queue') /\ InfoIsPeers'
    BY <1>0, <2>1, <2>2, <2>3, InfoKept
  <2> QED
    BY <1>k, <2>1, <2>4 DEF InfoInv, Showing
<1>5. CASE DecodeBegins \/ Forget
  <2>1. /\ qso_queue' = << >> /\ log_queue' = << >> /\ contact' = contact
        /\ pc' \in {"scan", "idle"}
    BY <1>0, <1>5 DEF DecodeBegins, Forget, InfoInv, queues, others
  <2> QED
    BY <1>k, <2>1, EmptySequence DEF InfoInv, InfoIsPeers, Showing
<1>6. CASE QsoThread
  <2>1. /\ ~steady' /\ contact' \in Contacts \cup {NoContact}
        /\ UNCHANGED <<pc, cand, qso_queue, log_queue>>
    BY <1>6 DEF QsoThread, queues
  <2> QED
    BY <1>0, <2>1 DEF InfoInv, InfoIsPeers, Showing
<1>7. CASE DecodeEnds \/ PrintSpots
  <2>1. /\ UNCHANGED <<contact, thisSlot, steady, qso_queue, log_queue>>
        /\ pc' \in {"print", "done"}
    BY <1>7 DEF DecodeEnds, PrintSpots, slotVars, others
  <2>2. Sequence(qso_queue') /\ InfoIsPeers'
    BY <1>0, <2>1, InfoKept
  <2> QED
    BY <1>k, <2>1, <2>2 DEF InfoInv, Showing
<1>8. CASE Quit \/ UNCHANGED vars
  <2>1. UNCHANGED <<contact, thisSlot, steady, qso_queue, log_queue, pc, cand, qsoFreq>>
    BY <1>8 DEF Quit, vars, slotVars, queues, others
  <2> QED
    BY <1>0, <2>1 DEF InfoInv, InfoIsPeers, Showing
<1> QED
  BY <1>1, <1>2, <1>3, <1>4, <1>5, <1>6, <1>7, <1>8 DEF Next, DecoderThread

-----------------------------------------------------------------------------
(* The table of callsigns *)

(* The function by which SaveCalls recurs, up to the n-th field... *)
Along(g, t, f, N) ==
    /\ g = [n \in 0 .. N |-> g[n]]
    /\ \A n \in 0 .. N : g[n] = IF n = 0 THEN t ELSE SaveCall(g[n - 1], f[n])

(* ...exists for every n. *)
LEMMA SavedExists ==
  ASSUME NEW t, NEW f, NEW N \in Nat
  PROVE  \E g : Along(g, t, f, N)
<1> DEFINE Good(m) == \E g : Along(g, t, f, m)
           bad == {m \in Nat : ~Good(m)}
<1> SUFFICES ASSUME bad # {} PROVE FALSE
  OBVIOUS
<1> DEFINE x == Min(bad)
<1>1. x \in Nat /\ ~Good(x) /\ \A m \in Nat : m < x => Good(m)
  <2>1. bad \in SUBSET Nat
    OBVIOUS
  <2>2. x \in bad /\ \A y \in bad : x <= y
    BY <2>1, LeastNatural
  <2> HIDE DEF x
  <2>3. \A m \in Nat : m < x => m \notin bad
    BY <2>2
  <2> QED
    BY <2>2, <2>3
<1> HIDE DEF x, bad
<1>2. CASE x = 0
  <2> DEFINE g == [n \in 0 .. 0 |-> t]
  <2>1. Along(g, t, f, 0)
    BY DEF Along
  <2> QED
    BY <1>1, <1>2, <2>1
<1>3. CASE x # 0
  <2>1. x - 1 \in Nat /\ x - 1 < x
    BY <1>1, <1>3
  <2>2. PICK g : Along(g, t, f, x - 1)
    BY <1>1, <2>1
  <2> DEFINE k == [n \in 0 .. x |-> IF n = x THEN SaveCall(g[x - 1], f[x]) ELSE g[n]]
  <2>3. ASSUME NEW n \in 0 .. x
        PROVE  k[n] = IF n = 0 THEN t ELSE SaveCall(k[n - 1], f[n])
    <3>1. CASE n = x
      BY <1>1, <1>3, <2>1, <3>1
    <3>2. CASE n # x
      <4>1. k[n] = g[n] /\ n \in 0 .. x - 1
        BY <1>1, <2>3, <3>2
      <4>2. CASE n = 0
        BY <2>2, <4>1, <4>2 DEF Along
      <4>3. CASE n # 0
        <5>1. n - 1 \in 0 .. x /\ n - 1 # x
          BY <1>1, <4>1, <4>3
        <5>2. k[n - 1] = g[n - 1]
          BY <5>1
        <5>3. g[n] = SaveCall(g[n - 1], f[n])
          BY <2>2, <4>1, <4>3 DEF Along
        <5> QED
          BY <4>1, <4>3, <5>2, <5>3
      <4> QED
        BY <4>2, <4>3
    <3> QED
      BY <3>1, <3>2
  <2>4. k = [n \in 0 .. x |-> k[n]]
    OBVIOUS
  <2> HIDE DEF k
  <2>5. Along(k, t, f, x)
    BY <2>3, <2>4 DEF Along
  <2> QED
    BY <1>1, <2>5
<1> QED
  BY <1>2, <1>3

(* SaveCalls saves the fields one after the other. *)
LEMMA SaveCallsSteps ==
  ASSUME NEW t, NEW f, Len(f) \in Nat
  PROVE  \E g : /\ g[0] = t /\ SaveCalls(t, f) = g[Len(f)]
                /\ \A n \in 1 .. Len(f) : g[n] = SaveCall(g[n - 1], f[n])
<1> DEFINE F(g) == [n \in 0 .. Len(f) |-> IF n = 0 THEN t ELSE SaveCall(g[n - 1], f[n])]
           g == CHOOSE g : g = F(g)
<1>1. \E k : k = F(k)
  <2>1. PICK k : Along(k, t, f, Len(f))
    BY SavedExists
  <2>2. k = F(k)
    BY <2>1 DEF Along
  <2> QED
    BY <2>2
<1>2. g = F(g)
  BY <1>1
<1>3. SaveCalls(t, f) = g[Len(f)]
  BY DEF SaveCalls
<1> HIDE DEF g
<1>4. g[0] = t
  BY <1>2
<1>5. \A n \in 1 .. Len(f) : g[n] = SaveCall(g[n - 1], f[n])
  BY <1>2
<1> QED
  BY <1>3, <1>4, <1>5

(* The call last saved under each hash after the first n fields. *)
SavedAt(f, n, h) == {i \in 1 .. n : f[i].kind = "call" /\ N22(f[i].word) = h}
LastAfter(last, f, n) ==
    [h \in Hashes |-> IF SavedAt(f, n, h) = {} THEN last[h] ELSE f[Max(SavedAt(f, n, h))].word]

(* The last call saved with a hash, one field further. *)
LEMMA LastAfterNext ==
  ASSUME NEW last, NEW f, NEW n \in Nat
  PROVE  LastAfter(last, f, n + 1) =
            IF f[n + 1].kind = "call"
            THEN [LastAfter(last, f, n) EXCEPT ![N22(f[n + 1].word)] = f[n + 1].word]
            ELSE LastAfter(last, f, n)
<1> DEFINE e == f[n + 1]
           new(h) == SavedAt(f, n + 1, h)
           old(h) == SavedAt(f, n, h)
           V(h) == IF old(h) = {} THEN last[h] ELSE f[Max(old(h))].word
           W(h) == IF new(h) = {} THEN last[h] ELSE f[Max(new(h))].word
<1>1. \A i : i \in 1 .. n + 1 <=> i \in 1 .. n \/ i = n + 1
  OBVIOUS
<1>2. \A h : new(h) = IF e.kind = "call" /\ N22(e.word) = h THEN old(h) \cup {n + 1} ELSE old(h)
  BY <1>1 DEF SavedAt
<1>3. ASSUME NEW h, e.kind = "call", N22(e.word) = h PROVE W(h) = e.word
  <2>1. new(h) \in SUBSET (1 .. n + 1) /\ n + 1 \in new(h) /\ n + 1 \in Nat
    BY <1>1, <1>2, <1>3 DEF SavedAt
  <2>2. Max(new(h)) \in new(h) /\ \A y \in new(h) : y <= Max(new(h))
    BY <2>1, GreatestNatural
  <2>3. Max(new(h)) \in 1 .. n + 1 /\ n + 1 <= Max(new(h))
    BY <2>1, <2>2
  <2>4. Max(new(h)) = n + 1 /\ new(h) # {}
    BY <2>1, <2>3
  <2> QED
    BY <2>4
<1>4. ASSUME NEW h, ~(e.kind = "call" /\ N22(e.word) = h) PROVE W(h) = V(h)
  <2>1. new(h) = old(h)
    BY <1>2, <1>4
  <2> HIDE DEF new, old
  <2> QED
    BY <2>1
<1>5. /\ LastAfter(last, f, n) = [h \in Hashes |-> V(h)]
      /\ LastAfter(last, f, n + 1) = [h \in Hashes |-> W(h)]
  BY DEF LastAfter
<1> HIDE DEF V, W, e
<1>6. CASE e.kind = "call"
  <2>1. [h \in Hashes |-> W(h)] = [[h \in Hashes |-> V(h)] EXCEPT ![N22(e.word)] = e.word]
    BY <1>3, <1>4, <1>6
  <2> QED
    BY <1>5, <1>6, <2>1 DEF e
<1>7. CASE e.kind # "call"
  <2>1. [h \in Hashes |-> W(h)] = [h \in Hashes |-> V(h)]
    BY <1>4, <1>7
  <2> QED
    BY <1>5, <1>7, <2>1 DEF e
<1> QED
  BY <1>6, <1>7

(* Saving the calls of a message, by induction over its fields. *)
LEMMA SaveCallsKeep ==
  ASSUME NEW t, Sound(t), NEW last, last = [h \in Hashes |-> last[h]], Resolves(t, last),
         NEW f, f \in Seq(Range(f)), \A e \in Range(f) : e.kind = "call" => e.word \in Calls
  PROVE  Sound(SaveCalls(t, f)) /\ Resolves(SaveCalls(t, f), LastSaved(last, f))
<1> DEFINE N == Len(f)
<1>1. N \in Nat /\ DOMAIN f = 1 .. N
  BY LenProperties
<1>2. PICK g : /\ g[0] = t /\ SaveCalls(t, f) = g[N]
               /\ \A n \in 1 .. N : g[n] = SaveCall(g[n - 1], f[n])
  BY <1>1, SaveCallsSteps
<1>3. LastSaved(last, f) = LastAfter(last, f, N)
  BY <1>1 DEF LastSaved, LastAfter, SavedAt
<1>4. \A n \in 1 .. N : f[n].kind = "call" => f[n].word \in Calls
  BY <1>1 DEF Range
<1> HIDE DEF N
<1> DEFINE Good(n) == Sound(g[n]) /\ Resolves(g[n], LastAfter(last, f, n))
           bad == {n \in 0 .. N : ~Good(n)}
<1>5. bad = {}
  <2> SUFFICES ASSUME bad # {} PROVE FALSE
    OBVIOUS
  <2> DEFINE x == Min(bad)
  <2>1. x \in 0 .. N /\ ~Good(x) /\ \A n \in 0 .. N : n < x => Good(n)
    <3>1. bad \in SUBSET Nat
      BY <1>1
    <3>2. x \in bad /\ \A y \in bad : x <= y
      BY <3>1, LeastNatural
    <3> HIDE DEF x, Good
    <3>3. \A n \in 0 .. N : n < x => n \notin bad
      BY <3>1, <3>2
    <3> QED
      BY <3>2, <3>3
  <2> HIDE DEF x, bad
  <2>2. CASE x = 0
    <3>1. \A h : SavedAt(f, 0, h) = {}
      BY DEF SavedAt
    <3>2. LastAfter(last, f, 0) = last
      BY <3>1 DEF LastAfter
    <3> QED
      BY <1>2, <2>1, <2>2, <3>2
  <2>3. CASE x # 0
    <3> DEFINE p == x - 1
    <3>1. p \in Nat /\ p \in 0 .. N /\ p < x /\ p + 1 = x /\ x \in 1 .. N
      BY <1>1, <2>1, <2>3
    <3>2. Sound(g[p]) /\ Resolves(g[p], LastAfter(last, f, p))
      BY <2>1, <3>1
    <3>3. g[x] = SaveCall(g[p], f[x])
      BY <1>2, <3>1
    <3> HIDE DEF p
    <3>4. LastAfter(last, f, x) =
            IF f[x].kind = "call" THEN [LastAfter(last, f, p) EXCEPT ![N22(f[x].word)] = f[x].word]
            ELSE LastAfter(last, f, p)
      BY <3>1, LastAfterNext
    <3>5. CASE f[x].kind = "call"
      <4>1. f[x].word \in Calls
        BY <1>4, <3>1, <3>5
      <4>2. LastAfter(last, f, p) = [h \in Hashes |-> LastAfter(last, f, p)[h]]
        BY DEF LastAfter
      <4>3. g[x] = HashtableAdd(g[p], f[x].word)
        BY <3>3, <3>5 DEF SaveCall
      <4> QED
        BY <2>1, <3>2, <3>4, <3>5, <4>1, <4>2, <4>3, AddKeeps
    <3>6. CASE f[x].kind # "call"
      BY <2>1, <3>2, <3>3, <3>4, <3>6 DEF SaveCall
    <3> QED
      BY <3>5, <3>6
  <2> QED
    BY <2>2, <2>3
<1>6. Good(N)
  BY <1>1, <1>5
<1> QED
  BY <1>2, <1>3, <1>6

HashInv ==
    /\ Sound(callsign_hashtable) /\ Resolves(callsign_hashtable, lastSaved)
    /\ lastSaved = [h \in Hashes |-> lastSaved[h]]

(* No call is known at the start. *)
LEMMA HashInit == Init => HashInv
<1> SUFFICES ASSUME Init PROVE HashInv
  OBVIOUS
<1>1. /\ callsign_hashtable = [i \in Places |-> Unused]
      /\ lastSaved = [h \in Hashes |-> Nobody]
  BY DEF Init, hashtable_init
<1>2. ~Unused.used /\ Unused \in Entries
  BY DEF Unused, Entries
<1>3. \A p \in Places : \A h : ~Holds(callsign_hashtable, p, h)
  BY <1>1, <1>2 DEF Holds
<1>4. Sound(callsign_hashtable)
  BY <1>1, <1>2, <1>3 DEF Sound, Held
<1>5. Resolves(callsign_hashtable, lastSaved)
  BY <1>1, <1>3 DEF Resolves
<1> QED
  BY <1>1, <1>4, <1>5 DEF HashInv

(* Unpacking a message keeps the table of callsigns sound. *)
LEMMA HashStep == HashInv /\ [Next]_vars => HashInv'
<1> SUFFICES ASSUME HashInv, [Next]_vars PROVE HashInv'
  OBVIOUS
<1>1. CASE UNCHANGED hashVars
  BY <1>1 DEF HashInv, hashVars
<1>2. ASSUME NEW c \in Candidates, NEW p, NewMessage(c, p) PROVE HashInv'
  <2>1. /\ callsign_hashtable' = SaveCalls(callsign_hashtable, c.msg.fields)
        /\ lastSaved' = LastSaved(lastSaved, c.msg.fields)
    BY <1>2 DEF NewMessage
  <2>2. /\ c.msg.fields \in Seq(Range(c.msg.fields))
        /\ \A e \in Range(c.msg.fields) : e.kind = "call" => e.word \in Calls
    BY DecoderAssumption
  <2>3. Sound(callsign_hashtable') /\ Resolves(callsign_hashtable', lastSaved')
    BY <2>1, <2>2, SaveCallsKeep DEF HashInv
  <2>4. lastSaved' = [h \in Hashes |-> lastSaved'[h]]
    BY <2>1 DEF LastSaved
  <2> QED
    BY <2>3, <2>4 DEF HashInv
<1> QED
  BY <1>1, <1>2 DEF Next, DecoderThread, Candidate, DecodeBegins, InfoFreq, InfoTest, InfoPeer,
     DecodeEnds, PrintSpots, Forget, QsoThread, Quit, vars

-----------------------------------------------------------------------------
(* The theorems *)

(* The invariant of the slot. *)
LEMMA DecoderInvariant == Spec => []DecoderInv
<1>1. Init => DecoderInv
  BY TableInit, LogInit, CountInit, InfoInit DEF DecoderInv
<1>2. DecoderInv /\ [Next]_vars => DecoderInv'
  BY TableStep, LogStep, CountStep, InfoStep DEF DecoderInv
<1> QED
  BY <1>1, <1>2, PTL DEF Spec

(* For any candidates and any size of the tables, decode() never writes    *)
(* dec_results beyond its end, although num_decoded has no test of its     *)
(* own: every spot took a place of decoded_hashtable.                      *)
THEOREM SpotsFit == Spec => []DecodesFit
<1>1. DecoderInv => DecodesFit
  <2> SUFFICES ASSUME DecoderInv PROVE Len(decodes) <= K_MAX_MESSAGES
    BY DEF DecodesFit
  <2>1. Len(decodes) \in Nat /\ Len(decodes) <= Cardinality(Entered)
    BY Appended DEF DecoderInv, CountInv
  <2> QED
    BY <2>1, EnteredFinite, DecoderAssumption
<1> QED
  BY <1>1, DecoderInvariant, PTL

(* Each distinct message of a slot is logged exactly once, whatever the    *)
(* hashes: the probe ends at the message if it is in the table, since no   *)
(* place before it is ever freed, and a full table holds as many messages  *)
(* as were heard.                                                          *)
THEOREM EachMessageIsLogged == Spec => []EveryMessageOnce
<1>1. DecoderInv => EveryMessageOnce
  <2> SUFFICES ASSUME DecoderInv PROVE EveryMessageOnce
    OBVIOUS
  <2>0. TableInv /\ LogInv
    BY DEF DecoderInv
  <2>1. ASSUME tick_queue # << >>, ~exit_flag, Cardinality(heard) <= K_MAX_MESSAGES,
               NEW m \in heard
        PROVE  Logged(m) \/ LeftOut(m)
    <3>1. m \in Messages /\ ~Showing
      BY <2>0, <2>1 DEF TableInv, LogInv, Showing
    <3>2. InTable(m)
      <4> SUFFICES ASSUME Entered = InSlot PROVE InTable(m)
        BY <2>0, <2>1 DEF TableInv
      <4>1. decoded_hashtable \in Injection(InSlot, heard)
        <5>1. \A p \in InSlot : decoded_hashtable[p] \in Messages /\ InTable(decoded_hashtable[p])
          BY <2>0 DEF TableInv, Entered, InTable
        <5>2. \A p \in InSlot : decoded_hashtable[p] \in heard
          BY <2>0, <5>1 DEF TableInv
        <5>3. decoded_hashtable \in [InSlot -> heard]
          BY <2>0, <5>2 DEF TableInv
        <5>4. \A p, q \in InSlot : decoded_hashtable[p] = decoded_hashtable[q] => p = q
          BY <2>0 DEF TableInv
        <5> QED
          BY <5>3, <5>4 DEF Injection, IsInjective
      <4>2. /\ Cardinality(InSlot) <= Cardinality(heard)
            /\ Cardinality(InSlot) = Cardinality(heard) => decoded_hashtable \in Surjection(InSlot, heard)
        BY <2>0, <4>1, FS_Injection DEF TableInv
      <4>3. Cardinality(heard) \in Nat
        BY <2>0, FS_CardinalityType DEF TableInv
      <4>4. decoded_hashtable \in Surjection(InSlot, heard)
        BY <2>1, <4>2, <4>3, PlacesFinite, DecoderAssumption
      <4> QED
        BY <2>1, <4>4 DEF Surjection, InTable
    <3> QED
      BY <2>0, <3>1, <3>2 DEF LogInv
  <2> QED
    BY <2>0, <2>1 DEF EveryMessageOnce, LogInv, Logged, LeftOut
<1> QED
  BY <1>1, DecoderInvariant, PTL

(* As long as the contact stays the same during decode(), the three        *)
(* readings of it agree, and the window shows exactly the peer's messages. *)
THEOREM WindowShowsThePeer == Spec => []InfoIsPeers
<1>1. DecoderInv => InfoIsPeers
  BY DEF DecoderInv, InfoInv
<1> QED
  BY <1>1, DecoderInvariant, PTL

(* For every table size and every hash function: until callsign_hashtable  *)
(* is full, hashtable_lookup() resolves each hash to the call last saved   *)
(* under it, although it scans where hashtable_add() probes; the hash is   *)
(* in the table once at most.                                              *)
THEOREM HashesResolve == Spec => []CallsResolve
<1>1. HashInv => CallsResolve
  <2> SUFFICES ASSUME HashInv PROVE CallsResolve
    OBVIOUS
  <2> DEFINE used == {i \in Places : callsign_hashtable[i].used}
  <2>1. ASSUME NEW i \in used, NEW j \in used, callsign_hashtable[i].n22 = callsign_hashtable[j].n22
        PROVE  i = j
    <3> DEFINE h == callsign_hashtable[i].n22
    <3>1. callsign_hashtable[i] \in Entries /\ callsign_hashtable[i].used
      BY DEF HashInv, Sound
    <3>2. h \in Hashes
      BY <3>1, EntryHash
    <3>3. Holds(callsign_hashtable, i, h) /\ Holds(callsign_hashtable, j, h)
      BY <2>1 DEF Holds
    <3> QED
      BY <3>2, <3>3 DEF HashInv, Sound
  <2>2. ASSUME used # Places, NEW h \in Hashes
        PROVE  HashtableLookup(callsign_hashtable, 22, h) = lastSaved[h]
    <3>1. ~Full(callsign_hashtable)
      BY <2>2 DEF Full
    <3> QED
      BY <3>1, LookupFinds DEF HashInv
  <2> QED
    BY <2>1, <2>2 DEF CallsResolve
<1>2. Spec => []HashInv
  BY HashInit, HashStep, PTL DEF Spec
<1> QED
  BY <1>1, <1>2, PTL
=============================================================================
