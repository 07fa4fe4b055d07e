---------------------------- MODULE CallsignHash ----------------------------
(***************************************************************************)
(* The table of callsigns of src/rtlsdr_ft8d.cpp.  FT8 sends some calls as *)
(* a hash of 22 or 12 bits; the decoder saves every call it reads in clear *)
(* under its 22-bit hash and looks hashes up when it unpacks a message.    *)
(***************************************************************************)
EXTENDS Naturals, FiniteSetsExt

CONSTANTS
    Calls,        \* callsigns
    N22(_),       \* the 22-bit hash of a call
    CALLSIGN_HASH_TABLE_SIZE

ASSUME CallsignHashAssumption ==
    /\ \A c \in Calls : N22(c) \in 0 .. 2^22 - 1
    /\ CALLSIGN_HASH_TABLE_SIZE \in Nat \ {0}

Hashes == {N22(c) : c \in Calls}
Places == 0 .. CALLSIGN_HASH_TABLE_SIZE - 1
Unused == [used |-> FALSE]
Entry(c, h) == [used |-> TRUE, n22 |-> h, callsign |-> c]
Nobody == "..."   \* what a hash without a call is printed as

hashtable_init == [i \in Places |-> Unused]

(* Where a probe for hash h ends: the i-th place it visits is unused or    *)
(* holds h already.                                                        *)
Visited(h, i) == (h + i) % CALLSIGN_HASH_TABLE_SIZE
Ends(table, h) ==
    {i \in Places : LET e == table[Visited(h, i)] IN ~e.used \/ e.n22 = h}

(* Mutation: the first place is taken whatever it holds. *)
HashtableAdd_NoProbe(table, c) ==
    [table EXCEPT ![Visited(N22(c), 0)] = Entry(c, N22(c))]

(* A table without a place for the call is left as it is. *)
HashtableAdd(table, c) ==
    LET add[h \in Nat] ==
            LET ends == Ends(table, h)
            IN IF ends = {} THEN table
               ELSE [table EXCEPT ![Visited(h, Min(ends))] = Entry(c, h)]
    IN add[N22(c)]

(* The hash under which a width knows an entry. *)
Reduced(width, n22) == IF width = 22 THEN n22 ELSE n22 \div 2^(22 - width)

(* The first entry in the order of the table, not of the probe. *)
HashtableLookup(table, width, hash) ==
    LET found == {i \in Places : table[i].used /\ Reduced(width, table[i].n22) = hash}
    IN IF found = {} THEN Nobody ELSE table[Min(found)].callsign
=============================================================================
