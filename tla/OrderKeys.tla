------------------------------ MODULE OrderKeys ------------------------------
(***************************************************************************)
(* The sort keys of queued messages, projects and pinned threads.  A key   *)
(* is a string of digits, and a row that is added or moved gets a key      *)
(* between those of its new neighbours; no other row changes.  A list is   *)
(* ordered by key and then by id.                                          *)
(*                                                                         *)
(* One list stands for all three: new rows come last (messages, projects)  *)
(* or first (pinned threads), and a hidden row is a claimed message or an  *)
(* archived thread, which keeps its key but is no neighbour.               *)
(***************************************************************************)
EXTENDS Integers, Sequences

CONSTANTS
    Base,       \* digits of the alphabet
    Row,        \* ids of rows, in the order of the ids
    Migrated,   \* keys of the rows that a migration numbered
    MaxLength   \* bound: digits of a key

Digit == 0 .. Base - 1
String == Seq(Digit)

\* Between two digits that differ by more than one there is a third; 62 in the code.
ASSUME BaseAssumption == Base \in Nat /\ Base >= 3
ASSUME RowAssumption == Row \subseteq Nat \ {0} /\ MaxLength \in Nat
\* printf('%016d', row number): as many digits each, and numbered from 1.
ASSUME MigratedAssumption ==
    /\ DOMAIN Migrated \subseteq Row
    /\ \A r \in DOMAIN Migrated :
        /\ Migrated[r] \in String
        /\ \A q \in DOMAIN Migrated : Len(Migrated[r]) = Len(Migrated[q])
        /\ \E i \in 1 .. Len(Migrated[r]) : Migrated[r][i] # 0

VARIABLES
    key,    \* sort_key, <<>> if there is no such row
    hidden  \* rows that are claimed or archived

vars == <<key, hidden>>

None == 0

-----------------------------------------------------------------------------
(* Keys.  No neighbour is the empty key here, which no row has.            *)

\* Comparison of strings.
Less(a, b) ==
    \E i \in 1 .. Len(b) :
       /\ i <= Len(a) => a[i] < b[i]
       /\ \A j \in 1 .. (i - 1) : j <= Len(a) /\ a[j] = b[j]

\* getOrderKeyDigit
DigitAt(k, i, fallback) == IF i <= Len(k) THEN k[i] ELSE fallback

Low(p, i) == DigitAt(p, i, 0)
High(n, i) == DigitAt(n, i, Base - 1)

Longer(a, b) == IF Len(a) > Len(b) THEN Len(a) ELSE Len(b)

\* Mutant: neighbouring digits are taken for a gap.
IsFirstNarrowGap(p, n, k) ==
    /\ High(n, k) - Low(p, k) >= 1
    /\ \A i \in 1 .. (k - 1) : High(n, i) - Low(p, i) < 1

\* The first digit with room between the neighbours.
IsFirstGap(p, n, k) ==
    /\ High(n, k) - Low(p, k) > 1
    /\ \A i \in 1 .. (k - 1) : High(n, i) - Low(p, i) <= 1

\* Mutant: the digits before the gap are those of the next key.
KeyAtAfterNext(p, n, k) ==
    [i \in 1 .. k |-> IF i < k THEN High(n, i) ELSE (Low(p, i) + High(n, i)) \div 2]

\* The digits of the previous key up to the gap, and the middle of the gap.
KeyAt(p, n, k) ==
    [i \in 1 .. k |-> IF i < k THEN Low(p, i) ELSE (Low(p, i) + High(n, i)) \div 2]

\* createOrderKeyBetween, createOrderKeyAfter
Between(p, n) ==
    KeyAt(p, n, CHOOSE k \in 1 .. (Longer(p, n) + 1) : IsFirstGap(p, n, k))

\* assertCandidateOrderKey
Fits(k, p, n) ==
    /\ p # <<>> => Less(p, k)
    /\ n # <<>> => Less(k, n)

-----------------------------------------------------------------------------
(* A list.                                                                 *)

Rows == {r \in Row : key[r] # <<>>}
Shown == Rows \ hidden
KeyOf(r) == IF r = None THEN <<>> ELSE key[r]
Before(i, j) == Less(key[i], key[j]) \/ (key[i] = key[j] /\ i < j)

\* The ends of the list, hidden rows included.
Last == {r \in Rows : \A q \in Rows \ {r} : Before(q, r)}
First == {r \in Rows : \A q \in Rows \ {r} : Before(r, q)}

Init ==
    /\ key = [r \in Row |-> IF r \in DOMAIN Migrated THEN Migrated[r] ELSE <<>>]
    /\ hidden = {}

\* A row gets a key, unless the key does not fit: that is an error.
Place(r, p, n) ==
    LET k == Between(p, n) IN
    /\ Fits(k, p, n)
    /\ Len(k) <= MaxLength
    /\ key' = [key EXCEPT ![r] = k]

\* createQueuedThreadMessageInTransaction, insertProject
AddLast(r) ==
    /\ r \notin Rows
    /\ IF Rows = {} THEN Place(r, <<>>, <<>>) ELSE \E l \in Last : Place(r, key[l], <<>>)
    /\ UNCHANGED hidden

\* pinThread
AddFirst(r) ==
    /\ r \notin Rows
    /\ IF Rows = {} THEN Place(r, <<>>, <<>>) ELSE \E f \in First : Place(r, <<>>, key[f])
    /\ UNCHANGED hidden

\* The row is where it is to go.
AtPlace(r, p, n) ==
    /\ {q \in Shown : Before(q, r) /\ \A s \in Shown : ~ (Before(q, s) /\ Before(s, r))} = {p} \ {None}
    /\ {q \in Shown : Before(r, q) /\ \A s \in Shown : ~ (Before(r, s) /\ Before(s, q))} = {n} \ {None}

\* reorderQueuedThreadMessage, reorderProject, reorderPinnedThread: the client names
\* the neighbours it sees, which may be neighbours no more.
Move(r, p, n) ==
    /\ r \in Shown /\ {p, n} \subseteq (Shown \ {r}) \union {None}
    /\ p # None /\ n # None => Less(key[p], key[n])
    /\ ~ AtPlace(r, p, n)
    /\ Place(r, KeyOf(p), KeyOf(n))
    /\ UNCHANGED hidden

\* A message is deleted or sent, a project deleted, a thread unpinned.
Remove(r) ==
    /\ r \in Rows
    /\ key' = [key EXCEPT ![r] = <<>>]
    /\ hidden' = hidden \ {r}

\* A message is claimed, a pinned thread archived.
Hide(r) ==
    /\ r \in Shown
    /\ hidden' = hidden \union {r} /\ UNCHANGED key

\* A claim is released, a thread unarchived.
Show(r) ==
    /\ r \in hidden
    /\ hidden' = hidden \ {r} /\ UNCHANGED key

Next ==
    \E r \in Row :
       \/ AddLast(r) \/ AddFirst(r) \/ Remove(r) \/ Hide(r) \/ Show(r)
       \/ \E p, n \in Row \union {None} : Move(r, p, n)

Spec == Init /\ [][Next]_vars

-----------------------------------------------------------------------------
(* Properties.                                                             *)

\* A key that does not end with the first digit of the alphabet.
Key == {k \in String : k # <<>> /\ k[Len(k)] # 0}

\* The rows that still have the key of the migration.
Kept == {r \in DOMAIN Migrated : key[r] = Migrated[r]}

\* Keys have digits of the alphabet, and every one that was made ends above the first
\* digit; those of a migration are numerals and may end with it.
TypeOK ==
    /\ key \in [Row -> String] /\ hidden \subseteq Rows
    /\ \A r \in Rows \ Kept : key[r] \in Key

\* The upper key is the lower one followed by first digits only: no string is between.
Flush(p, n) ==
    /\ Len(p) < Len(n)
    /\ \A i \in 1 .. Len(n) : n[i] = IF i <= Len(p) THEN p[i] ELSE 0

\* Whatever was added, moved and removed before, a row fits between any two rows of
\* different keys, and before and after every row, with a key at most one digit longer than
\* theirs: createOrderKeyBetween does not throw "Generated order key must sort before next
\* order key".  Except below a row that kept its migrated numeral and above one that was
\* moved to the same numeral without its last zeros, where it always throws.
HasRoom ==
    \A p, n \in Rows \union {None} :
       (p # None /\ n # None => Less(key[p], key[n])) =>
          LET k == Between(KeyOf(p), KeyOf(n)) IN
          /\ Len(k) <= Longer(KeyOf(p), KeyOf(n)) + 1
          /\ Fits(k, KeyOf(p), KeyOf(n)) <=> ~Flush(KeyOf(p), KeyOf(n))
          /\ Flush(KeyOf(p), KeyOf(n)) => n \in Kept /\ p \notin Kept \union {None}
=============================================================================
