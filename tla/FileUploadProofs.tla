-------------------------- MODULE FileUploadProofs --------------------------
(***************************************************************************)
(* That an upload which a client reports is the one stored, for any        *)
(* clients and batches, also with names that occur twice, any number of    *)
(* attempts, rows and deletions, with and without faults.                  *)
(*                                                                         *)
(* Every file that is being uploaded has a row of its own: the transaction *)
(* that gave it to its client inserted it, and nobody else gets it.        *)
(***************************************************************************)
EXTENDS FileUpload, FiniteSetTheorems, TLAPS

\* Nothing is known of a row before it is inserted.
RowsInv ==
    /\ \A r \in RowId \ DOMAIN rows : state[r] = "none"
    /\ cancels \subseteq DOMAIN rows

\* A file that is being uploaded, or was, has a row that nobody asked to cancel
\* and no other file has.
HasRow(x) == ipc[x] \in {"check", "send", "confirm", "cancel", "UPLOADED"}
OwnRow ==
    /\ \A x \in Item :
          HasRow(x) => /\ x[2] \in DOMAIN creds[x[1]]
                       /\ Row(x) \in DOMAIN rows \ cancels
    /\ \A x, y \in Item : HasRow(x) /\ HasRow(y) /\ Row(x) = Row(y) => x = y

\* What was sent is there until the row is deleted.
Sent ==
    \A x \in Item :
        ipc[x] \in {"confirm", "UPLOADED"} =>
            state[Row(x)] = "deleted" \/ object[Row(x)] = x

\* The states of Live.
InUse == {"UPLOADING", "OK", "ERROR"}

IInv == TypeOK /\ RowsInv /\ OwnRow /\ Sent /\ UploadedIsMine

-----------------------------------------------------------------------------
(***************************************************************************)
(* Sequences: what Pick, Without and Distinct return.                      *)
(***************************************************************************)
\* A larger element of a finite set of numbers has more of them before it.
LEMMA BeforeGrows ==
  ASSUME NEW I \in SUBSET Nat, IsFiniteSet(I)
  PROVE  /\ \A i \in I : Before(I, i) \in Nat /\ Before(I, i) < Cardinality(I)
         /\ \A i, j \in I : i < j => Before(I, i) < Before(I, j)
<1>1. Cardinality(I) \in Nat
  BY FS_CardinalityType
<1>2. ASSUME NEW i \in I
      PROVE  Before(I, i) \in Nat /\ Before(I, i) < Cardinality(I)
  <2>1. IsFiniteSet(I \ {i}) /\ Cardinality(I \ {i}) = Cardinality(I) - 1
    BY FS_RemoveElement
  <2>2. {j \in I : j < i} \in SUBSET (I \ {i})
    OBVIOUS
  <2>3. IsFiniteSet({j \in I : j < i}) /\ Before(I, i) <= Cardinality(I) - 1
    BY <2>1, <2>2, FS_Subset DEF Before
  <2>4. Before(I, i) \in Nat
    BY <2>3, FS_CardinalityType DEF Before
  <2> QED
    BY <1>1, <2>3, <2>4
<1>3. ASSUME NEW i \in I, NEW j \in I, i < j PROVE Before(I, i) < Before(I, j)
  <2>1. {h \in I : h < i} \in SUBSET {h \in I : h < j}
    <3>1. ASSUME NEW h \in I, h < i PROVE h < j
      BY <1>3, <3>1
    <3> QED
      BY <3>1
  <2>2. i \in {h \in I : h < j} /\ i \notin {h \in I : h < i}
    BY <1>3
  <2>3. IsFiniteSet({h \in I : h < j})
    BY FS_Subset
  <2>4. Before(I, i) <= Before(I, j) /\ Before(I, i) # Before(I, j)
    BY <2>1, <2>2, <2>3, FS_Subset DEF Before
  <2> QED
    BY <1>2, <2>4
<1> QED
  BY <1>2, <1>3

\* So one of them has any number of them before it.
LEMMA BeforeAll ==
  ASSUME NEW I \in SUBSET Nat, IsFiniteSet(I)
  PROVE  /\ Cardinality(I) \in Nat
         /\ \A k \in 1..Cardinality(I) : \E i \in I : Before(I, i) = k - 1
         /\ \A i \in I : Before(I, i) + 1 \in 1..Cardinality(I)
         /\ \A i, j \in I : Before(I, i) = Before(I, j) => i = j
<1> DEFINE f == [i \in I |-> Before(I, i) + 1]
<1>1. Cardinality(I) \in Nat
  BY FS_CardinalityType
<1>2. \A i \in I : Before(I, i) \in Nat /\ Before(I, i) + 1 \in 1..Cardinality(I)
  BY <1>1, BeforeGrows
<1>3. ASSUME NEW i \in I, NEW j \in I, Before(I, i) = Before(I, j) PROVE i = j
  <2>1. ~(i < j) /\ ~(j < i)
    BY <1>2, <1>3, BeforeGrows
  <2> QED
    BY <2>1
<1>4. f \in Injection(I, 1..Cardinality(I))
  <2>1. f \in [I -> 1..Cardinality(I)]
    BY <1>2
  <2>2. ASSUME NEW i \in I, NEW j \in I, f[i] = f[j] PROVE i = j
    BY <1>2, <1>3, <2>2
  <2> QED
    BY <2>1, <2>2 DEF Injection, IsInjective
<1>5. IsFiniteSet(1..Cardinality(I)) /\ Cardinality(1..Cardinality(I)) = Cardinality(I)
  BY <1>1, FS_Interval
<1>6. f \in Surjection(I, 1..Cardinality(I))
  BY <1>4, <1>5, FS_Injection
<1>7. ASSUME NEW k \in 1..Cardinality(I) PROVE \E i \in I : Before(I, i) = k - 1
  <2>1. PICK i \in I : f[i] = k
    BY <1>6 DEF Surjection
  <2> QED
    BY <1>2, <2>1
<1> QED
  BY <1>1, <1>2, <1>3, <1>7

\* The elements that Pick returns are those at the positions, each once.
LEMMA Picked ==
  ASSUME NEW T, NEW s \in Seq(T), NEW I \in SUBSET DOMAIN s
  PROVE  /\ Pick(s, I) \in Seq(T)
         /\ \A k \in DOMAIN Pick(s, I) : \E i \in I : Pick(s, I)[k] = s[i]
         /\ \A i \in I : \E k \in DOMAIN Pick(s, I) : Pick(s, I)[k] = s[i]
         /\ (\A i, j \in I : s[i] = s[j] => i = j) =>
               \A k, l \in DOMAIN Pick(s, I) : Pick(s, I)[k] = Pick(s, I)[l] => k = l
<1> DEFINE n == Cardinality(I)
           At(k) == CHOOSE i \in I : Before(I, i) = k - 1
<1>1. I \in SUBSET Nat /\ IsFiniteSet(I)
  <2>1. DOMAIN s = 1..Len(s) /\ Len(s) \in Nat
    OBVIOUS
  <2>2. IsFiniteSet(1..Len(s))
    BY <2>1, FS_Interval
  <2> QED
    BY <2>1, <2>2, FS_Subset
<1>2. /\ n \in Nat
      /\ \A k \in 1..n : At(k) \in I /\ Before(I, At(k)) = k - 1
      /\ \A i \in I : Before(I, i) + 1 \in 1..n
      /\ \A i, j \in I : Before(I, i) = Before(I, j) => i = j
  BY <1>1, BeforeAll
<1>3. Pick(s, I) = [k \in 1..n |-> s[At(k)]]
  BY DEF Pick
<1> HIDE DEF n, At
<1>4. DOMAIN Pick(s, I) = 1..n /\ \A k \in 1..n : Pick(s, I)[k] = s[At(k)]
  BY <1>3
<1>5. Pick(s, I) \in Seq(T)
  <2>1. \A k \in 1..n : s[At(k)] \in T
    BY <1>2
  <2> QED
    BY <1>2, <1>3, <2>1
<1>6. ASSUME NEW i \in I PROVE \E k \in 1..n : Pick(s, I)[k] = s[i]
  <2>0. Before(I, i) \in Nat
    BY <1>1, BeforeGrows
  <2>1. Before(I, i) + 1 \in 1..n /\ Before(I, i) \in Int
    BY <1>2, <2>0
  <2>2. Before(I, At(Before(I, i) + 1)) = Before(I, i) /\ At(Before(I, i) + 1) \in I
    BY <1>2, <2>1
  <2>3. At(Before(I, i) + 1) = i
    BY <1>2, <2>2
  <2> QED
    BY <1>4, <2>1, <2>3
<1>7. ASSUME \A i, j \in I : s[i] = s[j] => i = j,
             NEW k \in 1..n, NEW l \in 1..n, Pick(s, I)[k] = Pick(s, I)[l]
      PROVE  k = l
  <2>1. At(k) = At(l)
    BY <1>2, <1>4, <1>7
  <2> QED
    BY <1>2, <2>1
<1> QED
  BY <1>2, <1>4, <1>5, <1>6, <1>7

\* Without keeps the other elements.
LEMMA Filtered ==
  ASSUME NEW T, NEW s \in Seq(T), NEW S
  PROVE  /\ Without(s, S) \in Seq(T)
         /\ \A k \in DOMAIN Without(s, S) :
               Without(s, S)[k] \notin S /\ \E i \in DOMAIN s : Without(s, S)[k] = s[i]
         /\ \A i \in DOMAIN s :
               s[i] \notin S => \E k \in DOMAIN Without(s, S) : Without(s, S)[k] = s[i]
<1> DEFINE I == {k \in DOMAIN s : s[k] \notin S}
<1>1. I \in SUBSET DOMAIN s /\ Without(s, S) = Pick(s, I)
  BY DEF Without
<1>2. \A i \in DOMAIN s : i \in I <=> s[i] \notin S
  OBVIOUS
<1> HIDE DEF I
<1> QED
  BY <1>1, <1>2, Picked

\* No name occurs twice among the distinct ones.
LEMMA DistinctOnce ==
  ASSUME NEW T, NEW s \in Seq(T)
  PROVE  /\ Distinct(s) \in Seq(T)
         /\ \A k, l \in DOMAIN Distinct(s) : Distinct(s)[k] = Distinct(s)[l] => k = l
<1> DEFINE I == {i \in DOMAIN s : \A j \in 1..(i - 1) : s[j] # s[i]}
<1>1. I \in SUBSET DOMAIN s /\ Distinct(s) = Pick(s, I)
  BY DEF Distinct
<1>2. ASSUME NEW i \in I, NEW j \in I, s[i] = s[j] PROVE i = j
  <2>1. DOMAIN s = 1..Len(s) /\ Len(s) \in Nat
    OBVIOUS
  <2>2. i \notin 1..(j - 1) /\ j \notin 1..(i - 1)
    BY <1>2
  <2> QED
    BY <2>1, <2>2
<1> HIDE DEF I
<1>3. \A i, j \in I : s[i] = s[j] => i = j
  BY <1>2
<1>4. Pick(s, I) \in Seq(T)
  BY <1>1, Picked
<1>5. \A k, l \in DOMAIN Pick(s, I) : Pick(s, I)[k] = Pick(s, I)[l] => k = l
  BY <1>1, <1>3, Picked
<1> QED
  BY <1>1, <1>4, <1>5

-----------------------------------------------------------------------------
(***************************************************************************)
(* What the clients ask for and are given.                                 *)
(***************************************************************************)
USE UploadAssumption
USE DEF database, client

LEMMA Items ==
  /\ \A x \in Item : /\ x[1] \in Client /\ x[2] \in DOMAIN Batch[x[1]]
                     /\ x = <<x[1], x[2]>> /\ x # Nothing
  /\ \A c \in Client : \A i \in DOMAIN Batch[c] : <<c, i>> \in Item
<1>1. \A x : x \in Item <=> \E c \in Client : \E i \in DOMAIN Batch[c] : x = <<c, i>>
  BY DEF Item
<1>2. ASSUME NEW x \in Item
      PROVE  /\ x[1] \in Client /\ x[2] \in DOMAIN Batch[x[1]]
             /\ x = <<x[1], x[2]>> /\ x # Nothing
  <2>1. PICK c \in Client : \E i \in DOMAIN Batch[c] : x = <<c, i>>
    BY <1>1
  <2>2. PICK i \in DOMAIN Batch[c] : x = <<c, i>>
    BY <2>1
  <2> QED
    BY <2>2 DEF Nothing
<1> QED
  BY <1>1, <1>2

\* The list of names is not the client's batch, but has no name twice.
LEMMA Lists ==
  ASSUME NEW c \in Client
  PROVE  /\ Requested(c) \in Seq(Name) /\ Inserted(c) \in Seq(Name)
         /\ \A k, l \in DOMAIN Requested(c) :
               Requested(c)[k] = Requested(c)[l] => k = l
         /\ \A k \in DOMAIN Requested(c) :
               Requested(c)[k] \notin Unsupported =>
                  \E l \in DOMAIN Inserted(c) : Inserted(c)[l] = Requested(c)[k]
<1>1. Batch[c] \in Seq(Name)
  OBVIOUS
<1>2. Requested(c) \in Seq(Name)
  BY <1>1, DistinctOnce DEF Requested
<1>3. \A k, l \in DOMAIN Requested(c) : Requested(c)[k] = Requested(c)[l] => k = l
  BY <1>1, DistinctOnce DEF Requested
<1>4. Inserted(c) \in Seq(Name)
  BY <1>2, Filtered DEF Inserted
<1>5. \A k \in DOMAIN Requested(c) :
         Requested(c)[k] \notin Unsupported =>
            \E l \in DOMAIN Inserted(c) : Inserted(c)[l] = Requested(c)[k]
  <2> DEFINE s == Requested(c)
  <2>1. s \in Seq(Name)
    BY <1>2
  <2> HIDE DEF s
  <2> DEFINE w == Without(s, Unsupported)
  <2>2. /\ w \in Seq(Name)
        /\ \A i \in DOMAIN s : s[i] \notin Unsupported => \E l \in DOMAIN w : w[l] = s[i]
    <3> HIDE UploadAssumption
    <3> QED
      BY <2>1, Filtered
  <2> QED
    BY <2>2 DEF Inserted, s
<1> QED
  BY <1>2, <1>3, <1>4, <1>5

\* A transaction that is not refused inserts a row for each name that it gives
\* one to.
LEMMA NewRows ==
  ASSUME TypeOK, NEW c \in Client, ~Conflicts(c),
         NEW all, all = rows \o Without(Inserted(c), Taken)
  PROVE  /\ all \in Seq(Name) /\ Len(rows) \in Nat /\ Len(all) \in Nat
         /\ Len(rows) <= Len(all)
         /\ \A k \in DOMAIN Requested(c) :
               Requested(c)[k] \notin Unsupported =>
                  /\ RowOf(Requested(c)[k], all) \in (Len(rows) + 1)..Len(all)
                  /\ all[RowOf(Requested(c)[k], all)] = Requested(c)[k]
<1> DEFINE new == Without(Inserted(c), Taken)
<1>1. rows \in Seq(Name)
  BY DEF TypeOK
<1>2. new \in Seq(Name)
  BY Lists, Filtered
<1> HIDE DEF new
<1>3. all = rows \o new
  BY DEF new
<1>4. /\ all \in Seq(Name) /\ Len(rows) \in Nat /\ Len(new) \in Nat
      /\ Len(all) = Len(rows) + Len(new)
      /\ DOMAIN all = 1..Len(all) /\ DOMAIN rows = 1..Len(rows)
      /\ DOMAIN new = 1..Len(new)
      /\ \A r \in 1..Len(rows) : all[r] = rows[r]
      /\ \A l \in 1..Len(new) : all[Len(rows) + l] = new[l]
  BY <1>1, <1>2, <1>3
<1>5. ASSUME NEW k \in DOMAIN Requested(c), Requested(c)[k] \notin Unsupported
      PROVE  /\ RowOf(Requested(c)[k], all) \in (Len(rows) + 1)..Len(all)
             /\ all[RowOf(Requested(c)[k], all)] = Requested(c)[k]
  <2> DEFINE n == Requested(c)[k]
             r == RowOf(n, all)
  <2>1. PICK l \in DOMAIN Inserted(c) : Inserted(c)[l] = n
    BY <1>5, Lists
  <2>2. n \notin Taken
    BY <2>1 DEF Conflicts
  <2>3. PICK m \in DOMAIN new : new[m] = n
    <3>1. Inserted(c) \in Seq(Name)
      BY Lists
    <3> QED
      BY <2>1, <2>2, <3>1, Filtered DEF new
  <2>4. Len(rows) + m \in DOMAIN all /\ all[Len(rows) + m] = n
        /\ Len(rows) + m > Len(rows)
    BY <1>4, <2>3
  <2> HIDE DEF n
  <2>5. r = CHOOSE q \in DOMAIN all : all[q] = n /\ (Live(q) \/ q > Len(rows))
    BY <1>5 DEF RowOf, n
  <2>6. r \in DOMAIN all /\ all[r] = n /\ (Live(r) \/ r > Len(rows))
    <3> HIDE DEF r
    <3> QED
      BY <2>4, <2>5
  <2> HIDE DEF r
  <2>7. ~Live(r) \/ r > Len(rows)
    BY <1>4, <2>2, <2>6 DEF Taken, Live
  <2>8. r \in (Len(rows) + 1)..Len(all) /\ all[r] = n
    BY <1>4, <2>6, <2>7
  <2> QED
    BY <2>8 DEF r, n
<1> QED
  BY <1>4, <1>5

-----------------------------------------------------------------------------
(***************************************************************************)
(* The inductive invariant.                                                *)
(***************************************************************************)
\* Nothing was asked for yet.
LEMMA InitIInv ==
  ASSUME Init
  PROVE  IInv
<1>1. TypeOK
  BY DEF Init, TypeOK, RowId
<1>2. RowsInv
  BY DEF Init, RowsInv
<1>3. OwnRow /\ Sent /\ UploadedIsMine
  BY DEF Init, OwnRow, HasRow, Sent, UploadedIsMine
<1> QED
  BY <1>1, <1>2, <1>3 DEF IInv

\* The credentials stay with their files.
LEMMA OwnKept ==
  ASSUME OwnRow, UNCHANGED <<rows, creds>>, cancels' \subseteq cancels,
         \A x \in Item : HasRow(x)' => HasRow(x)
  PROVE  OwnRow'
<1>1. \A x \in Item : Row(x)' = Row(x)
  BY DEF Row
<1> QED
  BY <1>1 DEF OwnRow

\* What was sent stays when neither the row nor the object of such a file changes.
LEMMA SentKept ==
  ASSUME Sent, UNCHANGED <<rows, creds>>,
         \A x \in Item : ipc'[x] \in {"confirm", "UPLOADED"} =>
            /\ ipc[x] = ipc'[x]
            /\ state'[Row(x)] = "deleted" \/ object'[Row(x)] = object[Row(x)]
            /\ state[Row(x)] = "deleted" => state'[Row(x)] = "deleted"
  PROVE  Sent'
<1>1. \A x \in Item : Row(x)' = Row(x)
  BY DEF Row
<1> QED
  BY <1>1 DEF Sent

\* Likewise for what was reported as uploaded.
LEMMA MineKept ==
  ASSUME UploadedIsMine, UNCHANGED <<rows, creds>>,
         \A x \in Item : ipc'[x] = "UPLOADED" =>
            /\ ipc[x] = "UPLOADED"
            /\ \/ state'[Row(x)] = "deleted"
               \/ /\ object'[Row(x)] = object[Row(x)]
                  /\ state[Row(x)] \in InUse => state'[Row(x)] \in InUse
            /\ state[Row(x)] = "deleted" => state'[Row(x)] = "deleted"
  PROVE  UploadedIsMine'
<1>1. \A x \in Item : Row(x)' = Row(x)
  BY DEF Row
<1> QED
  BY <1>1 DEF UploadedIsMine, Live, InUse

\* A file that starts a step has a row of its own.
LEMMA HasOwn ==
  ASSUME IInv, NEW x \in Item, HasRow(x)
  PROVE  /\ Row(x) \in RowId /\ Row(x) \in DOMAIN rows \ cancels
         /\ \A y \in Item : HasRow(y) /\ y # x => Row(y) # Row(x)
<1>1. Row(x) \in DOMAIN rows \ cancels
  BY DEF IInv, OwnRow
<1>2. rows \in Seq(Name) /\ Len(rows) <= MaxRow
  BY DEF IInv, TypeOK
<1>3. Row(x) \in RowId
  BY <1>1, <1>2 DEF RowId
<1> QED
  BY <1>1, <1>3 DEF IInv, OwnRow

LEMMA CheckStep ==
  ASSUME IInv, NEW x \in Item, Check(x)
  PROVE  IInv'
<1>1. /\ \E s \in {"send", "cancel"} : ipc' = [ipc EXCEPT ![x] = s]
      /\ ipc[x] = "check"
      /\ UNCHANGED <<rows, state, job, object, cancels, pc, creds, attempt, tries, deletes>>
  BY DEF Check, SetItem
<1>2. TypeOK' /\ RowsInv'
  BY <1>1 DEF IInv, TypeOK, RowsInv
<1>3. \A y \in Item : /\ HasRow(y)' => HasRow(y)
                      /\ ipc'[y] \in {"confirm", "UPLOADED"} => ipc'[y] = ipc[y]
  BY <1>1 DEF HasRow, IInv, TypeOK
<1>4. OwnRow'
  BY <1>1, <1>3, OwnKept DEF IInv
<1>5. Sent'
  BY <1>1, <1>3, SentKept DEF IInv
<1>6. UploadedIsMine'
  BY <1>1, <1>3, MineKept DEF IInv
<1> QED
  BY <1>2, <1>4, <1>5, <1>6 DEF IInv

LEMMA SendStep ==
  ASSUME IInv, NEW x \in Item, Send(x)
  PROVE  IInv'
<1>1. /\ ipc[x] = "send"
      /\ \/ /\ object' = [object EXCEPT ![Row(x)] = x]
            /\ ipc' = [ipc EXCEPT ![x] = "confirm"]
         \/ /\ object' \in {object, [object EXCEPT ![Row(x)] = x]}
            /\ ipc' = [ipc EXCEPT ![x] = "cancel"]
      /\ UNCHANGED <<rows, state, job, cancels, pc, creds, attempt, tries, deletes>>
  BY DEF Send, SetItem
<1>2. /\ Row(x) \in RowId /\ HasRow(x)
      /\ \A y \in Item : HasRow(y) /\ y # x => Row(y) # Row(x)
  BY <1>1, HasOwn DEF HasRow
<1>3. TypeOK' /\ RowsInv'
  BY <1>1, <1>2 DEF IInv, TypeOK, RowsInv
<1>4. \A y \in Item : HasRow(y)' => HasRow(y)
  BY <1>1, <1>2 DEF HasRow, IInv, TypeOK
<1>5. OwnRow'
  BY <1>1, <1>4, OwnKept DEF IInv
<1>6. \A y \in Item \ {x} : /\ ipc'[y] = ipc[y]
                            /\ HasRow(y) => object'[Row(y)] = object[Row(y)]
  <2>1. ASSUME NEW y \in Item, y # x PROVE ipc'[y] = ipc[y]
    BY <1>1, <2>1 DEF IInv, TypeOK
  <2>2. ASSUME NEW y \in Item, y # x, HasRow(y)
        PROVE  object'[Row(y)] = object[Row(y)]
    <3>1. Row(y) \in RowId /\ Row(y) # Row(x)
      BY <1>2, <2>2, HasOwn
    <3>2. object \in [RowId -> Item \cup {Nothing}]
      BY DEF IInv, TypeOK
    <3>3. object' = object \/ object' = [object EXCEPT ![Row(x)] = x]
      BY <1>1
    <3> QED
      BY <3>1, <3>2, <3>3
  <2> QED
    BY <2>1, <2>2
<1>7. \A y \in Item : Row(y)' = Row(y)
  BY <1>1 DEF Row
<1>8. Sent'
  <2>1. ipc'[x] = "confirm" => object'[Row(x)] = x
    BY <1>1, <1>2 DEF IInv, TypeOK
  <2>2. ipc'[x] \in {"confirm", "cancel"}
    BY <1>1 DEF IInv, TypeOK
  <2> QED
    BY <1>1, <1>6, <1>7, <2>1, <2>2 DEF IInv, Sent, HasRow
<1>9. UploadedIsMine'
  <2>1. ipc'[x] \in {"confirm", "cancel"}
    BY <1>1 DEF IInv, TypeOK
  <2> QED
    BY <1>1, <1>6, <1>7, <2>1 DEF IInv, UploadedIsMine, HasRow, Live
<1> QED
  BY <1>3, <1>5, <1>8, <1>9 DEF IInv

LEMMA ConfirmStep ==
  ASSUME IInv, NEW x \in Item, Confirm(x)
  PROVE  IInv'
<1> DEFINE r == Row(x)
<1>1. /\ ipc[x] = "confirm"
      /\ UNCHANGED <<rows, object, cancels, pc, creds, attempt, tries, deletes>>
      /\ \E s \in {"UPLOADED", "FAILED"} : ipc' = [ipc EXCEPT ![x] = s]
  BY DEF Confirm, SetItem
<1>2. /\ r \in RowId /\ r \in DOMAIN rows /\ HasRow(x)
      /\ \A y \in Item : HasRow(y) /\ y # x => Row(y) # r
  BY <1>1, HasOwn DEF HasRow
<1>3. \/ /\ Live(r) /\ object[r] # Nothing
         /\ state' = [state EXCEPT ![r] = IF @ = "UPLOADING" THEN "OK" ELSE @]
         /\ job' = [job EXCEPT ![r] = "AWAITING_PROCESSING"]
      \/ /\ UNCHANGED <<state, job>>
         /\ ipc' = [ipc EXCEPT ![x] = "FAILED"]
  BY DEF Confirm, SetItem
<1>4. TypeOK'
  <2>1. state' \in [RowId -> {"none", "UPLOADING", "OK", "ERROR", "removed", "deleted"}]
    BY <1>2, <1>3 DEF IInv, TypeOK
  <2>2. job' \in [RowId -> {"none", "AWAITING_PROCESSING", "CANCELED"}]
    BY <1>2, <1>3 DEF IInv, TypeOK
  <2> QED
    BY <1>1, <2>1, <2>2 DEF IInv, TypeOK
<1>5. \A q \in RowId : q # r => state'[q] = state[q]
  BY <1>3 DEF IInv, TypeOK
<1>6. RowsInv'
  BY <1>1, <1>2, <1>5 DEF IInv, RowsInv
<1>7. \A y \in Item : HasRow(y)' => HasRow(y)
  BY <1>1, <1>2 DEF HasRow, IInv, TypeOK
<1>8. OwnRow'
  BY <1>1, <1>7, OwnKept DEF IInv
<1>9. \A y \in Item \ {x} :
         ipc'[y] = ipc[y] /\ (HasRow(y) => state'[Row(y)] = state[Row(y)])
  <2>1. \A y \in Item : HasRow(y) => Row(y) \in RowId
    BY HasOwn
  <2> QED
    BY <1>1, <1>2, <1>5, <2>1 DEF IInv, TypeOK
<1>10. \A y \in Item : Row(y)' = Row(y)
  BY <1>1 DEF Row
<1>11. ipc'[x] = "UPLOADED" =>
         Live(r)' /\ object'[r] = x /\ ipc'[x] # "confirm"
  <2>1. CASE ipc'[x] = "UPLOADED"
    <3>1. Live(r) /\ object[r] # Nothing
          /\ state' = [state EXCEPT ![r] = IF @ = "UPLOADING" THEN "OK" ELSE @]
      BY <1>3, <2>1 DEF IInv, TypeOK
    <3>2. object[r] = x
      BY <1>1, <3>1 DEF IInv, Sent, Live
    <3>3. state'[r] \in {"OK", "ERROR"}
      BY <1>2, <3>1 DEF IInv, TypeOK, Live
    <3> QED
      BY <1>1, <1>2, <1>10, <2>1, <3>2, <3>3 DEF Live
  <2> QED
    BY <2>1
<1>12. ipc'[x] \in {"UPLOADED", "FAILED"}
  BY <1>1 DEF IInv, TypeOK
<1>13. Sent'
  BY <1>1, <1>9, <1>10, <1>11, <1>12 DEF IInv, Sent, HasRow
<1>14. UploadedIsMine'
  BY <1>1, <1>9, <1>10, <1>11, <1>12 DEF IInv, UploadedIsMine, HasRow, Live
<1> QED
  BY <1>4, <1>6, <1>8, <1>13, <1>14 DEF IInv

LEMMA CancelStep ==
  ASSUME IInv, NEW x \in Item, Cancel(x)
  PROVE  IInv'
<1> DEFINE c == x[1]
<1>1. /\ ipc[x] = "cancel" /\ cancels' \subseteq cancels \cup {Row(x)}
      /\ UNCHANGED <<rows, state, job, object, deletes>>
      /\ \E s \in {"idle", "FAILED"} : ipc' = [ipc EXCEPT ![x] = s]
  BY DEF Cancel, SetItem
<1>2. /\ Row(x) \in RowId /\ Row(x) \in DOMAIN rows /\ HasRow(x)
      /\ \A y \in Item : HasRow(y) /\ y # x => Row(y) # Row(x)
  BY <1>1, HasOwn DEF HasRow
<1>3. \/ /\ c \in Cli /\ attempt[c] + 1 < MaxUploadRetries
         /\ attempt' = [attempt EXCEPT ![c] = attempt[c] + 1]
         /\ tries' = [tries EXCEPT ![c] = 0]
         /\ pc' = [pc EXCEPT ![c] = "ask"]
         /\ creds' = [creds EXCEPT ![c] = <<>>]
      \/ UNCHANGED <<pc, creds, attempt, tries>>
  BY DEF Cancel, NextAttempt
<1>4. c \in Client
  BY Items
<1>5. TypeOK'
  <2>1. /\ attempt' \in [Client -> 0..(MaxUploadRetries - 1)]
        /\ tries' \in [Client -> 0..(MaxAttempts - 1)]
        /\ pc' \in [Client -> {"ask", "upload"}]
        /\ creds' \in [Client -> Seq(RowId \cup {0})]
    <3> HIDE DEF c
    <3>1. /\ attempt \in [Client -> 0..(MaxUploadRetries - 1)]
          /\ tries \in [Client -> 0..(MaxAttempts - 1)]
          /\ pc \in [Client -> {"ask", "upload"}]
          /\ creds \in [Client -> Seq(RowId \cup {0})]
      BY DEF IInv, TypeOK
    <3>2. CASE UNCHANGED <<pc, creds, attempt, tries>>
      BY <3>1, <3>2
    <3>3. CASE /\ attempt[c] + 1 < MaxUploadRetries
               /\ attempt' = [attempt EXCEPT ![c] = attempt[c] + 1]
               /\ tries' = [tries EXCEPT ![c] = 0]
               /\ pc' = [pc EXCEPT ![c] = "ask"]
               /\ creds' = [creds EXCEPT ![c] = <<>>]
      <4>1. MaxUploadRetries \in Nat /\ 0 \in 0..(MaxAttempts - 1)
        OBVIOUS
      <4>2. attempt[c] + 1 \in 0..(MaxUploadRetries - 1)
        BY <1>4, <3>1, <3>3, <4>1
      <4>3. <<>> \in Seq(RowId \cup {0})
        OBVIOUS
      <4>4. creds' \in [Client -> Seq(RowId \cup {0})]
        BY <3>1, <3>3, <4>3
      <4> QED
        BY <3>1, <3>3, <4>1, <4>2, <4>4
    <3> QED
      BY <1>3, <3>2, <3>3
  <2>2. cancels' \subseteq RowId
    BY <1>1, <1>2 DEF IInv, TypeOK
  <2> QED
    BY <1>1, <2>1, <2>2 DEF IInv, TypeOK
<1>6. RowsInv'
  BY <1>1, <1>2 DEF IInv, RowsInv
<1>7. \A y \in Item :
         HasRow(y)' => /\ y # x /\ HasRow(y) /\ ipc'[y] = ipc[y]
                       /\ creds'[y[1]] = creds[y[1]]
  <2> SUFFICES ASSUME NEW y \in Item, HasRow(y)'
               PROVE  /\ y # x /\ HasRow(y) /\ ipc'[y] = ipc[y]
                      /\ creds'[y[1]] = creds[y[1]]
    OBVIOUS
  <2>1. y # x /\ ipc'[y] = ipc[y] /\ HasRow(y)
    BY <1>1 DEF HasRow, IInv, TypeOK
  <2>2. y[1] = c => c \notin Cli
    <3>1. y[2] \in DOMAIN Batch[y[1]] /\ x[2] \in DOMAIN Batch[c] /\ y[1] \in Client
          /\ y = <<y[1], y[2]>> /\ x = <<x[1], x[2]>>
      BY Items
    <3>2. ASSUME y[1] = c, c \in Cli PROVE FALSE
      <4>1. DOMAIN Batch[c] = {1}
        <5>1. Batch[c] \in Seq(Name) /\ Len(Batch[c]) = 1
          BY <1>4, <3>2
        <5> QED
          BY <5>1
      <4> QED
        BY <2>1, <3>1, <3>2, <4>1
    <3> QED
      BY <3>2
  <2>3. creds'[y[1]] = creds[y[1]]
    BY <1>3, <2>2, Items DEF IInv, TypeOK
  <2> QED
    BY <2>1, <2>3
<1>8. \A y \in Item : HasRow(y)' => Row(y)' = Row(y) /\ Row(y) # Row(x)
  BY <1>2, <1>7 DEF Row
<1>9. OwnRow'
  BY <1>1, <1>7, <1>8 DEF IInv, OwnRow
<1>10. Sent' /\ UploadedIsMine'
  BY <1>1, <1>7, <1>8 DEF IInv, Sent, UploadedIsMine, HasRow, Live
<1> QED
  BY <1>5, <1>6, <1>9, <1>10 DEF IInv

LEMMA RefuseStep ==
  ASSUME IInv, NEW c \in Client, Refuse(c)
  PROVE  IInv'
<1>1. UNCHANGED <<rows, state, job, object, cancels, creds, attempt, deletes>>
  BY DEF Refuse
<1>2. \/ /\ tries[c] + 1 < Limit(c)
         /\ tries' = [tries EXCEPT ![c] = tries[c] + 1]
         /\ UNCHANGED <<pc, ipc>>
      \/ /\ pc' = [pc EXCEPT ![c] = "upload"]
         /\ UNCHANGED tries
         /\ \E s \in {"EXISTS", "FAILED"} :
               ipc' = [x \in Item |-> IF x[1] = c THEN s ELSE ipc[x]]
  BY DEF Refuse, SetAll
<1>3. TypeOK'
  <2>1. CASE /\ tries[c] + 1 < Limit(c)
             /\ tries' = [tries EXCEPT ![c] = tries[c] + 1]
             /\ UNCHANGED <<pc, ipc>>
    <3>1. MaxAttempts \in Nat \ {0}
      OBVIOUS
    <3>2. tries \in [Client -> 0..(MaxAttempts - 1)]
      BY DEF IInv, TypeOK
    <3>3. Limit(c) <= MaxAttempts /\ Limit(c) \in Nat
      BY <3>1 DEF Limit
    <3>4. tries[c] + 1 \in 0..(MaxAttempts - 1)
      BY <2>1, <3>1, <3>2, <3>3
    <3>5. tries' \in [Client -> 0..(MaxAttempts - 1)]
      BY <2>1, <3>2, <3>4
    <3> QED
      BY <1>1, <2>1, <3>5 DEF IInv, TypeOK
  <2>2. CASE /\ pc' = [pc EXCEPT ![c] = "upload"]
             /\ UNCHANGED tries
             /\ \E s \in {"EXISTS", "FAILED"} :
                   ipc' = [x \in Item |-> IF x[1] = c THEN s ELSE ipc[x]]
    BY <1>1, <2>2 DEF IInv, TypeOK
  <2> QED
    BY <1>2, <2>1, <2>2
<1>4. RowsInv'
  BY <1>1 DEF IInv, RowsInv
<1>5. \A y \in Item : /\ HasRow(y)' => HasRow(y)
                      /\ ipc'[y] \in {"confirm", "UPLOADED"} => ipc'[y] = ipc[y]
  BY <1>2 DEF HasRow, IInv, TypeOK
<1>6. OwnRow'
  BY <1>1, <1>5, OwnKept DEF IInv
<1>7. Sent'
  BY <1>1, <1>5, SentKept DEF IInv
<1>8. UploadedIsMine'
  BY <1>1, <1>5, MineKept DEF IInv
<1> QED
  BY <1>3, <1>4, <1>6, <1>7, <1>8 DEF IInv

\* The clean-up gets at no row of a file that is being uploaded.
LEMMA ProcessCancelStep ==
  ASSUME IInv, ProcessCancel
  PROVE  IInv'
<1>1. PICK r \in cancels :
         /\ cancels' = cancels \ {r}
         /\ \/ /\ state' = [state EXCEPT ![r] = "removed"]
               /\ \E j \in DOMAIN rows : job' = [job EXCEPT ![j] = "CANCELED"]
            \/ UNCHANGED <<state, job>>
         /\ UNCHANGED <<rows, object, pc, creds, attempt, tries, ipc, deletes>>
  BY DEF ProcessCancel
<1>2. r \in RowId /\ r \in DOMAIN rows
  BY DEF IInv, TypeOK, RowsInv
<1>3. state' \in [RowId -> {"none", "UPLOADING", "OK", "ERROR", "removed", "deleted"}]
  BY <1>1 DEF IInv, TypeOK
<1>4. job' \in [RowId -> {"none", "AWAITING_PROCESSING", "CANCELED"}]
  BY <1>1 DEF IInv, TypeOK
<1>5. TypeOK'
  BY <1>1, <1>3, <1>4 DEF IInv, TypeOK
<1>6. \A q \in RowId : q # r => state'[q] = state[q]
  BY <1>1 DEF IInv, TypeOK
<1>7. RowsInv'
  BY <1>1, <1>2, <1>6 DEF IInv, RowsInv
<1>8. \A y \in Item : HasRow(y)' = HasRow(y)
  BY <1>1 DEF HasRow
<1>9. OwnRow'
  BY <1>1, <1>8, OwnKept DEF IInv
<1>10. \A y \in Item : HasRow(y) => state'[Row(y)] = state[Row(y)]
  <2> SUFFICES ASSUME NEW y \in Item, HasRow(y)
               PROVE  state'[Row(y)] = state[Row(y)]
    OBVIOUS
  <2>1. Row(y) \in RowId /\ Row(y) # r
    BY <1>1, HasOwn
  <2> QED
    BY <1>6, <2>1
<1>11. Sent'
  BY <1>1, <1>10, SentKept DEF IInv, HasRow
<1>12. UploadedIsMine'
  BY <1>1, <1>10, MineKept DEF IInv, HasRow
<1> QED
  BY <1>5, <1>7, <1>9, <1>11, <1>12 DEF IInv

\* A row whose upload takes too long stays, in another state.
LEMMA CleanupStep ==
  ASSUME IInv, Cleanup
  PROVE  IInv'
<1>1. /\ UNCHANGED <<rows, object, job, cancels, pc, creds, attempt, tries, ipc, deletes>>
      /\ state' = [r \in RowId |-> IF state[r] = "UPLOADING" THEN "ERROR" ELSE state[r]]
  BY DEF Cleanup, Stale
<1>2. TypeOK'
  BY <1>1 DEF IInv, TypeOK
<1>3. RowsInv'
  <2>1. \A r \in RowId : state[r] = "none" => state'[r] = "none"
    BY <1>1
  <2> QED
    BY <1>1, <2>1 DEF IInv, RowsInv
<1>4. \A y \in Item : HasRow(y)' = HasRow(y)
  BY <1>1 DEF HasRow
<1>5. OwnRow'
  BY <1>1, <1>4, OwnKept DEF IInv
<1>6. \A y \in Item : HasRow(y) =>
         /\ state[Row(y)] = "deleted" => state'[Row(y)] = "deleted"
         /\ state[Row(y)] \in InUse => state'[Row(y)] \in InUse
  <2> SUFFICES ASSUME NEW y \in Item, HasRow(y)
               PROVE  /\ state[Row(y)] = "deleted" => state'[Row(y)] = "deleted"
                      /\ state[Row(y)] \in InUse => state'[Row(y)] \in InUse
    OBVIOUS
  <2>1. Row(y) \in RowId /\ Row(y)' = Row(y)
    BY <1>1, HasOwn DEF Row
  <2> QED
    BY <1>1, <2>1 DEF InUse
<1>7. Sent'
  BY <1>1, <1>6, SentKept DEF IInv, HasRow
<1>8. UploadedIsMine'
  BY <1>1, <1>6, MineKept DEF IInv, HasRow
<1> QED
  BY <1>2, <1>3, <1>5, <1>7, <1>8 DEF IInv

LEMMA DeleteStep ==
  ASSUME IInv, DeleteFile
  PROVE  IInv'
<1>1. PICK r \in DOMAIN rows :
         /\ state' = [state EXCEPT ![r] = "deleted"]
         /\ object' = [object EXCEPT ![r] = Nothing]
  BY DEF DeleteFile
<1>2. /\ UNCHANGED <<rows, job, cancels, pc, creds, attempt, tries, ipc>>
      /\ deletes < MaxDelete /\ deletes' = deletes + 1
  BY DEF DeleteFile
<1>3. r \in RowId
  BY DEF IInv, TypeOK, RowId
<1>4. TypeOK'
  <2>1. deletes' \in 0..MaxDelete
    BY <1>2 DEF IInv, TypeOK
  <2>2. /\ state' \in [RowId -> {"none", "UPLOADING", "OK", "ERROR", "removed", "deleted"}]
        /\ object' \in [RowId -> Item \cup {Nothing}]
    BY <1>1 DEF IInv, TypeOK
  <2> QED
    BY <1>2, <2>1, <2>2 DEF IInv, TypeOK
<1>5. \A q \in RowId : \/ state'[q] = "deleted"
                       \/ state'[q] = state[q] /\ object'[q] = object[q]
  BY <1>1 DEF IInv, TypeOK
<1>6. \A q \in RowId : q # r => state'[q] = state[q]
  BY <1>1 DEF IInv, TypeOK
<1>7. RowsInv'
  BY <1>1, <1>2, <1>6 DEF IInv, RowsInv
<1>8. \A y \in Item : HasRow(y)' = HasRow(y)
  BY <1>2 DEF HasRow
<1>9. OwnRow'
  BY <1>2, <1>8, OwnKept DEF IInv
<1>10. \A y \in Item : HasRow(y) => Row(y) \in RowId
  BY HasOwn
<1>11. Sent'
  BY <1>2, <1>5, <1>10, SentKept DEF IInv, HasRow
<1>12. UploadedIsMine'
  BY <1>2, <1>5, <1>10, MineKept DEF IInv, HasRow
<1> QED
  BY <1>4, <1>7, <1>9, <1>11, <1>12 DEF IInv

\* The files that get credentials have rows which the transaction inserted, and
\* which nobody else has.
LEMMA GrantStep ==
  ASSUME IInv, NEW c \in Client, Grant(c)
  PROVE  IInv'
<1> DEFINE all == rows \o Without(Inserted(c), Taken)
<1>1. ~Conflicts(c) /\ UNCHANGED <<object, job, cancels, attempt, tries, deletes>>
  BY DEF Grant
<1>2. /\ Len(all) <= MaxRow /\ rows' = all
      /\ state' = [r \in RowId |-> IF r \in (Len(rows) + 1)..Len(all) THEN "UPLOADING"
                                    ELSE state[r]]
      /\ pc' = [pc EXCEPT ![c] = "upload"]
  BY DEF Grant
<1>3. \/ /\ creds' = [creds EXCEPT ![c] =
                       [k \in DOMAIN Requested(c) |-> RowOf(Requested(c)[k], all)]]
         /\ ipc' = [x \in Item |->
                       IF x[1] # c THEN ipc[x]
                       ELSE IF x[2] > Len(creds'[c]) \/ creds'[c][x[2]] = 0
                            THEN "FAILED"
                       ELSE IF c \in Web THEN "check" ELSE "send"]
      \/ /\ ipc' = [x \in Item |-> IF x[1] = c THEN "FAILED" ELSE ipc[x]]
         /\ UNCHANGED creds
  BY DEF Grant, SetAll
<1>4. /\ all \in Seq(Name) /\ Len(rows) \in Nat /\ Len(all) \in Nat
      /\ Len(rows) <= Len(all)
      /\ \A k \in DOMAIN Requested(c) :
            Requested(c)[k] \notin Unsupported =>
               /\ RowOf(Requested(c)[k], all) \in (Len(rows) + 1)..Len(all)
               /\ all[RowOf(Requested(c)[k], all)] = Requested(c)[k]
  BY <1>1, NewRows DEF IInv
<1> HIDE DEF all
<1>5. /\ Requested(c) \in Seq(Name)
      /\ \A k, l \in DOMAIN Requested(c) : Requested(c)[k] = Requested(c)[l] => k = l
  BY Lists
<1>6. /\ rows \in Seq(Name) /\ DOMAIN rows = 1..Len(rows)
      /\ rows' \in Seq(Name) /\ DOMAIN rows' = 1..Len(all) /\ MaxRow \in Nat
      /\ state \in [RowId -> {"none", "UPLOADING", "OK", "ERROR", "removed", "deleted"}]
      /\ creds \in [Client -> Seq(RowId \cup {0})]
  <2>1. /\ rows \in Seq(Name)
        /\ state \in [RowId -> {"none", "UPLOADING", "OK", "ERROR", "removed", "deleted"}]
        /\ creds \in [Client -> Seq(RowId \cup {0})]
    BY DEF IInv, TypeOK
  <2>2. DOMAIN rows = 1..Len(rows) /\ MaxRow \in Nat
    BY <2>1
  <2>3. rows' \in Seq(Name) /\ DOMAIN rows' = 1..Len(all)
    BY <1>2, <1>4
  <2> QED
    BY <2>1, <2>2, <2>3
<1>7. ASSUME NEW r \in RowId, r \in DOMAIN rows
      PROVE  state'[r] = state[r] /\ r \in DOMAIN rows'
  BY <1>2, <1>4, <1>6, <1>7
<1> DEFINE given == [k \in DOMAIN Requested(c) |-> RowOf(Requested(c)[k], all)]
<1>8. given \in Seq(RowId \cup {0}) /\ DOMAIN given = DOMAIN Requested(c)
  <2>1. ASSUME NEW k \in DOMAIN Requested(c)
        PROVE  given[k] \in RowId \cup {0}
    <3>1. CASE Requested(c)[k] \in Unsupported
      BY <3>1 DEF RowOf
    <3>2. CASE Requested(c)[k] \notin Unsupported
      <4>1. given[k] \in (Len(rows) + 1)..Len(all)
        BY <1>4, <3>2
      <4> HIDE DEF given
      <4> QED
        BY <1>2, <1>4, <1>6, <4>1 DEF RowId
    <3> QED
      BY <3>1, <3>2
  <2>2. Len(Requested(c)) \in Nat /\ DOMAIN Requested(c) = 1..Len(Requested(c))
    BY <1>5
  <2> DEFINE n == Len(Requested(c))
  <2>3. DOMAIN given = 1..n /\ n \in Nat /\ given = [k \in 1..n |-> given[k]]
    BY <2>2
  <2>4. \A k \in 1..n : given[k] \in RowId \cup {0}
    BY <2>1, <2>2
  <2> HIDE DEF given, n
  <2> QED
    BY <2>2, <2>3, <2>4 DEF n
\* The files of the other clients are as before.
<1>9. ASSUME NEW y \in Item, y[1] # c
      PROVE  ipc'[y] = ipc[y] /\ Row(y)' = Row(y)
  <2>1. creds'[y[1]] = creds[y[1]]
    BY <1>3, <1>6, <1>9, Items
  <2> QED
    BY <1>3, <1>9, <2>1 DEF Row
\* Those of this client have new rows, if any.
<1>10. ASSUME NEW y \in Item, y[1] = c
       PROVE  ipc'[y] \in {"check", "send", "FAILED"}
  BY <1>3, <1>10
<1>11. ASSUME NEW y \in Item, y[1] = c, HasRow(y)'
       PROVE  /\ creds'[c] = given /\ y[2] \in DOMAIN given /\ Row(y)' = given[y[2]]
              /\ given[y[2]] \in (Len(rows) + 1)..Len(all)
              /\ all[given[y[2]]] = Requested(c)[y[2]]
  <2>1. ipc'[y] # "FAILED"
    BY <1>11 DEF HasRow
  <2>2. /\ creds' = [creds EXCEPT ![c] = given]
        /\ ~(y[2] > Len(creds'[c]) \/ creds'[c][y[2]] = 0)
    BY <1>3, <1>11, <2>1
  <2>3. creds'[c] = given
    BY <1>6, <2>2
  <2> HIDE DEF given
  <2>4. y[2] \in Nat \ {0}
    <3>1. Batch[c] \in Seq(Name) /\ y[2] \in DOMAIN Batch[c]
      BY <1>11, Items
    <3> QED
      BY <3>1
  <2>5. y[2] \in DOMAIN given /\ given[y[2]] # 0
    BY <1>8, <2>2, <2>3, <2>4
  <2>6. Requested(c)[y[2]] \notin Unsupported
    BY <1>8, <2>5 DEF RowOf, given
  <2>7. given[y[2]] = RowOf(Requested(c)[y[2]], all)
    BY <1>8, <2>5 DEF given
  <2> QED
    BY <1>4, <1>8, <1>11, <2>3, <2>5, <2>6, <2>7 DEF Row
<1> HIDE DEF given
<1>12. TypeOK'
  <2>1. creds' \in [Client -> Seq(RowId \cup {0})]
    BY <1>3, <1>6, <1>8 DEF given
  <2>2. state' \in [RowId -> {"none", "UPLOADING", "OK", "ERROR", "removed", "deleted"}]
    BY <1>2, <1>6
  <2>3. pc' \in [Client -> {"ask", "upload"}]
    BY <1>2 DEF IInv, TypeOK
  <2>4. ipc' \in [Item -> {"idle", "check", "send", "confirm", "cancel",
                           "UPLOADED", "EXISTS", "FAILED"}]
    BY <1>3 DEF IInv, TypeOK
  <2> QED
    BY <1>1, <1>2, <1>6, <2>1, <2>2, <2>3, <2>4 DEF IInv, TypeOK
<1>13. RowsInv'
  <2>1. \A r \in RowId \ DOMAIN rows' : state'[r] = "none"
    <3> SUFFICES ASSUME NEW r \in RowId, r \notin DOMAIN rows'
                 PROVE  state'[r] = "none"
      OBVIOUS
    <3>1. r \notin DOMAIN rows /\ r \notin (Len(rows) + 1)..Len(all)
      BY <1>4, <1>6
    <3>2. state[r] = "none"
      BY <3>1 DEF IInv, RowsInv
    <3> QED
      BY <1>2, <3>1, <3>2
  <2>2. cancels' \subseteq DOMAIN rows'
    BY <1>1, <1>4, <1>6 DEF IInv, RowsInv
  <2> QED
    BY <2>1, <2>2 DEF RowsInv
<1>14. ASSUME NEW y \in Item, y[1] # c, HasRow(y)'
       PROVE  /\ HasRow(y) /\ Row(y)' = Row(y) /\ Row(y) \in RowId
              /\ Row(y) \in DOMAIN rows \ cancels
              /\ y[2] \in DOMAIN creds'[y[1]]
  <2>1. ipc'[y] = ipc[y] /\ Row(y)' = Row(y) /\ HasRow(y)
    BY <1>9, <1>14 DEF HasRow
  <2>2. creds'[y[1]] = creds[y[1]]
    BY <1>3, <1>6, <1>14, Items
  <2> QED
    BY <2>1, <2>2, HasOwn DEF IInv, OwnRow
<1>15. OwnRow'
  <2>1. ASSUME NEW y \in Item, HasRow(y)'
        PROVE  /\ y[2] \in DOMAIN creds'[y[1]]
               /\ Row(y)' \in DOMAIN rows' \ cancels'
    <3>1. CASE y[1] = c
      <4>1. Row(y)' \in (Len(rows) + 1)..Len(all) /\ y[2] \in DOMAIN creds'[y[1]]
        BY <1>11, <2>1, <3>1
      <4>2. cancels \subseteq 1..Len(rows)
        BY <1>6 DEF IInv, RowsInv
      <4> QED
        BY <1>1, <1>4, <1>6, <4>1, <4>2
    <3>2. CASE y[1] # c
      BY <1>1, <1>7, <1>14, <2>1, <3>2
    <3> QED
      BY <3>1, <3>2
  <2>2. ASSUME NEW y \in Item, NEW z \in Item, HasRow(y)', HasRow(z)',
               Row(y)' = Row(z)'
        PROVE  y = z
    <3>1. CASE y[1] = c /\ z[1] = c
      <4>1. /\ y[2] \in DOMAIN given /\ z[2] \in DOMAIN given
            /\ given[y[2]] = given[z[2]]
            /\ all[given[y[2]]] = Requested(c)[y[2]]
            /\ all[given[z[2]]] = Requested(c)[z[2]]
        BY <1>11, <2>2, <3>1
      <4>2. y[2] = z[2]
        BY <1>5, <1>8, <4>1
      <4> QED
        BY <3>1, <4>2, Items
    <3>2. CASE y[1] # c /\ z[1] # c
      <4>1. HasRow(y) /\ HasRow(z) /\ Row(y) = Row(z)
        BY <1>14, <2>2, <3>2
      <4> QED
        BY <4>1 DEF IInv, OwnRow
    <3>3. CASE y[1] = c /\ z[1] # c
      <4>1. Row(y)' \in (Len(rows) + 1)..Len(all) /\ Row(z)' \in 1..Len(rows)
        BY <1>6, <1>11, <1>14, <2>2, <3>3
      <4> QED
        BY <1>4, <2>2, <4>1
    <3>4. CASE y[1] # c /\ z[1] = c
      <4>1. Row(z)' \in (Len(rows) + 1)..Len(all) /\ Row(y)' \in 1..Len(rows)
        BY <1>6, <1>11, <1>14, <2>2, <3>4
      <4> QED
        BY <1>4, <2>2, <4>1
    <3> QED
      BY <3>1, <3>2, <3>3, <3>4
  <2> QED
    BY <2>1, <2>2 DEF OwnRow
<1>16. ASSUME NEW y \in Item, ipc'[y] \in {"confirm", "UPLOADED"}
       PROVE  /\ ipc[y] = ipc'[y] /\ Row(y)' = Row(y) /\ object'[Row(y)] = object[Row(y)]
              /\ state'[Row(y)] = state[Row(y)]
              /\ Row(y) \in DOMAIN rows /\ Row(y) \in DOMAIN rows'
  <2>1. y[1] # c /\ HasRow(y)'
    BY <1>10, <1>16 DEF HasRow
  <2>2. Row(y)' = Row(y) /\ Row(y) \in RowId /\ Row(y) \in DOMAIN rows
    BY <1>14, <2>1
  <2> QED
    BY <1>1, <1>7, <1>9, <2>1, <2>2
<1>17. Sent'
  BY <1>16 DEF IInv, Sent
<1>18. UploadedIsMine'
  BY <1>16 DEF IInv, UploadedIsMine, Live
<1> QED
  BY <1>12, <1>13, <1>15, <1>17, <1>18 DEF IInv

LEMMA StepIInv ==
  ASSUME IInv, [Next]_vars
  PROVE  IInv'
<1>1. CASE Next
  <2>1. ASSUME NEW c \in Client, Upload(c) PROVE IInv'
    <3>1. ASSUME Ask(c) PROVE IInv'
      BY <3>1, GrantStep, RefuseStep DEF Ask
    <3>2. ASSUME NEW i \in DOMAIN Batch[c],
                 \/ Check(<<c, i>>) \/ Send(<<c, i>>)
                 \/ Confirm(<<c, i>>) \/ Cancel(<<c, i>>)
          PROVE  IInv'
      <4> DEFINE x == <<c, i>>
      <4>1. x \in Item
        BY Items
      <4>2. Check(x) \/ Send(x) \/ Confirm(x) \/ Cancel(x)
        BY <3>2
      <4> HIDE DEF x
      <4> QED
        BY <4>1, <4>2, CheckStep, SendStep, ConfirmStep, CancelStep
    <3> QED
      BY <2>1, <3>1, <3>2 DEF Upload
  <2> QED
    BY <1>1, <2>1, ProcessCancelStep, CleanupStep, DeleteStep DEF Next
<1>2. CASE UNCHANGED vars
  <2>1. UNCHANGED <<rows, state, object, job, cancels, pc, creds, attempt, tries,
                    ipc, deletes>>
    BY <1>2 DEF vars
  <2> QED
    BY <2>1 DEF IInv, TypeOK, RowsInv, OwnRow, HasRow, Row, Sent, UploadedIsMine, Live
<1> QED
  BY <1>1, <1>2

-----------------------------------------------------------------------------
(***************************************************************************)
(* The theorems.                                                           *)
(***************************************************************************)
\* The inductive invariant of the uploads.
LEMMA Inductive == Spec => []IInv
<1>1. Init => IInv
  BY InitIInv
<1>2. IInv /\ [Next]_vars => IInv'
  BY StepIInv
<1> QED
  BY <1>1, <1>2, PTL DEF Spec

\* The variables stay within their types: no more rows than the bound, the
\* attempts and the requests of upload_file below their limits.
THEOREM TypeCorrect == Spec => []TypeOK
<1>1. IInv => TypeOK
  BY DEF IInv
<1> QED
  BY <1>1, Inductive, PTL

\* What getTemporaryAccess, uploadFileMultipart, confirmUpload and cancelUpload
\* do together, with the clean-up: a file that upload_file or the frontend
\* reports as uploaded is stored under the row it was given, until that row
\* is deleted.
THEOREM UploadsAreMine == Spec => []UploadedIsMine
<1>1. IInv => UploadedIsMine
  BY DEF IInv
<1> QED
  BY <1>1, Inductive, PTL
=============================================================================
