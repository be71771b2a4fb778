------------------------- MODULE ProjectAccessProofs -------------------------
(***************************************************************************)
(* Proofs about ProjectAccess, for any groups and any number of requests.  *)
(***************************************************************************)
EXTENDS ProjectAccess, TLAPS

\* What a request has already written of its list.
Written(t) ==
    /\ pc[t] \in {"upsert", "save"} => todo[t] \subseteq DOMAIN list[t]
    /\ pc[t] = "upsert" =>
          \A g \in DOMAIN list[t] \ todo[t] : new[t][g] = list[t][g]
    /\ pc[t] \in {"post", "commit"} =>
          \A g \in DOMAIN list[t] : new[t][g] = list[t][g]

ListInv == TypeOK /\ \A t \in Tx : Written(t)

\* A list of the model, spelled out.
LEMMA GrantsAre ==
  ASSUME NEW R, NEW f \in Grants(R)
  PROVE  /\ DOMAIN f \subseteq Group
         /\ f \in [DOMAIN f -> R]
BY DEF Grants

\* The empty list, and a list of one group.
LEMMA NoGrants == [g \in {} |-> READ] \in Grants(Rights)
<1>1. [g \in {} |-> READ] \in [{} -> Rights]
  BY DEF Rights
<1> QED BY <1>1 DEF Grants

LEMMA OneGrant ==
  ASSUME NEW g \in Group, NEW r \in Levels
  PROVE  [h \in {g} |-> r] \in Grants(Rights)
<1>1. [h \in {g} |-> r] \in [{g} -> Rights] /\ {g} \in SUBSET Group
  BY AccessAssumption
<1> QED BY <1>1 DEF Grants

\* Every request of the model starts with nothing written.
LEMMA InitWritten == Init => ListInv
  BY AccessAssumption, NoGrants DEF Init, ListInv, TypeOK, Written, Tx, Rights, DELETE

\* The step of a request keeps the types of the variables.
LEMMA StepTyped ==
  ASSUME ListInv, NEW t \in Tx, Request(t) \/ Deadlock(t)
  PROVE  TypeOK'
<1> USE AccessAssumption DEF ListInv, TypeOK, At, database, own
<1>1. CASE Begin(t)
  <2>1. PICK f \in Grants(Levels) : list' = [list EXCEPT ![t] = f]
    BY <1>1 DEF Begin
  <2>2. f \in Grants(Rights)
    BY <2>1 DEF Grants
  <2> QED BY <1>1, <2>1, <2>2 DEF Begin
<1>2. CASE DeleteAll(t)
  <2>1. seen' \in [Tx -> [Group -> Tx \cup {None, Owner}]]
    BY <1>2 DEF DeleteAll
  <2>2. todo' \in [Tx -> SUBSET Group]
    BY <1>2 DEF DeleteAll
  <2> QED BY <1>2, <2>1, <2>2 DEF DeleteAll
<1>3. CASE DeleteRow(t)
  BY <1>3 DEF DeleteRow
<1>4. CASE DeletedAll(t)
  <2>1. DOMAIN list[t] \subseteq Group
    BY GrantsAre
  <2> QED BY <1>4, <2>1 DEF DeletedAll
<1>5. CASE Upsert(t)
  <2>1. PICK g \in todo[t] :
          /\ new' = [new EXCEPT ![t][g] = Granted(t, g)]
          /\ todo' = [todo EXCEPT ![t] = @ \ {g}]
    BY <1>5 DEF Upsert
  <2>2. todo' \in [Tx -> SUBSET Group]
    BY <2>1
  <2>3. new' \in [Tx -> [Group -> Rights \cup {None}]]
    <3>1. g \in DOMAIN list[t] /\ g \in Group
      BY <1>5 DEF Upsert, Written
    <3>2. list[t] \in [DOMAIN list[t] -> Rights]
      BY GrantsAre
    <3> QED BY <2>1, <3>1, <3>2 DEF Granted
  <2> QED BY <1>5, <2>2, <2>3 DEF Upsert
<1>6. CASE UpsertedAll(t)
  BY <1>6 DEF UpsertedAll
<1>7. CASE Check(t)
  BY <1>7 DEF Check
<1>8. CASE Commit(t)
  BY <1>8 DEF Commit, Release, Sees
<1>9. CASE Rollback(t)
  BY <1>9 DEF Rollback, Release
<1>10. ASSUME NEW g \in Group, NEW r \in Levels, FindAccess(t, g, r)
       PROVE  TypeOK'
  <2>1. pc' \in [Tx -> {"new", "delete", "rows", "upsert", "post", "commit",
                        "save", "done"}]
    BY <1>10 DEF FindAccess
  <2>2. [h \in {g} |-> r] \in Grants(Rights)
    BY OneGrant
  <2>3. list' \in [Tx -> Grants(Rights)]
    BY <1>10, <2>2 DEF FindAccess
  <2>4. todo' \in [Tx -> SUBSET Group]
    BY <1>10 DEF FindAccess
  <2>5. seen' \in [Tx -> [Group -> Tx \cup {None, Owner}]]
    BY <1>10 DEF FindAccess
  <2> QED BY <1>10, <2>1, <2>3, <2>4, <2>5 DEF FindAccess
<1>11. CASE SaveAccess(t)
  <2>1. PICK g \in todo[t] :
          \/ rights' = rights
          \/ rights' = [rights EXCEPT ![g] = list[t][g]]
    BY <1>11 DEF SaveAccess
  <2>2. g \in DOMAIN list[t] /\ g \in Group
    BY <1>11 DEF SaveAccess, Written
  <2>3. list[t] \in [DOMAIN list[t] -> Rights]
    BY GrantsAre
  <2>4. rights' \in [Group -> Rights \cup {None}]
    BY <2>1, <2>2, <2>3
  <2>5. by' = by \/ \E h \in todo[t] : by' = [by EXCEPT ![h] = IF @ = None THEN t ELSE @]
    BY <1>11 DEF SaveAccess
  <2>6. by' \in [Group -> Tx \cup {None, Owner}]
    <3>1. CASE by' = by
      BY <3>1
    <3>2. ASSUME NEW h \in todo[t],
                 by' = [by EXCEPT ![h] = IF @ = None THEN t ELSE @]
          PROVE  by' \in [Group -> Tx \cup {None, Owner}]
      <4>1. (IF by[h] = None THEN t ELSE by[h]) \in Tx \cup {None, Owner}
        OBVIOUS
      <4> QED BY <3>2, <4>1
    <3> QED BY <2>5, <3>1, <3>2
  <2> QED BY <1>11, <2>4, <2>6 DEF SaveAccess
<1>12. CASE RemoveAccess(t)
  <2>1. by' = by \/ \E h \in Group : by' = [by EXCEPT ![h] = None]
    BY <1>12 DEF RemoveAccess
  <2>2. rights' = rights \/ \E h \in Group : rights' = [rights EXCEPT ![h] = None]
    BY <1>12 DEF RemoveAccess
  <2>3. by' \in [Group -> Tx \cup {None, Owner}]
    BY <2>1
  <2>4. rights' \in [Group -> Rights \cup {None}]
    BY <2>2
  <2> QED BY <1>12, <2>3, <2>4 DEF RemoveAccess
<1>13. CASE Deadlock(t)
  BY <1>13 DEF Deadlock, Release
<1> QED BY <1>1, <1>2, <1>3, <1>4, <1>5, <1>6, <1>7, <1>8, <1>9, <1>10, <1>11,
           <1>12, <1>13 DEF Request

\* A step keeps what the updates have written: that of its own update grows
\* row by row, and nobody touches what another update has not committed.
LEMMA StepWritten ==
  ASSUME ListInv, NEW t \in Tx, Request(t) \/ Deadlock(t)
  PROVE  \A q \in Tx : Written(q)'
<1> SUFFICES ASSUME NEW q \in Tx
             PROVE  Written(q)'
  OBVIOUS
<1> USE AccessAssumption DEF ListInv, TypeOK, At, database, own, Tx
<1>1. CASE q # t
  <2>1. /\ pc'[q] = pc[q] /\ list'[q] = list[q]
        /\ todo'[q] = todo[q] /\ new'[q] = new[q]
    <3>1. CASE Begin(t) \/ DeleteAll(t) \/ DeleteRow(t) \/ DeletedAll(t)
      BY <1>1, <3>1 DEF Begin, DeleteAll, DeleteRow, DeletedAll
    <3>2. CASE Upsert(t) \/ UpsertedAll(t) \/ Check(t) \/ Commit(t) \/ Rollback(t)
      BY <1>1, <3>2 DEF Upsert, UpsertedAll, Check, Commit, Rollback, Release
    <3>3. ASSUME NEW g \in Group, NEW r \in Levels, FindAccess(t, g, r)
          PROVE  /\ pc'[q] = pc[q] /\ list'[q] = list[q]
                 /\ todo'[q] = todo[q] /\ new'[q] = new[q]
      BY <1>1, <3>3 DEF FindAccess
    <3>4. CASE SaveAccess(t) \/ RemoveAccess(t) \/ Deadlock(t)
      BY <1>1, <3>4 DEF SaveAccess, RemoveAccess, Deadlock, Release
    <3> QED BY <3>1, <3>2, <3>3, <3>4 DEF Request
  <2> QED BY <2>1 DEF Written
<1>2. CASE q = t
  <2>1. CASE Begin(t) \/ DeleteAll(t) \/ DeleteRow(t) \/ Commit(t) \/ Rollback(t)
    BY <1>2, <2>1 DEF Begin, DeleteAll, DeleteRow, Commit, Rollback, Written
  <2>2. CASE DeletedAll(t)
    BY <1>2, <2>2 DEF DeletedAll, Written
  <2>3. CASE Upsert(t)
    BY <1>2, <2>3 DEF Upsert, Granted, Written
  <2>4. CASE UpsertedAll(t)
    BY <1>2, <2>4 DEF UpsertedAll, Written
  <2>5. CASE Check(t)
    BY <1>2, <2>5 DEF Check, Written
  <2>6. CASE SaveAccess(t) \/ RemoveAccess(t)
    BY <1>2, <2>6 DEF SaveAccess, RemoveAccess, Written
  <2>7. CASE Deadlock(t)
    BY <1>2, <2>7 DEF Deadlock, Written
  <2>8. ASSUME NEW g \in Group, NEW r \in Levels, FindAccess(t, g, r)
        PROVE  Written(q)'
    BY <1>2, <2>8 DEF FindAccess, Written
  <2> QED BY <2>1, <2>2, <2>3, <2>4, <2>5, <2>6, <2>7, <2>8 DEF Request
<1> QED BY <1>1, <1>2

\* ListInv is inductive.
LEMMA StepListInv == ListInv /\ [Next]_vars => ListInv'
<1> SUFFICES ASSUME ListInv, [Next]_vars PROVE ListInv'
  OBVIOUS
<1>1. CASE Next
  <2>1. PICK t \in Tx : Request(t) \/ Deadlock(t)
    BY <1>1 DEF Next
  <2> QED BY <2>1, StepTyped, StepWritten DEF ListInv
<1>2. CASE UNCHANGED vars
  BY <1>2 DEF ListInv, TypeOK, Written, vars, database, own
<1> QED BY <1>1, <1>2

\* The types of the rows and of what the requests hold in memory.
THEOREM RequestsTyped == Spec => []TypeOK
<1>1. ListInv => TypeOK
  BY DEF ListInv
<1> QED BY <1>1, InitWritten, StepListInv, PTL DEF Spec

\* Whatever other requests did since an update read the rows, each group on its
\* list has the rights given there at the moment it commits.
THEOREM ListGiven == Spec => GivesItsList
<1> DEFINE A == \A t \in Update : Commits(t) =>
                  \A g \in DOMAIN list[t] : rights'[g] = list[t][g]
<1>1. ListInv /\ [Next]_vars => [A]_vars
  <2> SUFFICES ASSUME ListInv, Next, NEW t \in Update, Commits(t),
                      NEW g \in DOMAIN list[t]
               PROVE  rights'[g] = list[t][g]
    OBVIOUS
  <2> USE AccessAssumption DEF ListInv, TypeOK, Tx
  <2>1. PICK q \in Tx : Request(q) \/ Deadlock(q)
    BY DEF Next
  <2>2. q = t
    BY <2>1 DEF Commits, Request, Begin, DeleteAll, DeleteRow, DeletedAll, Upsert,
       UpsertedAll, Check, Commit, Rollback, FindAccess, SaveAccess, RemoveAccess,
       Deadlock, At
  <2>3. Commit(t)
    BY <2>1, <2>2 DEF Commits, Request, Begin, DeleteAll, DeleteRow, DeletedAll,
       Upsert, UpsertedAll, Check, Rollback, FindAccess, SaveAccess, RemoveAccess,
       Deadlock, Waits, At
  <2>4. new[t][g] = list[t][g]
    BY DEF Commits, Written
  <2>5. list[t][g] \in Rights /\ g \in Group
    BY GrantsAre
  <2> QED BY <2>3, <2>4, <2>5 DEF Commit, Sees
<1> QED BY <1>1, InitWritten, StepListInv, PTL DEF Spec, GivesItsList
=============================================================================
