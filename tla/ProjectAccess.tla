---------------------------- MODULE ProjectAccess ----------------------------
(***************************************************************************)
(* Who has which rights on one project: the requests of AccessService that *)
(* write project_access rows, updateProjectAccess (replaces all of them),  *)
(* addAccessGroupToProject and removeAccessGroupFromProject.               *)
(*                                                                         *)
(* They run side by side in transactions of isolation level READ           *)
(* COMMITTED.  A statement works on the rows committed when it starts; a   *)
(* row that another transaction changed is locked until that one ends, and *)
(* is then looked at again: if it is gone it is skipped, also when another *)
(* row for the same group took its place.  A row is therefore known by the *)
(* transaction that inserted it.                                           *)
(***************************************************************************)
EXTENDS Naturals, FiniteSets, FiniteSetsExt

CONSTANTS
    Group,
    Update, Add, Remove,   \* requests, by kind
    Mine,          \* the groups of the user who makes a request
    Levels,        \* the rights that requests give
    Owner,         \* the primary group of the project's creator
    None

Tx == Update \cup Add \cup Remove

\* AccessGroupRights
READ == 0   CREATE == 10   WRITE == 20   DELETE == 30
Rights == {READ, CREATE, WRITE, DELETE}

ASSUME AccessAssumption ==
    /\ Update \cap Add = {} /\ Update \cap Remove = {} /\ Add \cap Remove = {}
    /\ Mine \in [Tx -> SUBSET Group]
    /\ Levels \subseteq Rights /\ Owner \in Group
    /\ None \notin Tx \cup Rights \cup Group /\ Tx \cap Group = {}

VARIABLES
    rights,    \* the rights of a group, committed; None: no row
    by,        \* the request that inserted the row; Owner: the first one
    pc,
    list,      \* the rights a request gives, by group
    todo,      \* rows its statement is still to work on
    seen,      \* the rows it saw
    gone, new  \* what it changed and has not committed

vars == <<rights, by, pc, list, todo, seen, gone, new>>
database == <<rights, by>>
own == <<gone, new>>

\* The lists that name some groups, each with one of the rights R.
Grants(R) == UNION {[S -> R] : S \in SUBSET Group}

TypeOK ==
    /\ rights \in [Group -> Rights \cup {None}]
    /\ by \in [Group -> Tx \cup {None, Owner}]
    /\ pc \in [Tx -> {"new", "delete", "rows", "upsert", "post", "commit", "save", "done"}]
    /\ list \in [Tx -> Grants(Rights)]
    /\ todo \in [Tx -> SUBSET Group] /\ gone \in [Tx -> SUBSET Group]
    /\ seen \in [Tx -> [Group -> Tx \cup {None, Owner}]]
    /\ new \in [Tx -> [Group -> Rights \cup {None}]]

\* createDefaultAccessGroups
Init ==
    /\ rights = [g \in Group |-> IF g = Owner THEN DELETE ELSE None]
    /\ by = [g \in Group |-> IF g = Owner THEN Owner ELSE None]
    /\ pc = [t \in Tx |-> "new"]
    /\ list = [t \in Tx |-> [g \in {} |-> READ]]
    /\ todo = [t \in Tx |-> {}] /\ gone = [t \in Tx |-> {}]
    /\ seen = [t \in Tx |-> [g \in Group |-> None]]
    /\ new = [t \in Tx |-> [g \in Group |-> None]]

\* The rows that t deleted, updated or inserted are locked until it ends.
Holds(t, g) == g \in gone[t] \/ new[t][g] # None
Free(t, g)  == \A q \in Tx \ {t} : ~Holds(q, g)

At(t, from, to) == pc[t] = from /\ pc' = [pc EXCEPT ![t] = to]

-----------------------------------------------------------------------------
(***************************************************************************)
(* updateProjectAccess.                                                    *)
(***************************************************************************)
\* The highest of a set of rights, None below all of them.
Highest(S) == Max((S \ {None}) \cup {0})

\* checkProjectAccessModificationPreConditions
PreConditions(t, f) ==
    LET changed == {g \in DOMAIN f : rights[g] # f[g]}
        highest == Highest({rights[g] : g \in Mine[t]})
    IN  highest >= WRITE /\ Highest({f[g] : g \in changed}) <= highest

Begin(t) ==
    /\ t \in Update
    /\ \E f \in Grants(Levels) :
          /\ PreConditions(t, f)
          /\ list' = [list EXCEPT ![t] = f]
    /\ At(t, "new", "delete")
    /\ UNCHANGED <<database, todo, seen, own>>

\* uncheckedProjectAccessTransactionalUpdate: DELETE, row by row.
DeleteAll(t) ==
    /\ At(t, "delete", "rows")
    /\ todo' = [todo EXCEPT ![t] = {g \in Group : rights[g] # None}]
    /\ seen' = [seen EXCEPT ![t] = by]
    /\ UNCHANGED <<database, list, own>>

DeleteRow(t) ==
    /\ pc[t] = "rows"
    /\ \E g \in todo[t] :
          /\ Free(t, g)
          /\ gone' = IF rights[g] # None /\ by[g] = seen[t][g]
                     THEN [gone EXCEPT ![t] = @ \cup {g}] ELSE gone
          /\ todo' = [todo EXCEPT ![t] = @ \ {g}]
    /\ UNCHANGED <<database, pc, list, seen, new>>

DeletedAll(t) ==
    /\ todo[t] = {}
    /\ At(t, "rows", "upsert")
    /\ todo' = [todo EXCEPT ![t] = DOMAIN list[t]]
    /\ UNCHANGED <<database, list, seen, own>>

\* Mutant of Granted: one level up.
GrantedNext(t, g) == list[t][g] + 10

Granted(t, g) == list[t][g]

\* INSERT ... ON CONFLICT DO UPDATE
Upsert(t) ==
    /\ pc[t] = "upsert"
    /\ \E g \in todo[t] :
          /\ Free(t, g)
          /\ new' = [new EXCEPT ![t][g] = Granted(t, g)]
          /\ todo' = [todo EXCEPT ![t] = @ \ {g}]
    /\ UNCHANGED <<database, pc, list, seen, gone>>

\* Mutant of UpsertedAll: does not wait for all rows.
UpsertedSome(t) ==
    /\ At(t, "upsert", "post")
    /\ UNCHANGED <<database, list, todo, seen, own>>

UpsertedAll(t) ==
    /\ todo[t] = {}
    /\ At(t, "upsert", "post")
    /\ UNCHANGED <<database, list, todo, seen, own>>

\* What t sees: what is committed, and its own changes.
Sees(t, g) ==
    IF new[t][g] # None THEN new[t][g]
    ELSE IF g \in gone[t] THEN None ELSE rights[g]

\* checkProjectAccessModificationPostConditions
PostConditions(t) == \E g \in Group : Sees(t, g) = DELETE

\* Mutant of Release: the connection keeps its transaction.
ReleaseNone(t) == UNCHANGED own

Release(t) ==
    /\ gone' = [gone EXCEPT ![t] = {}]
    /\ new' = [new EXCEPT ![t] = [g \in Group |-> None]]

Check(t) ==
    /\ PostConditions(t)
    /\ At(t, "post", "commit")
    /\ UNCHANGED <<database, list, todo, seen, own>>

Commit(t) ==
    /\ At(t, "commit", "done")
    /\ rights' = [g \in Group |-> Sees(t, g)]
    /\ by' = [g \in Group |->
                IF ~Holds(t, g) THEN by[g]
                ELSE IF Sees(t, g) = None THEN None
                ELSE IF g \in gone[t] \/ rights[g] = None THEN t ELSE by[g]]
    /\ Release(t)
    /\ UNCHANGED <<list, todo, seen>>

Rollback(t) ==
    /\ ~PostConditions(t)
    /\ At(t, "post", "done")
    /\ Release(t)
    /\ UNCHANGED <<database, list, todo, seen>>

\* A transaction that waits for rows of others.
Waits(t) ==
    /\ pc[t] \in {"rows", "upsert"} /\ todo[t] # {}
    /\ \A g \in todo[t] : ~Free(t, g)

\* PostgreSQL breaks a deadlock by failing one of its transactions.
Deadlock(t) ==
    /\ Waits(t)
    /\ \A q \in Tx : (\E g \in Group : Holds(q, g)) => Waits(q)
    /\ pc' = [pc EXCEPT ![t] = "done"]
    /\ todo' = [todo EXCEPT ![t] = {}]
    /\ Release(t)
    /\ UNCHANGED <<database, list, seen>>

-----------------------------------------------------------------------------
(***************************************************************************)
(* addAccessGroupToProject and removeAccessGroupFromProject: the row is    *)
(* looked for first and written in a transaction of its own.               *)
(***************************************************************************)
HasDelete(t) == \E g \in Mine[t] : rights[g] = DELETE
HasWrite(t)  == \E g \in Mine[t] : rights[g] \in {WRITE, DELETE}

\* Nothing to do: the group has these rights already, or has no row.
Idle(t, g, r) ==
    IF t \in Add THEN rights[g] # None /\ rights[g] >= r ELSE rights[g] = None

FindAccess(t, g, r) ==
    /\ \/ t \in Add /\ HasWrite(t) /\ (r = DELETE => HasDelete(t))
       \/ t \in Remove /\ HasDelete(t)
    /\ At(t, "new", IF Idle(t, g, r) THEN "done" ELSE "save")
    /\ list' = [list EXCEPT ![t] = [h \in {g} |-> r]]
    /\ todo' = [todo EXCEPT ![t] = {g}]
    /\ seen' = [seen EXCEPT ![t] = by]
    /\ UNCHANGED <<database, own>>

\* The row that was found is updated; one that is gone cannot be inserted again
\* without its group.  A new row violates the unique constraint if there is one.
SaveAccess(t) ==
    /\ t \in Add /\ At(t, "save", "done")
    /\ \E g \in todo[t] :
          /\ Free(t, g)
          /\ IF by[g] # seen[t][g] THEN UNCHANGED database
             ELSE /\ rights' = [rights EXCEPT ![g] = list[t][g]]
                  /\ by' = [by EXCEPT ![g] = IF @ = None THEN t ELSE @]
    /\ UNCHANGED <<list, todo, seen, own>>

RemoveAccess(t) ==
    /\ t \in Remove /\ At(t, "save", "done")
    /\ \E g \in todo[t] :
          /\ Free(t, g)
          /\ IF by[g] = seen[t][g]
             THEN /\ rights' = [rights EXCEPT ![g] = None]
                  /\ by' = [by EXCEPT ![g] = None]
             ELSE UNCHANGED database
    /\ UNCHANGED <<list, todo, seen, own>>

-----------------------------------------------------------------------------
Request(t) ==
    \/ Begin(t) \/ DeleteAll(t) \/ DeleteRow(t) \/ DeletedAll(t)
    \/ Upsert(t) \/ UpsertedAll(t) \/ Check(t) \/ Commit(t) \/ Rollback(t)
    \/ \E g \in Group, r \in Levels : FindAccess(t, g, r)
    \/ SaveAccess(t) \/ RemoveAccess(t)

Next == \E t \in Tx : Request(t) \/ Deadlock(t)

Spec == Init /\ [][Next]_vars

\* A request that began goes on, and deadlocks are found.
FairSpec ==
    /\ Spec
    /\ \A t \in Tx : WF_vars(pc[t] # "new" /\ Request(t)) /\ WF_vars(Deadlock(t))

-----------------------------------------------------------------------------
Commits(t) == pc[t] = "commit" /\ pc'[t] = "done"

\* updateProjectAccess is "a transactional method": each group on the list has
\* the rights given there when the update commits, whatever ran meanwhile.
GivesItsList ==
    [][\A t \in Update : Commits(t) =>
          \A g \in DOMAIN list[t] : rights'[g] = list[t][g]]_vars

\* Every request that began ends, also when it waits for rows of another one
\* that waits for its own.
RequestEnds == \A t \in Tx : pc[t] # "new" ~> pc[t] = "done"
=============================================================================
