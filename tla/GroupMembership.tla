--------------------------- MODULE GroupMembership ---------------------------
(***************************************************************************)
(* The memberships of one access group: AccessService of the backend and   *)
(* the expiry cron of the queueConsumer.                                   *)
(*                                                                         *)
(* Requests run in transactions of PostgreSQL's default isolation level,   *)
(* READ COMMITTED: a statement sees what is committed when it starts.  The *)
(* guard of the requests lets editors of the group and administrators      *)
(* pass; there is always an administrator.                                 *)
(***************************************************************************)
EXTENDS Naturals, FiniteSets

CONSTANTS
    User,
    Request,     \* removals under way at a time
    Founder,     \* the user that created the group
    Overlap,     \* removals may overlap
    Expiry       \* editors may be given an expiration date

ASSUME MembershipAssumption ==
    /\ Founder \in User
    /\ Overlap \in BOOLEAN /\ Expiry \in BOOLEAN

VARIABLES
    row,        \* the row of a user: none, in the group, or soft deleted
    editor,     \* rows with canEditGroup
    exp,        \* expirationDate: none, ahead, or past
    pc, list,   \* a removal, and the users to be removed
    spc, suser, sexp,  \* a request to set an expiration date
    sgone,      \* the row it found was removed
    refused     \* users whose addition was refused by the unique constraint

vars == <<row, editor, exp, pc, list, spc, suser, sexp, sgone,
          refused>>
group  == <<row, editor, exp>>
remove == <<pc, list>>
setter == <<spc, suser, sexp, sgone>>

TypeOK ==
    /\ row \in [User -> {"none", "in", "hidden"}]
    /\ editor \subseteq User
    /\ exp \in [User -> {"never", "ahead", "past"}]
    /\ pc \in [Request -> {"idle", "delete"}]
    /\ list \in [Request -> SUBSET User]
    /\ spc \in {"idle", "save", "answer", "ok"}
    /\ suser \in User /\ sexp \in {"never", "ahead", "past"}
    /\ sgone \in BOOLEAN
    /\ refused \subseteq User

\* createAccessGroup
Init ==
    /\ row = [u \in User |-> IF u = Founder THEN "in" ELSE "none"]
    /\ editor = {Founder}
    /\ exp = [u \in User |-> "never"]
    /\ pc = [r \in Request |-> "idle"] /\ list = [r \in Request |-> {}]
    /\ spc = "idle" /\ suser = Founder /\ sexp = "never" /\ sgone = FALSE
    /\ refused = {}

Member(u) == row[u] = "in"
Editors == {u \in editor : Member(u)}

-----------------------------------------------------------------------------
\* The date of an editor is set only if Expiry.
MayExpire(u, d) == d = "never" \/ Expiry \/ u \notin editor

\* addUserToAccessGroup: the unique constraint also counts soft deleted rows.
Add(u) ==
    /\ \/ /\ row[u] = "none"
          /\ row' = [row EXCEPT ![u] = "in"]
          /\ \E e \in {editor \cup {u}, editor \ {u}}, d \in {"never", "ahead"} :
                /\ d = "never" \/ Expiry \/ u \notin e
                /\ editor' = e
                /\ exp' = [exp EXCEPT ![u] = d]
          /\ UNCHANGED refused
       \/ /\ row[u] # "none"
          /\ refused' = refused \cup {u}
          /\ UNCHANGED group
    /\ UNCHANGED <<remove, setter>>

\* removeUsersFromAccessGroup: the count, then the delete and the commit.
Remaining(S) == Editors \ S

\* Mutant of LastEditor: all members are counted.
LastMember(S) == {u \in User \ S : Member(u)} = {}

LastEditor(S) == Remaining(S) = {}

Count(r) ==
    /\ pc[r] = "idle"
    /\ Overlap \/ \A q \in Request : pc[q] = "idle"
    /\ \E S \in SUBSET User \ {{}} :
          /\ ~LastEditor(S)
          /\ list' = [list EXCEPT ![r] = S]
    /\ pc' = [pc EXCEPT ![r] = "delete"]
    /\ UNCHANGED <<group, setter, refused>>

Delete(r) ==
    /\ pc[r] = "delete"
    /\ row' = [u \in User |-> IF u \in list[r] THEN "none" ELSE row[u]]
    /\ pc' = [pc EXCEPT ![r] = "idle"]
    /\ list' = [list EXCEPT ![r] = {}]
    /\ sgone' = (sgone \/ suser \in list[r])
    /\ UNCHANGED <<editor, exp, spc, suser, sexp, refused>>

\* setExpireDate: find, save of the entity, find again for the answer.  A row
\* that was removed is inserted again without its group and its user; one that
\* was soft deleted stays so.
Find(u) ==
    /\ spc \in {"idle", "ok"} /\ Member(u)
    /\ \E d \in {"never", "ahead", "past"} : MayExpire(u, d) /\ sexp' = d
    /\ spc' = "save" /\ suser' = u /\ sgone' = FALSE
    /\ UNCHANGED <<group, remove, refused>>

\* Mutant of Save: "never" is written as it came.
SaveWord ==
    /\ spc = "save"
    /\ spc' = "answer"
    /\ exp' = IF sgone THEN exp
              ELSE [exp EXCEPT ![suser] = IF sexp = "never" THEN "'never'" ELSE sexp]
    /\ UNCHANGED <<row, editor, remove, suser, sexp, sgone, refused>>

Save ==
    /\ spc = "save"
    /\ spc' = "answer"
    /\ exp' = IF sgone THEN exp ELSE [exp EXCEPT ![suser] = sexp]
    /\ UNCHANGED <<row, editor, remove, suser, sexp, sgone, refused>>

\* Mutant of Answer: the saved entity is answered without reading it again.
AnswerSaved ==
    /\ spc = "answer"
    /\ spc' = "ok"
    /\ UNCHANGED <<group, remove, suser, sexp, sgone, refused>>

Answer ==
    /\ spc = "answer"
    /\ spc' = IF Member(suser) /\ ~sgone THEN "ok" ELSE "idle"
    /\ UNCHANGED <<group, remove, suser, sexp, sgone, refused>>

\* Time passes.
Lapse(u) ==
    /\ exp[u] = "ahead"
    /\ exp' = [exp EXCEPT ![u] = "past"]
    /\ UNCHANGED <<row, editor, remove, setter, refused>>

\* Mutant of Expired: the comparison with the clock is turned round.
ExpiredSwapped(u) == exp[u] = "ahead"

Expired(u) == exp[u] = "past"

\* removeExpiredAccessGroups, every 4 hours, under a lock.
Expire ==
    /\ \E u \in User : Member(u) /\ Expired(u)
    /\ row' = [u \in User |-> IF Member(u) /\ Expired(u) THEN "hidden" ELSE row[u]]
    /\ UNCHANGED <<editor, exp, remove, setter, refused>>

-----------------------------------------------------------------------------
Next ==
    \/ \E u \in User : Add(u) \/ Find(u) \/ Lapse(u)
    \/ \E r \in Request : Count(r) \/ Delete(r)
    \/ Save \/ Answer \/ Expire

Spec == Init /\ [][Next]_vars

\* The cron comes round; requests that began go on.
FairSpec ==
    /\ Spec /\ WF_vars(Expire)
    /\ WF_vars(Save) /\ WF_vars(Answer) /\ \A r \in Request : WF_vars(Delete(r))

-----------------------------------------------------------------------------
\* access.service.ts:349 "Cannot remove the last user with edit rights", and
\* access-groups.test.ts:669 "to preserve at least one editor": a group never
\* loses its last editor.  With removals one at a time, and unless an editor's
\* membership is made to expire, that is so.
EditorRemains == Editors # {}

\* A request that succeeds in extending a membership leaves a member: the cron
\* may come between its steps, but then the request fails.
ExtendedIsMember ==
    [][spc # "ok" /\ spc' = "ok" => Member(suser) /\ exp[suser] \in {sexp, "past"}]_vars

\* A membership whose date has passed ends, unless its date changes.
ExpiredEnds ==
    \A u \in User : exp[u] = "past" ~> ~Member(u) \/ exp[u] # "past"
=============================================================================
