------------------------------ MODULE UserEditor ------------------------------
(***************************************************************************)
(* The page on which an administrator creates users, and the dialog in      *)
(* which he sets the roles and the connections of one: openEdit, saveEdit,  *)
(* createUser, loadUsers and provisionTargetUser.  Requests are answered in *)
(* any order, or fail.                                                      *)
(***************************************************************************)
EXTENDS Naturals, FiniteSets

CONSTANTS Users,
          Grants,      \* roles and connections that a user may be given
          MaxGets,     \* bound: users.get under way
          MaxSaves     \* bound: users.update and provision.createUser under way

VARIABLES registered,  \* users that there are, each "member" or "platform_admin"
          granted,     \* their roles and memberships
          accounts,    \* users with a Target account, and the user it was typed for
          users,       \* the list of the page, as it was read
          lists,       \* users.list under way: what they read
          editUser,    \* the row of the dialog's user: one, or none
          edit,        \* editRoleIds and editConnectionIds
          password,    \* provisionPassword: the user it was typed for, or none
          gets,        \* users.get under way: of whom, and what was read
          saves,       \* users.update under way
          provisions,  \* provision.createUser under way
          editOf,      \* the user that edit was read for (history)
          dirty,       \* edit changed since it was read (history)
          failed,      \* some request failed (history)
          overlapped   \* something was begun while something was under way, or
                       \* somebody else changed something (history)

metaVars == <<registered, granted, accounts>>
history == <<editOf, dirty, failed, overlapped>>
vars == <<metaVars, users, lists, editUser, edit, password, gets, saves, provisions, history>>

Kinds == {"member", "platform_admin"}
Lists == UNION {[us -> Kinds] : us \in SUBSET Users}

Some(u) == {u}
Nobody == {}
Quiet == lists = {} /\ gets = {} /\ saves = {} /\ provisions = {}

\* The page has mounted, and its effect asks for the users.
Init == /\ registered \in Lists
        /\ granted \in [Users -> SUBSET Grants]
        /\ \A u \in Users : granted[u] # {} => u \in DOMAIN registered /\ registered[u] = "member"
        /\ accounts = {}
        /\ users = [u \in {} |-> "member"]
        /\ lists = {registered}
        /\ editUser = Nobody /\ edit = {} /\ password = Nobody
        /\ gets = {} /\ saves = {} /\ provisions = {}
        /\ editOf = Nobody /\ dirty = FALSE /\ failed = FALSE /\ overlapped = FALSE

Begin == overlapped' = (overlapped \/ ~Quiet)

\* loadUsers: what it reads is what there is when the request is served.
LoadUsers == lists' = lists \union {registered'}

Listed ==
    /\ \E read \in lists : users' = read /\ lists' = lists \ {read}
    /\ UNCHANGED <<metaVars, editUser, edit, password, gets, saves, provisions, history>>

ListFails ==
    /\ \E read \in lists : lists' = lists \ {read}
    /\ failed' = TRUE
    /\ UNCHANGED <<metaVars, users, editUser, edit, password, gets, saves, provisions,
                   editOf, dirty, overlapped>>

\* createUser, in one step: of the account, the profile and the list.
CreateUser ==
    /\ editUser = Nobody
    /\ \E u \in Users \ DOMAIN registered, kind \in Kinds :
         registered' = [v \in DOMAIN registered \union {u} |-> IF v = u THEN kind ELSE registered[v]]
    /\ LoadUsers
    /\ Begin
    /\ UNCHANGED <<granted, accounts, users, editUser, edit, password, gets, saves, provisions,
                   editOf, dirty, failed>>

\* Somebody else makes a member an administrator, with updateUser.
Promote ==
    /\ \E u \in DOMAIN registered :
         /\ registered[u] = "member"
         /\ registered' = [registered EXCEPT ![u] = "platform_admin"]
         /\ granted' = [granted EXCEPT ![u] = {}]
    /\ overlapped' = TRUE
    /\ UNCHANGED <<accounts, users, lists, editUser, edit, password, gets, saves, provisions,
                   editOf, dirty, failed>>

-----------------------------------------------------------------------------
(* The dialog for a user.                                                   *)

\* The dialog opens with the roles of the last user until the answer comes.
OpenEdit(u) ==
    /\ editUser = Nobody /\ u \in DOMAIN users
    /\ editUser' = {[id |-> u, role |-> users[u]]}
    /\ gets' = gets \union {[of |-> u, grants |-> granted[u]]}
    /\ Cardinality(gets') <= MaxGets
    /\ Begin
    /\ UNCHANGED <<metaVars, users, lists, edit, password, saves, provisions, editOf, dirty, failed>>

\* Mutant: added to what the dialog had.
GotMore(g) ==
    /\ g \in gets
    /\ gets' = gets \ {g}
    /\ edit' = edit \union g.grants
    /\ editOf' = Some(g.of) /\ dirty' = FALSE
    /\ UNCHANGED <<metaVars, users, lists, editUser, password, saves, provisions, failed, overlapped>>

\* The answer goes to whichever dialog is open.
Got(g) ==
    /\ g \in gets
    /\ gets' = gets \ {g}
    /\ edit' = g.grants
    /\ editOf' = Some(g.of) /\ dirty' = FALSE
    /\ UNCHANGED <<metaVars, users, lists, editUser, password, saves, provisions, failed, overlapped>>

\* An error is not caught.
GetFails(g) ==
    /\ g \in gets
    /\ gets' = gets \ {g}
    /\ failed' = TRUE
    /\ UNCHANGED <<metaVars, users, lists, editUser, edit, password, saves, provisions,
                   editOf, dirty, overlapped>>

Close ==
    /\ editUser # Nobody
    /\ editUser' = Nobody
    /\ UNCHANGED <<metaVars, users, lists, edit, password, gets, saves, provisions, history>>

Members == {row.id : row \in {r \in editUser : r.role = "member"}}
Edited == {row.id : row \in editUser}

Toggle ==
    /\ Members # {}
    /\ \E g \in Grants : edit' = IF g \in edit THEN edit \ {g} ELSE edit \union {g}
    /\ dirty' = TRUE
    /\ Begin
    /\ UNCHANGED <<metaVars, users, lists, editUser, password, gets, saves, provisions,
                   editOf, failed>>

SaveEdit ==
    /\ \E u \in Members : saves' = saves \union {[of |-> u, grants |-> edit]}
    /\ Cardinality(saves') <= MaxSaves
    /\ Begin
    /\ UNCHANGED <<metaVars, users, lists, editUser, edit, password, gets, provisions,
                   editOf, dirty, failed>>

\* updateUser, in one step; the dialog that is open closes.  A user who is an
\* administrator by now has no roles.
Saved(s) ==
    /\ s \in saves
    /\ saves' = saves \ {s}
    /\ granted' = [granted EXCEPT ![s.of] = IF registered[s.of] = "member" THEN s.grants ELSE {}]
    /\ editUser' = Nobody
    /\ UNCHANGED registered /\ LoadUsers
    /\ UNCHANGED <<accounts, users, edit, password, gets, provisions, history>>

SaveFails ==
    /\ \E s \in saves : saves' = saves \ {s}
    /\ failed' = TRUE
    /\ UNCHANGED <<metaVars, users, lists, editUser, edit, password, gets, provisions,
                   editOf, dirty, overlapped>>

-----------------------------------------------------------------------------
(* An account on the Target.                                                *)

\* A password of eight characters.
TypePassword ==
    /\ editUser # Nobody
    /\ password' = Edited
    /\ UNCHANGED <<metaVars, users, lists, editUser, edit, gets, saves, provisions, history>>

Provision ==
    /\ password # Nobody
    /\ \E u \in Edited : provisions' = provisions \union {[of |-> u, password |-> password]}
    /\ Cardinality(provisions') <= MaxSaves
    /\ Begin
    /\ UNCHANGED <<metaVars, users, lists, editUser, edit, password, gets, saves,
                   editOf, dirty, failed>>

\* The password is cleared once it is of use.
Provisioned(p) ==
    /\ p \in provisions
    /\ provisions' = provisions \ {p}
    /\ accounts' = {a \in accounts : a.of # p.of} \union {p}
    /\ password' = Nobody
    /\ UNCHANGED <<registered, granted, users, lists, editUser, edit, gets, saves, history>>

ProvisionFails ==
    /\ \E p \in provisions : provisions' = provisions \ {p}
    /\ failed' = TRUE
    /\ UNCHANGED <<metaVars, users, lists, editUser, edit, password, gets, saves,
                   editOf, dirty, overlapped>>

ListAnswer == Listed \/ ListFails
GetAnswer == \E g \in gets : Got(g) \/ GetFails(g)
SaveAnswer == SaveFails \/ \E s \in saves : Saved(s)
ProvisionAnswer == ProvisionFails \/ \E p \in provisions : Provisioned(p)
OpenSome == \E u \in Users : OpenEdit(u)

Next == \/ ListAnswer \/ CreateUser \/ Promote \/ OpenSome \/ GetAnswer \/ Close \/ Toggle
        \/ SaveEdit \/ SaveAnswer \/ TypePassword \/ Provision \/ ProvisionAnswer

Spec == Init /\ [][Next]_vars

-----------------------------------------------------------------------------

\* An administrator who waits for each answer, and gets it, while nobody else
\* changes anything, sees the roles and connections that the user has until he
\* changes them.
PatientSeesWhatIsGranted ==
    \A u \in Edited :
      ~overlapped /\ ~failed /\ Quiet /\ ~dirty => edit = granted[u]

\* He also sees every user that there is.
PatientSeesEveryUser == ~overlapped /\ ~failed /\ Quiet => users = registered

\* What every step keeps of an administrator who waits: what was read, and is
\* about to arrive, is what there is, and is for the dialog that is open.
IInv ==
    /\ granted \in [Users -> SUBSET Grants] /\ edit \subseteq Grants
    /\ DOMAIN registered \subseteq Users /\ DOMAIN users \subseteq Users
    /\ \A read \in lists : DOMAIN read \subseteq Users
    /\ \A s \in saves : s.of \in Users /\ s.grants \subseteq Grants
    /\ \A g \in gets : g.of \in Users /\ g.grants \subseteq Grants
    /\ editUser = Nobody \/ \E u \in Users : Edited = {u}
    /\ ~overlapped /\ ~failed =>
         /\ lists \subseteq {registered}
         /\ lists = {} => users = registered
         /\ gets = {} \/ saves = {}
         /\ \A g \in gets : gets = {g} /\ g.grants = granted[g.of] /\ Edited \subseteq {g.of}
         /\ gets = {} /\ ~dirty => \A u \in Edited : edit = granted[u]
=============================================================================
