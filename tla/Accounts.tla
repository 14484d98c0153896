------------------------------ MODULE Accounts ------------------------------
(* Sign-up, login and the just-in-time provisioning of Supabase users          *)
(* (auth/service.py, auth/supabase.py), and the request guard that picks the   *)
(* organisation a request acts in (auth/guard.py).  A request is one database  *)
(* transaction: its inserts are its own until it commits, and an insert that   *)
(* meets an uncommitted row with the same unique key waits for it.             *)
EXTENDS Naturals, FiniteSets

CONSTANTS AuthReqs,  \* requests; also the source of fresh row ids
          Subjects,  \* Supabase subjects
          Emails,    \* addresses two flows may share
          SubjectEmail  \* subject -> the address in its claims, or "none"
ASSUME AccountsAssumption == SubjectEmail \in [Subjects -> Emails \cup {"none"}]

VARIABLES users,    \* committed rows of users: [id, email]
          members,  \* committed rows of memberships: [user, org]
          authReq   \* request -> its transaction

accountVars == <<users, members, authReq>>

NoRow == [id |-> "none", email |-> "none"]
NoMember == [user |-> "none", org |-> "none"]
AuthIdle == [pc |-> "idle", sub |-> "none", email |-> "none",
             user |-> NoRow, newUser |-> FALSE, member |-> NoMember,
             newMember |-> FALSE, org |-> "none", reply |-> "none"]

AccountsInit == /\ users = {} /\ members = {}
                /\ authReq = [r \in AuthReqs |-> AuthIdle]

Conflicts(a, b) == a.id = b.id \/ a.email = b.email
\* Slip: no unique index on email.
TakenById(row) == \E u \in users : u.id = row.id
\* The unique indexes on the primary key and on email.
Taken(row) == \E u \in users : Conflicts(u, row)
Awaited(r, row) == \E q \in AuthReqs \ {r} : authReq[q].newUser /\ Conflicts(authReq[q].user, row)
MembershipsOf(id) == {m \in members : m.user = id}

AuthReply(r, what) == authReq' = [authReq EXCEPT ![r] = [AuthIdle EXCEPT !.pc = "done", !.reply = what]]
----------------------------------------------------------------------------
\* signup: the address is looked up; a known one is refused with AuthError.
SignupLookup(r, e) ==
    /\ authReq[r].pc = "idle"
    /\ IF \E u \in users : u.email = e THEN AuthReply(r, "refused")
       ELSE authReq' = [authReq EXCEPT ![r] =
              [AuthIdle EXCEPT !.pc = "insert", !.email = e, !.user = [id |-> r, email |-> e]]]
    /\ UNCHANGED <<users, members>>

\* provision_user: by the subject, else by the address of the claims.
ProvisionRow(s) == [id |-> s, email |-> IF SubjectEmail[s] = "none" THEN s ELSE SubjectEmail[s]]
ProvisionLookup(r, s) ==
    LET byId == {u \in users : u.id = s}
        byEmail == {u \in users : SubjectEmail[s] # "none" /\ u.email = SubjectEmail[s]}
        found == IF byId # {} THEN byId ELSE byEmail
        next == [AuthIdle EXCEPT !.sub = s, !.email = SubjectEmail[s]]
    IN /\ authReq[r].pc = "idle"
       /\ authReq' = [authReq EXCEPT ![r] =
             IF found # {} THEN [next EXCEPT !.pc = "member", !.user = CHOOSE u \in found : TRUE]
             ELSE [next EXCEPT !.pc = "insert", !.user = ProvisionRow(s)]]
       /\ UNCHANGED <<users, members>>

\* session.add(user); flush.  A conflict raises IntegrityError: neither handler
\* catches it and the transaction is rolled back.
InsertUser(r) ==
    /\ authReq[r].pc = "insert" /\ ~Awaited(r, authReq[r].user)
    /\ IF Taken(authReq[r].user) THEN AuthReply(r, "error")
       ELSE authReq' = [authReq EXCEPT ![r].pc = "member", ![r].newUser = TRUE]
    /\ UNCHANGED <<users, members>>

\* The first membership, or a fresh workspace with its owner.  signup has just
\* inserted the user and always makes the workspace.
JoinWorkspace(r) ==
    LET id == authReq[r].user.id IN
    /\ authReq[r].pc = "member"
    /\ IF MembershipsOf(id) = {}
       THEN authReq' = [authReq EXCEPT ![r].pc = "commit", ![r].newMember = TRUE,
                                       ![r].member = [user |-> id, org |-> r]]
       ELSE \E m \in MembershipsOf(id) :
               authReq' = [authReq EXCEPT ![r].pc = "commit", ![r].member = m]
    /\ UNCHANGED <<users, members>>

\* The view of signup and, in Supabase mode, require_auth commit; the request
\* acts in the organisation the guard chose.
AuthCommit(r) ==
    /\ authReq[r].pc = "commit"
    /\ users' = users \cup (IF authReq[r].newUser THEN {authReq[r].user} ELSE {})
    /\ members' = members \cup (IF authReq[r].newMember THEN {authReq[r].member} ELSE {})
    /\ authReq' = [authReq EXCEPT ![r].pc = "done", ![r].newUser = FALSE, ![r].newMember = FALSE,
                                  ![r].org = authReq[r].member.org, ![r].reply = "ok"]

\* A later request with a token: require_auth resolves the user, prefers the
\* organisation asked for when the user belongs to it and else takes any
\* membership; a user without one is refused.  resolve_org then checks the
\* organisation of the row the request names.
LoadIdentity(r, id, wanted, owner) ==
    LET own == {m \in MembershipsOf(id) : m.org = wanted}
        from == IF own # {} THEN own ELSE MembershipsOf(id)
    IN /\ authReq[r].pc = "idle" /\ id \in {u.id : u \in users}
       /\ IF from = {} THEN AuthReply(r, "refused")
          ELSE \E m \in from :
               LET allowed == owner = m.org \/ [user |-> id, org |-> owner] \in members IN
               authReq' = [authReq EXCEPT ![r] = [AuthIdle EXCEPT !.pc = "done",
                   !.user = CHOOSE u \in users : u.id = id, !.member = m,
                   !.org = IF allowed THEN owner ELSE "none",
                   !.reply = IF allowed THEN "ok" ELSE "refused"]]
       /\ UNCHANGED <<users, members>>

AuthAgain(r) == /\ authReq[r].pc = "done" /\ authReq[r].reply # "ok"
                /\ authReq' = [authReq EXCEPT ![r] = AuthIdle]
                /\ UNCHANGED <<users, members>>

AccountsNext ==
    \E r \in AuthReqs :
       \/ \E e \in Emails : SignupLookup(r, e)
       \/ \E s \in Subjects : ProvisionLookup(r, s)
       \/ InsertUser(r) \/ JoinWorkspace(r) \/ AuthCommit(r) \/ AuthAgain(r)
       \/ \E u \in users, wanted \in AuthReqs, owner \in AuthReqs :
             LoadIdentity(r, u.id, wanted, owner)
AccountsSpec == AccountsInit /\ [][AccountsNext]_accountVars
----------------------------------------------------------------------------
AccountsTypeOK ==
    /\ \A u \in users : u.id \in AuthReqs \cup Subjects
    /\ \A m \in members : m.org \in AuthReqs
    /\ \A r \in AuthReqs : authReq[r].pc \in {"idle", "insert", "member", "commit", "done"}

\* "so every user always has at least one workspace" (auth/service.py), and the
\* provisioning is "safe under concurrent first requests": whatever requests of
\* one address or subject race, each committed user has exactly one workspace
\* and no other user owns the address.
OneWorkspace ==
    /\ \A u \in users : Cardinality(MembershipsOf(u.id)) = 1
    /\ \A u, v \in users : u.email = v.email => u = v
    /\ \A m \in members : \E u \in users : u.id = m.user
=============================================================================
