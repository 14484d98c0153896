-------------------------- MODULE Services_proofs ---------------------------
(* What a tenant may count on: one workspace of its own (Accounts), and a      *)
(* submission let in within the rate limit and the quota (Admission); and what *)
(* an operator may: heartbeat rows that tell the truth (WorkerRegistry), and   *)
(* batches served in order (BatchQueue).                                       *)
EXTENDS Accounts, Admission, FiniteSetTheorems, WorkerRegistry, BatchQueue, TLAPS

(* One workspace per user, for any number of racing sign-ups and first         *)
(* requests.  The unique indexes keep the rows of open transactions apart from *)
(* each other and from the committed ones, and a membership is inserted in the *)
(* transaction that inserts its user or not at all.                            *)
Ids == AuthReqs \cup Subjects \cup {"none"}
Mails == Emails \cup Subjects \cup {"none"}
Orgs == AuthReqs \cup {"none"}
UserRow == [id : Ids, email : Mails]
MemberRow == [user : Ids, org : Orgs]
AuthPcs == {"idle", "insert", "member", "commit", "done"}
Replies == {"none", "refused", "error", "ok"}
Txn == [pc : AuthPcs, sub : Subjects \cup {"none"}, email : Mails, user : UserRow, newUser : BOOLEAN,
        member : MemberRow, newMember : BOOLEAN, org : Orgs, reply : Replies]
AccountTypes == users \subseteq UserRow /\ members \subseteq MemberRow /\ authReq \in [AuthReqs -> Txn]

\* What an open transaction may hold.
TxnOK(t) ==
    /\ t.newUser => t.pc \in {"member", "commit"} /\ ~Taken(t.user)
    /\ t.newMember => t.pc = "commit" /\ t.newUser /\ t.member.user = t.user.id
    /\ t.pc = "commit" /\ t.newUser => t.newMember
    /\ t.pc \in {"member", "commit"} /\ ~t.newUser => t.user \in users
Apart(r, t) == t.newUser => \A q \in AuthReqs \ {r} :
                               authReq[q].newUser => ~Conflicts(authReq[q].user, t.user)
Unique == \A u, v \in users : Conflicts(u, v) => u = v
Homed(u) == \E m \in members : m.user = u.id /\ \A k \in members : k.user = u.id => k = m
Rooted(m) == \E u \in users : u.id = m.user
Committed == Unique /\ (\A u \in users : Homed(u)) /\ (\A m \in members : Rooted(m))
AccountsInv == AccountTypes /\ Committed /\ \A r \in AuthReqs : TxnOK(authReq[r]) /\ Apart(r, authReq[r])

\* r's transaction becomes t, nothing is committed.
AuthBecomes(r, t) == authReq' = [authReq EXCEPT ![r] = t]
Quiet(t) == ~t.newUser /\ ~t.newMember /\ t.pc \in {"idle", "insert", "done"}
-----------------------------------------------------------------------------
LEMMA IdleIsTxn == AuthIdle \in Txn /\ Quiet(AuthIdle)
  BY DEF AuthIdle, NoRow, NoMember, Txn, UserRow, MemberRow, Ids, Mails, Orgs, AuthPcs, Replies, Quiet

\* One column at a time.
LEMMA WithPc ==
    ASSUME NEW t \in Txn, NEW pc \in AuthPcs
    PROVE  /\ [t EXCEPT !.pc = pc] \in Txn /\ [t EXCEPT !.pc = pc].pc = pc
           /\ [t EXCEPT !.pc = pc].user = t.user /\ [t EXCEPT !.pc = pc].newUser = t.newUser
           /\ [t EXCEPT !.pc = pc].member = t.member /\ [t EXCEPT !.pc = pc].newMember = t.newMember
  BY DEF Txn
LEMMA WithNew ==
    ASSUME NEW t \in Txn, NEW b \in BOOLEAN
    PROVE  /\ [t EXCEPT !.newUser = b] \in Txn /\ [t EXCEPT !.newUser = b].pc = t.pc
           /\ [t EXCEPT !.newUser = b].user = t.user /\ [t EXCEPT !.newUser = b].newUser = b
           /\ [t EXCEPT !.newUser = b].member = t.member
           /\ [t EXCEPT !.newUser = b].newMember = t.newMember
  BY DEF Txn
LEMMA WithNewMember ==
    ASSUME NEW t \in Txn, NEW b \in BOOLEAN
    PROVE  /\ [t EXCEPT !.newMember = b] \in Txn /\ [t EXCEPT !.newMember = b].pc = t.pc
           /\ [t EXCEPT !.newMember = b].user = t.user
           /\ [t EXCEPT !.newMember = b].newUser = t.newUser
           /\ [t EXCEPT !.newMember = b].member = t.member
           /\ [t EXCEPT !.newMember = b].newMember = b
  BY DEF Txn
LEMMA WithMember ==
    ASSUME NEW t \in Txn, NEW m \in MemberRow
    PROVE  /\ [t EXCEPT !.member = m] \in Txn /\ [t EXCEPT !.member = m].pc = t.pc
           /\ [t EXCEPT !.member = m].user = t.user
           /\ [t EXCEPT !.member = m].newUser = t.newUser
           /\ [t EXCEPT !.member = m].member = m
           /\ [t EXCEPT !.member = m].newMember = t.newMember
  BY DEF Txn
LEMMA WithUser ==
    ASSUME NEW t \in Txn, NEW u \in UserRow
    PROVE  /\ [t EXCEPT !.user = u] \in Txn /\ [t EXCEPT !.user = u].pc = t.pc
           /\ [t EXCEPT !.user = u].user = u
           /\ [t EXCEPT !.user = u].newUser = t.newUser
           /\ [t EXCEPT !.user = u].member = t.member
           /\ [t EXCEPT !.user = u].newMember = t.newMember
  BY DEF Txn
\* The columns no part of the invariant reads.
Same(a, b) == a.pc = b.pc /\ a.user = b.user /\ a.newUser = b.newUser
              /\ a.member = b.member /\ a.newMember = b.newMember
LEMMA WithRest ==
    ASSUME NEW t \in Txn
    PROVE  /\ \A x \in Orgs : [t EXCEPT !.org = x] \in Txn /\ Same([t EXCEPT !.org = x], t)
           /\ \A x \in Replies : [t EXCEPT !.reply = x] \in Txn /\ Same([t EXCEPT !.reply = x], t)
           /\ \A x \in Mails : [t EXCEPT !.email = x] \in Txn /\ Same([t EXCEPT !.email = x], t)
           /\ \A x \in Subjects : [t EXCEPT !.sub = x] \in Txn /\ Same([t EXCEPT !.sub = x], t)
  BY DEF Txn, Same

LEMMA InitInv == AccountsInit => AccountsInv
  <1> SUFFICES ASSUME AccountsInit PROVE AccountsInv
    OBVIOUS
  <1>1. AccountTypes
    BY IdleIsTxn DEF AccountsInit, AccountTypes
  <1>2. \A r \in AuthReqs : Quiet(authReq[r])
    BY IdleIsTxn DEF AccountsInit
  <1>3. Committed
    BY DEF AccountsInit, Committed, Unique
  <1>4. \A r \in AuthReqs : TxnOK(authReq[r]) /\ Apart(r, authReq[r])
    BY <1>2 DEF Quiet, TxnOK, Apart
  <1>5. QED BY <1>1, <1>3, <1>4 DEF AccountsInv

LEMMA Others ==
    ASSUME AccountTypes, NEW r \in AuthReqs, NEW t \in Txn, AuthBecomes(r, t)
    PROVE  /\ authReq' \in [AuthReqs -> Txn] /\ authReq'[r] = t
           /\ \A q \in AuthReqs \ {r} : authReq'[q] = authReq[q]
  BY DEF AccountTypes, AuthBecomes

\* A step that only moves r's transaction.
LEMMA TxnStep ==
    ASSUME AccountsInv, NEW r \in AuthReqs, NEW t \in Txn, AuthBecomes(r, t), TxnOK(t), Apart(r, t),
           UNCHANGED <<users, members>>
    PROVE  AccountsInv'
  <1>1. /\ authReq' \in [AuthReqs -> Txn] /\ authReq'[r] = t
        /\ \A q \in AuthReqs \ {r} : authReq'[q] = authReq[q]
    BY Others DEF AccountsInv
  <1>2. AccountTypes'
    BY <1>1 DEF AccountsInv, AccountTypes
  <1>3. Committed'
    BY DEF AccountsInv, Committed, Unique, Homed, Rooted
  <1>4. \A q \in AuthReqs : TxnOK(authReq'[q])
    BY <1>1 DEF AccountsInv
  <1>5. \A q \in AuthReqs : TxnOK(authReq[q])' = TxnOK(authReq'[q])
    BY DEF TxnOK, Taken
  <1>6. ASSUME NEW q \in AuthReqs, NEW p \in AuthReqs \ {q}, authReq'[q].newUser, authReq'[p].newUser
        PROVE  ~Conflicts(authReq'[p].user, authReq'[q].user)
    <2>1. CASE p = r
      BY <1>1, <1>6, <2>1 DEF Apart, Conflicts
    <2>2. CASE q = r
      BY <1>1, <1>6, <2>2 DEF Apart
    <2>3. CASE p # r /\ q # r
      BY <1>1, <1>6, <2>3 DEF AccountsInv, Apart
    <2>4. QED BY <2>1, <2>2, <2>3
  <1>7. \A q \in AuthReqs : Apart(q, authReq[q])'
    BY <1>6 DEF Apart, Conflicts
  <1>8. QED BY <1>2, <1>3, <1>4, <1>5, <1>7 DEF AccountsInv

LEMMA AuthQuietStep ==
    ASSUME AccountsInv, NEW r \in AuthReqs, NEW t \in Txn, AuthBecomes(r, t), Quiet(t),
           UNCHANGED <<users, members>>
    PROVE  AccountsInv'
  <1>1. TxnOK(t) /\ Apart(r, t)
    BY DEF Quiet, TxnOK, Apart
  <1>2. QED BY <1>1, TxnStep

LEMMA ReplyInv ==
    ASSUME AccountsInv, NEW r \in AuthReqs, NEW what \in Replies, AuthReply(r, what),
           UNCHANGED <<users, members>>
    PROVE  AccountsInv'
  <1> DEFINE s == [AuthIdle EXCEPT !.pc = "done"]
             t == [s EXCEPT !.reply = what]
  <1>1. s \in Txn /\ Quiet(s)
    BY IdleIsTxn, WithPc DEF AuthPcs, Quiet
  <1>2. AuthBecomes(r, t)
    BY DEF AuthReply, AuthBecomes
  <1> HIDE DEF s
  <1>3. t \in Txn /\ Quiet(t)
    BY <1>1, WithRest DEF Same, Quiet
  <1> HIDE DEF t
  <1>4. QED BY <1>2, <1>3, AuthQuietStep
-----------------------------------------------------------------------------
LEMMA AuthAgainInv == ASSUME AccountsInv, NEW r \in AuthReqs, AuthAgain(r) PROVE AccountsInv'
  BY IdleIsTxn, AuthQuietStep DEF AuthAgain, AuthBecomes

LEMMA SignupLookupInv ==
    ASSUME AccountsInv, NEW r \in AuthReqs, NEW e \in Emails, SignupLookup(r, e)
    PROVE  AccountsInv'
  <1>1. CASE \E u \in users : u.email = e
    BY <1>1, ReplyInv DEF SignupLookup, Replies
  <1>2. CASE ~\E u \in users : u.email = e
    <2> DEFINE row == [id |-> r, email |-> e]
               a == [AuthIdle EXCEPT !.pc = "insert"]
               b == [a EXCEPT !.email = e]
               t == [b EXCEPT !.user = row]
    <2>1. row \in UserRow /\ e \in Mails
      BY DEF UserRow, Ids, Mails
    <2>2. AuthBecomes(r, t)
      BY <1>2 DEF SignupLookup, AuthBecomes
    <2>3. a \in Txn /\ Quiet(a)
      BY IdleIsTxn, WithPc DEF AuthPcs, Quiet
    <2> HIDE DEF a, row
    <2>4. b \in Txn /\ Quiet(b)
      BY <2>1, <2>3, WithRest DEF Same, Quiet
    <2> HIDE DEF b
    <2>5. t \in Txn /\ Quiet(t)
      BY <2>1, <2>4, WithUser DEF Quiet
    <2> HIDE DEF t
    <2>6. QED BY <2>2, <2>5, AuthQuietStep DEF SignupLookup
  <1>3. QED BY <1>1, <1>2

\* The transaction r continues with, holding user u.
Resumed(s, pc, u) ==
    [[AuthIdle EXCEPT !.sub = s, !.email = SubjectEmail[s]] EXCEPT !.pc = pc, !.user = u]
LEMMA Holding ==
    ASSUME NEW s \in Subjects, NEW pc \in AuthPcs, NEW u \in UserRow
    PROVE  /\ Resumed(s, pc, u) \in Txn /\ Resumed(s, pc, u).pc = pc
           /\ Resumed(s, pc, u).user = u
           /\ ~Resumed(s, pc, u).newUser /\ ~Resumed(s, pc, u).newMember
  <1> DEFINE a == [AuthIdle EXCEPT !.sub = s]
             b == [a EXCEPT !.email = SubjectEmail[s]]
             c == [b EXCEPT !.pc = pc]
             d == [c EXCEPT !.user = u]
  <1>1. Resumed(s, pc, u) = d
    BY DEF Resumed
  <1>2. a \in Txn /\ ~a.newUser /\ ~a.newMember
    BY IdleIsTxn, WithRest DEF Same, Quiet
  <1> HIDE DEF a
  <1>3. SubjectEmail[s] \in Mails
    BY AccountsAssumption DEF Mails
  <1>4. b \in Txn /\ ~b.newUser /\ ~b.newMember
    BY <1>2, <1>3, WithRest DEF Same
  <1> HIDE DEF b
  <1>5. c \in Txn /\ c.pc = pc /\ ~c.newUser /\ ~c.newMember
    BY <1>4, WithPc
  <1> HIDE DEF c
  <1>6. d \in Txn /\ d.pc = pc /\ d.user = u /\ ~d.newUser /\ ~d.newMember
    BY <1>5, WithUser
  <1> HIDE DEF d
  <1>7. QED BY <1>1, <1>6

LEMMA ProvisionLookupInv ==
    ASSUME AccountsInv, NEW r \in AuthReqs, NEW s \in Subjects, ProvisionLookup(r, s)
    PROVE  AccountsInv'
  <1> DEFINE byId == {u \in users : u.id = s}
             byEmail == {u \in users : SubjectEmail[s] # "none" /\ u.email = SubjectEmail[s]}
             found == IF byId # {} THEN byId ELSE byEmail
             n == [AuthIdle EXCEPT !.sub = s, !.email = SubjectEmail[s]]
  <1>1. found \subseteq users /\ users \subseteq UserRow
    BY DEF AccountsInv, AccountTypes
  <1>2. /\ authReq' = [authReq EXCEPT ![r] =
             IF found # {} THEN [n EXCEPT !.pc = "member", !.user = CHOOSE u \in found : TRUE]
             ELSE [n EXCEPT !.pc = "insert", !.user = ProvisionRow(s)]]
        /\ UNCHANGED <<users, members>>
    BY DEF ProvisionLookup
  <1>3. CASE found # {}
    <2> DEFINE u == CHOOSE u \in found : TRUE
               t == Resumed(s, "member", u)
    <2>1. u \in users /\ u \in UserRow /\ "member" \in AuthPcs
      BY <1>1, <1>3 DEF AuthPcs
    <2>2. AuthBecomes(r, t)
      BY <1>2, <1>3 DEF AuthBecomes, Resumed
    <2> HIDE DEF u, found
    <2>3. t \in Txn /\ t.pc = "member" /\ t.user = u /\ ~t.newUser /\ ~t.newMember
      BY <2>1, Holding
    <2> HIDE DEF t
    <2>4. TxnOK(t) /\ Apart(r, t)
      BY <2>1, <2>3 DEF TxnOK, Apart
    <2>5. QED BY <1>2, <2>2, <2>3, <2>4, TxnStep
  <1>4. CASE found = {}
    <2> DEFINE u == ProvisionRow(s)
               t == Resumed(s, "insert", u)
    <2>1. u \in UserRow /\ "insert" \in AuthPcs
      BY AccountsAssumption DEF ProvisionRow, UserRow, Ids, Mails, AuthPcs
    <2>2. AuthBecomes(r, t)
      BY <1>2, <1>4 DEF AuthBecomes, Resumed
    <2> HIDE DEF u
    <2>3. t \in Txn /\ t.pc = "insert" /\ ~t.newUser /\ ~t.newMember
      BY <2>1, Holding
    <2> HIDE DEF t
    <2>4. QED BY <1>2, <2>2, <2>3, AuthQuietStep DEF Quiet
  <1>5. QED BY <1>3, <1>4

\* The unique indexes: no committed row and no open transaction has the key.
LEMMA InsertUserInv == ASSUME AccountsInv, NEW r \in AuthReqs, InsertUser(r) PROVE AccountsInv'
  <1>1. CASE Taken(authReq[r].user)
    BY <1>1, ReplyInv DEF InsertUser, Replies
  <1>2. CASE ~Taken(authReq[r].user)
    <2> DEFINE a == [authReq[r] EXCEPT !.pc = "member"]
               t == [a EXCEPT !.newUser = TRUE]
    <2>1. authReq[r] \in Txn /\ authReq[r].pc = "insert" /\ AccountTypes /\ TxnOK(authReq[r])
      BY DEF AccountsInv, AccountTypes, InsertUser
    <2>2. AuthBecomes(r, t)
      BY <1>2, <2>1 DEF InsertUser, AuthBecomes, AccountTypes, Txn
    <2>3. a \in Txn /\ a.pc = "member" /\ a.user = authReq[r].user /\ a.newMember = authReq[r].newMember
      BY <2>1, WithPc DEF AuthPcs
    <2> HIDE DEF a
    <2>4. t \in Txn /\ t.pc = "member" /\ t.user = authReq[r].user /\ t.newUser /\ t.newMember = authReq[r].newMember
      BY <2>3, WithNew
    <2> HIDE DEF t
    <2>5. ~t.newMember
      BY <2>1, <2>4 DEF TxnOK
    <2>6. TxnOK(t)
      BY <1>2, <2>4, <2>5 DEF TxnOK
    <2>7. Apart(r, t)
      BY <2>4 DEF Apart, InsertUser, Awaited
    <2>8. QED BY <2>2, <2>4, <2>6, <2>7, TxnStep DEF InsertUser
  <1>3. QED BY <1>1, <1>2

\* A user found has its workspace; a user just inserted has none yet.
LEMMA JoinWorkspaceInv == ASSUME AccountsInv, NEW r \in AuthReqs, JoinWorkspace(r) PROVE AccountsInv'
  <1> DEFINE x == authReq[r]
             id == x.user.id
             a == [x EXCEPT !.pc = "commit"]
  <1>1. x \in Txn /\ x.pc = "member" /\ AccountTypes /\ TxnOK(x) /\ Apart(r, x) /\ x.user \in UserRow
    BY DEF AccountsInv, AccountTypes, JoinWorkspace, Txn
  <1>2. a \in Txn /\ a.pc = "commit" /\ a.user = x.user /\ a.newUser = x.newUser /\ a.newMember = x.newMember
    BY <1>1, WithPc DEF AuthPcs
  <1>3. ~x.newMember
    BY <1>1 DEF TxnOK
  <1>4. CASE MembershipsOf(id) = {}
    <2> DEFINE m == [user |-> id, org |-> r]
               b == [a EXCEPT !.newMember = TRUE]
               t == [b EXCEPT !.member = m]
    <2>1. m \in MemberRow /\ m.user = id
      BY <1>1 DEF MemberRow, UserRow, Orgs
    <2>2. AuthBecomes(r, t)
      BY <1>1, <1>4 DEF JoinWorkspace, AuthBecomes, AccountTypes, Txn
    <2>3. x.newUser
      BY <1>1, <1>4 DEF TxnOK, AccountsInv, Committed, Homed, MembershipsOf
    <2> HIDE DEF a, m, x, id
    <2>4. b \in Txn /\ b.pc = "commit" /\ b.user = x.user /\ b.newUser = x.newUser /\ b.newMember
      BY <1>2, WithNewMember
    <2> HIDE DEF b
    <2>5. /\ t \in Txn /\ t.pc = "commit" /\ t.user = x.user /\ t.newUser = x.newUser /\ t.newMember
          /\ t.member = m
      BY <2>1, <2>4, WithMember
    <2> HIDE DEF t
    <2>6. m.user = x.user.id
      BY <2>1 DEF id
    <2>7. TxnOK(t)
      BY <1>1, <2>3, <2>5, <2>6 DEF TxnOK
    <2>8. Apart(r, t)
      BY <1>1, <2>5 DEF Apart
    <2>9. QED BY <2>2, <2>5, <2>7, <2>8, TxnStep DEF JoinWorkspace
  <1>5. CASE MembershipsOf(id) # {}
    <2>1. PICK m \in MembershipsOf(id) :
             authReq' = [authReq EXCEPT ![r].pc = "commit", ![r].member = m]
      BY <1>5 DEF JoinWorkspace
    <2> DEFINE t == [a EXCEPT !.member = m]
    <2>2. m \in MemberRow /\ m \in members /\ m.user = id
      BY <1>1, <2>1 DEF MembershipsOf, AccountTypes
    <2>3. AuthBecomes(r, t)
      BY <1>1, <2>1 DEF AuthBecomes, AccountTypes, Txn
    <2>4. ~x.newUser
      <3>1. PICK u \in users : u.id = id
        BY <2>2 DEF AccountsInv, Committed, Rooted
      <3>2. Taken(x.user)
        BY <3>1 DEF Taken, Conflicts
      <3>3. QED BY <1>1, <3>2 DEF TxnOK
    <2> HIDE DEF a, x
    <2>5. /\ t \in Txn /\ t.pc = "commit" /\ t.user = x.user /\ t.newUser = x.newUser
          /\ t.newMember = x.newMember
      BY <1>2, <2>2, WithMember
    <2> HIDE DEF t
    <2>6. TxnOK(t)
      BY <1>1, <1>3, <2>4, <2>5 DEF TxnOK
    <2>7. Apart(r, t)
      BY <2>4, <2>5 DEF Apart
    <2>8. QED BY <2>3, <2>5, <2>6, <2>7, TxnStep DEF JoinWorkspace
  <1>6. QED BY <1>4, <1>5

LEMMA LoadIdentityInv ==
    ASSUME AccountsInv, NEW r \in AuthReqs, NEW id, NEW wanted \in AuthReqs, NEW owner \in AuthReqs,
           LoadIdentity(r, id, wanted, owner)
    PROVE  AccountsInv'
  <1> DEFINE own == {m \in MembershipsOf(id) : m.org = wanted}
             from == IF own # {} THEN own ELSE MembershipsOf(id)
  <1>1. CASE from = {}
    BY <1>1, ReplyInv DEF LoadIdentity, Replies
  <1>2. CASE from # {}
    <2>1. PICK m \in from :
            LET allowed == owner = m.org \/ [user |-> id, org |-> owner] \in members IN
            authReq' = [authReq EXCEPT ![r] = [AuthIdle EXCEPT !.pc = "done",
                   !.user = CHOOSE u \in users : u.id = id, !.member = m,
                   !.org = IF allowed THEN owner ELSE "none",
                   !.reply = IF allowed THEN "ok" ELSE "refused"]]
      BY <1>2 DEF LoadIdentity
    <2> DEFINE allowed == owner = m.org \/ [user |-> id, org |-> owner] \in members
               u == CHOOSE u \in users : u.id = id
               org == IF allowed THEN owner ELSE "none"
               what == IF allowed THEN "ok" ELSE "refused"
               a == [AuthIdle EXCEPT !.pc = "done"]
               b == [a EXCEPT !.user = u]
               c == [b EXCEPT !.member = m]
               d == [c EXCEPT !.org = org]
               t == [d EXCEPT !.reply = what]
    <2>2. u \in UserRow /\ m \in MemberRow
      BY DEF LoadIdentity, AccountsInv, AccountTypes, MembershipsOf
    <2>3. org \in Orgs /\ what \in Replies
      BY DEF Orgs, Replies
    <2>4. AuthBecomes(r, t)
      BY <2>1 DEF AuthBecomes
    <2>5. a \in Txn /\ Quiet(a)
      BY IdleIsTxn, WithPc DEF AuthPcs, Quiet
    <2> HIDE DEF a, u, org, what
    <2>6. b \in Txn /\ Quiet(b)
      BY <2>2, <2>5, WithUser DEF Quiet
    <2> HIDE DEF b
    <2>7. c \in Txn /\ Quiet(c)
      BY <2>2, <2>6, WithMember DEF Quiet
    <2> HIDE DEF c
    <2>8. d \in Txn /\ Quiet(d)
      BY <2>3, <2>7, WithRest DEF Quiet, Same
    <2> HIDE DEF d
    <2>9. t \in Txn /\ Quiet(t)
      BY <2>3, <2>8, WithRest DEF Quiet, Same
    <2> HIDE DEF t
    <2>10. QED BY <2>4, <2>9, AuthQuietStep DEF LoadIdentity
  <1>3. QED BY <1>1, <1>2

\* The record the commit leaves behind.
LEMMA CommitRecord ==
    ASSUME AccountsInv, NEW r \in AuthReqs, AuthCommit(r)
    PROVE  \E t \in Txn : AuthBecomes(r, t) /\ Quiet(t)
  <1> DEFINE x == authReq[r]
             a == [x EXCEPT !.pc = "done"]
             b == [a EXCEPT !.newUser = FALSE]
             c == [b EXCEPT !.newMember = FALSE]
             d == [c EXCEPT !.org = x.member.org]
             t == [d EXCEPT !.reply = "ok"]
  <1>1. x \in Txn /\ AccountTypes /\ x.member.org \in Orgs /\ "ok" \in Replies
    BY DEF AccountsInv, AccountTypes, Txn, MemberRow, Replies
  <1>2. AuthBecomes(r, t)
    BY <1>1 DEF AuthCommit, AuthBecomes, AccountTypes, Txn
  <1>3. a \in Txn /\ a.pc = "done"
    BY <1>1, WithPc DEF AuthPcs
  <1> HIDE DEF a, x
  <1>4. b \in Txn /\ b.pc = "done" /\ ~b.newUser
    BY <1>3, WithNew
  <1> HIDE DEF b
  <1>5. c \in Txn /\ Quiet(c)
    BY <1>4, WithNewMember DEF Quiet
  <1> HIDE DEF c
  <1>6. d \in Txn /\ Quiet(d)
    BY <1>1, <1>5, WithRest DEF Quiet, Same
  <1> HIDE DEF d
  <1>7. t \in Txn /\ Quiet(t)
    BY <1>1, <1>6, WithRest DEF Quiet, Same
  <1> HIDE DEF t
  <1>8. QED BY <1>2, <1>7

\* The user arrives with its workspace, and with keys nobody has.
LEMMA CommittedRows ==
    ASSUME AccountTypes, Committed, NEW u \in UserRow, NEW m \in MemberRow, ~Taken(u), m.user = u.id,
           users' = users \cup {u}, members' = members \cup {m}
    PROVE  Committed'
  <1>1. \A v \in users : ~Conflicts(v, u) /\ ~Conflicts(u, v) /\ v.id # u.id
    BY DEF Taken, Conflicts
  <1>2. \A k \in members : k.user # u.id
    BY <1>1 DEF Committed, Rooted
  <1>3. Unique'
    BY <1>1 DEF Committed, Unique, Conflicts
  <1>4. ASSUME NEW v \in users' PROVE Homed(v)'
    <2>1. CASE v = u
      BY <1>2, <2>1 DEF Homed
    <2>2. CASE v \in users
      <3>1. v.id # m.user
        BY <1>1, <2>2
      <3>2. Homed(v)
        BY <2>2 DEF Committed
      <3>3. QED BY <3>1, <3>2 DEF Homed
    <2>3. QED BY <2>1, <2>2
  <1>5. ASSUME NEW k \in members' PROVE Rooted(k)'
    <2>1. CASE k = m
      BY <2>1 DEF Rooted
    <2>2. CASE k \in members
      BY <2>2 DEF Committed, Rooted
    <2>3. QED BY <2>1, <2>2
  <1>6. QED BY <1>3, <1>4, <1>5 DEF Committed

LEMMA AuthCommitInv == ASSUME AccountsInv, NEW r \in AuthReqs, AuthCommit(r) PROVE AccountsInv'
  <1> DEFINE x == authReq[r]
  <1>1. PICK t \in Txn : AuthBecomes(r, t) /\ Quiet(t)
    BY CommitRecord
  <1>2. /\ AccountTypes /\ Committed /\ x \in Txn /\ x.pc = "commit" /\ x.user \in UserRow
        /\ x.member \in MemberRow /\ TxnOK(x) /\ Apart(r, x)
    BY DEF AccountsInv, AccountTypes, Txn, AuthCommit
  <1>3. CASE ~x.newUser
    <2>1. ~x.newMember
      BY <1>2, <1>3 DEF TxnOK
    <2>2. UNCHANGED <<users, members>>
      BY <1>3, <2>1 DEF AuthCommit
    <2>3. QED BY <1>1, <2>2, AuthQuietStep
  <1>4. CASE x.newUser
    <2>1. x.newMember /\ x.member.user = x.user.id /\ ~Taken(x.user)
      BY <1>2, <1>4 DEF TxnOK
    <2>2. users' = users \cup {x.user} /\ members' = members \cup {x.member}
      BY <1>4, <2>1 DEF AuthCommit
    <2>3. Committed'
      BY <1>2, <2>1, <2>2, CommittedRows
    <2>4. /\ authReq' \in [AuthReqs -> Txn] /\ authReq'[r] = t
          /\ \A q \in AuthReqs \ {r} : authReq'[q] = authReq[q]
      BY <1>1, <1>2, Others
    <2>5. AccountTypes'
      BY <1>2, <2>2, <2>4 DEF AccountTypes
    <2>6. ASSUME NEW q \in AuthReqs PROVE TxnOK(authReq[q])'
      <3>1. CASE q = r
        BY <1>1, <2>4, <3>1 DEF TxnOK, Quiet
      <3>2. CASE q # r
        <4> DEFINE y == authReq[q]
        <4>1. authReq'[q] = y /\ TxnOK(y)
          BY <2>4, <3>2 DEF AccountsInv
        <4>2. y.newUser => ~Conflicts(y.user, x.user)
          BY <1>4, <1>2, <3>2 DEF Apart
        <4>3. y.newUser => ~Taken(y.user)'
          BY <2>2, <4>1, <4>2 DEF TxnOK, Taken, Conflicts
        <4>4. QED BY <2>2, <4>1, <4>3 DEF TxnOK, Taken
      <3>3. QED BY <3>1, <3>2
    <2>7. ASSUME NEW q \in AuthReqs PROVE Apart(q, authReq[q])'
      <3>1. ~(authReq'[r].newUser)
        BY <1>1, <2>4 DEF Quiet
      <3>2. CASE q = r
        BY <3>1, <3>2 DEF Apart
      <3>3. CASE q # r
        <4>1. Apart(q, authReq[q])
          BY DEF AccountsInv
        <4>2. QED BY <2>4, <3>1, <3>3, <4>1 DEF Apart, Conflicts
      <3>4. QED BY <3>2, <3>3
    <2>8. QED BY <2>3, <2>5, <2>6, <2>7 DEF AccountsInv
  <1>5. QED BY <1>3, <1>4

LEMMA NextInv == AccountsInv /\ [AccountsNext]_accountVars => AccountsInv'
  <1> SUFFICES ASSUME AccountsInv, [AccountsNext]_accountVars PROVE AccountsInv'
    OBVIOUS
  <1>1. CASE UNCHANGED accountVars
    BY <1>1 DEF accountVars, AccountsInv, AccountTypes, Committed, Unique, Homed, Rooted, TxnOK, Taken,
       Apart, Conflicts
  <1>2. ASSUME NEW r \in AuthReqs,
               \/ \E e \in Emails : SignupLookup(r, e)
               \/ \E s \in Subjects : ProvisionLookup(r, s)
        PROVE  AccountsInv'
    BY <1>2, SignupLookupInv, ProvisionLookupInv
  <1>3. ASSUME NEW r \in AuthReqs,
               InsertUser(r) \/ JoinWorkspace(r) \/ AuthCommit(r) \/ AuthAgain(r)
        PROVE  AccountsInv'
    BY <1>3, InsertUserInv, JoinWorkspaceInv, AuthCommitInv, AuthAgainInv
  <1>4. ASSUME NEW r \in AuthReqs, NEW u \in users, NEW wanted \in AuthReqs, NEW owner \in AuthReqs,
               LoadIdentity(r, u.id, wanted, owner)
        PROVE  AccountsInv'
    BY <1>4, LoadIdentityInv
  <1>5. QED BY <1>1, <1>2, <1>3, <1>4 DEF AccountsNext

\* Rows of open transactions never share a unique key with each other or with
\* a committed row, and a new user commits together with its workspace.
THEOREM AccountsInvariant == AccountsSpec => []AccountsInv
  BY InitInv, NextInv, PTL DEF AccountsSpec

\* Whatever sign-ups and first requests race (auth/service.py, auth/supabase.py),
\* a committed user has exactly one workspace and no other user its address.
THEOREM OneWorkspaceEach == AccountsSpec => []OneWorkspace
  <1>1. AccountsInv => OneWorkspace
    <2> SUFFICES ASSUME AccountsInv PROVE OneWorkspace
      OBVIOUS
    <2>1. ASSUME NEW u \in users PROVE Cardinality(MembershipsOf(u.id)) = 1
      <3>1. PICK m \in members : m.user = u.id /\ \A k \in members : k.user = u.id => k = m
        BY DEF AccountsInv, Committed, Homed
      <3>2. MembershipsOf(u.id) = {m}
        BY <3>1 DEF MembershipsOf
      <3>3. QED BY <3>2, FS_Singleton
    <2>2. QED BY <2>1 DEF OneWorkspace, AccountsInv, Committed, Unique, Rooted, Conflicts
  <1>2. QED BY <1>1, AccountsInvariant, PTL

-----------------------------------------------------------------------------
(* Rate limit and quota for any number of submissions, any limit and any       *)
(* quota.  A window lets through no more than its counter says, and the        *)
(* counter is read and written at once; the ledger and the one open paid job   *)
(* fit the quota together.                                                     *)
Codes == {"none", "200", "400", "402", "429", "500"}
Submission ==
    [pc : {"new", "limit", "count", "refuse", "quota", "create", "queued", "done"},
     chars : 0..MaxChars, paid : BOOLEAN, window : Windows, seen : Nat, reply : Codes]
Types == /\ limiter \in {"postgres", "upstash", "sqlite", "none"}
         /\ window \in Windows /\ bucket \in [Windows -> Nat]
         /\ sub \in [Requests -> Submission]
         /\ recorded \in Nat /\ contended \in BOOLEAN
Atomic == limiter \in {"postgres", "upstash"}
Pass(s) == \/ s.pc \in {"quota", "create", "queued"}
           \/ s.pc = "done" /\ s.reply \in {"200", "402"}
Counted == Atomic =>
              /\ \A r \in Requests : sub[r].pc # "count"
              /\ \A w \in Windows : /\ Cardinality(Passed(w)) <= bucket[w]
                                    /\ Cardinality(Passed(w)) <= RateLimit
OpenJob(s) == s.paid /\ s.pc \in {"create", "queued"}
Affordable == Quota > 0 /\ ~contended =>
                 /\ recorded <= Quota
                 /\ \A r \in Requests : OpenJob(sub[r]) =>
                       /\ recorded + sub[r].chars <= Quota
                       /\ \A q \in Requests : OpenJob(sub[q]) => q = r
AdmissionInv == Types /\ Counted /\ Affordable

-----------------------------------------------------------------------------
LEMMA PassedFacts ==
    ASSUME Types, NEW w \in Windows
    PROVE  /\ Passed(w) = {r \in Requests : sub[r].window = w /\ Pass(sub[r])}
           /\ Passed(w)' = {r \in Requests : sub'[r].window = w /\ Pass(sub'[r])}
           /\ IsFiniteSet(Passed(w)) /\ Cardinality(Passed(w)) \in Nat
  <1>1. /\ Passed(w) = {r \in Requests : sub[r].window = w /\ Pass(sub[r])}
        /\ Passed(w)' = {r \in Requests : sub'[r].window = w /\ Pass(sub'[r])}
    BY DEF Passed, Pass
  <1>2. IsFiniteSet(Passed(w))
    BY <1>1, FS_Subset, AdmissionAssumption
  <1>3. QED BY <1>1, <1>2, FS_CardinalityType

LEMMA OneRequest ==
    ASSUME Types, NEW r \in Requests, NEW s \in Submission, sub' = [sub EXCEPT ![r] = s]
    PROVE  /\ sub' \in [Requests -> Submission] /\ sub'[r] = s
           /\ \A q \in Requests \ {r} : sub'[q] = sub[q]
  BY DEF Types

\* A step that lets nobody new through keeps the counters.
LEMMA NobodyPasses ==
    ASSUME Types, Counted, NEW r \in Requests, NEW s \in Submission,
           sub' = [sub EXCEPT ![r] = s], UNCHANGED limiter,
           bucket' \in [Windows -> Nat], \A w \in Windows : bucket[w] <= bucket'[w],
           Atomic => s.pc # "count" /\ (Pass(s) => Pass(sub[r]) /\ s.window = sub[r].window)
    PROVE  Counted'
  <1> SUFFICES ASSUME Atomic PROVE Counted'
    BY DEF Counted, Atomic
  <1>1. \A q \in Requests : sub'[q].pc # "count"
    BY OneRequest DEF Counted
  <1>2. ASSUME NEW w \in Windows
        PROVE  Cardinality(Passed(w)') <= bucket'[w] /\ Cardinality(Passed(w)') <= RateLimit
    <2>1. Passed(w)' \subseteq Passed(w)
      BY PassedFacts, OneRequest
    <2>2. Cardinality(Passed(w)') <= Cardinality(Passed(w)) /\ Cardinality(Passed(w)') \in Nat
      BY <2>1, PassedFacts, FS_Subset, FS_CardinalityType
    <2>3. Cardinality(Passed(w)) <= bucket[w] /\ Cardinality(Passed(w)) <= RateLimit
      BY DEF Counted
    <2>4. bucket[w] <= bucket'[w] /\ bucket[w] \in Nat /\ bucket'[w] \in Nat
      BY DEF Types
    <2>5. QED BY <2>2, <2>3, <2>4, PassedFacts, AdmissionAssumption
  <1>3. QED BY <1>1, <1>2 DEF Counted

\* A step that leaves the ledger alone and opens no paid work.
LEMMA NothingOpens ==
    ASSUME Types, Affordable, NEW r \in Requests, NEW s \in Submission,
           sub' = [sub EXCEPT ![r] = s], UNCHANGED recorded, contended => contended',
           OpenJob(s) => OpenJob(sub[r]) /\ s.chars = sub[r].chars
    PROVE  Affordable'
  <1> SUFFICES ASSUME Quota > 0, ~contended, ~contended' PROVE Affordable'
    BY DEF Affordable
  <1>1. \A q \in Requests : OpenJob(sub'[q]) => OpenJob(sub[q]) /\ sub'[q].chars = sub[q].chars
    BY OneRequest
  <1>2. QED BY <1>1 DEF Affordable

-----------------------------------------------------------------------------
LEMMA AdmissionInitInv == AdmissionInit => AdmissionInv
  <1> SUFFICES ASSUME AdmissionInit PROVE AdmissionInv
    OBVIOUS
  <1>1. SubIdle \in Submission /\ ~Pass(SubIdle) /\ ~OpenJob(SubIdle) /\ SubIdle.pc = "new"
    BY AdmissionAssumption DEF SubIdle, Submission, Pass, OpenJob, Windows, Codes
  <1>2. Types
    <2>1. 0 \in Windows /\ 0 \in Nat
      BY AdmissionAssumption DEF Windows
    <2>2. bucket \in [Windows -> Nat]
      BY <2>1 DEF AdmissionInit
    <2>3. sub \in [Requests -> Submission]
      BY <1>1 DEF AdmissionInit
    <2>4. QED BY <2>1, <2>2, <2>3 DEF AdmissionInit, Types
  <1>3. \A w \in Windows : Passed(w) = {}
    BY <1>1, <1>2, PassedFacts DEF AdmissionInit
  <1>4. Counted
    <2>1. \A w \in Windows : Cardinality(Passed(w)) = 0 /\ bucket[w] = 0
      BY <1>3, FS_EmptySet DEF AdmissionInit
    <2>2. \A r \in Requests : sub[r].pc # "count"
      BY <1>1 DEF AdmissionInit
    <2>3. 0 <= RateLimit
      BY AdmissionAssumption
    <2>4. QED BY <2>1, <2>2, <2>3 DEF Counted
  <1>5. Affordable
    BY <1>1, AdmissionAssumption DEF AdmissionInit, Affordable
  <1>6. QED BY <1>2, <1>4, <1>5 DEF AdmissionInv

\* Submissions that are answered or move on without a place in the window.
LEMMA QuietStep ==
    ASSUME AdmissionInv, NEW r \in Requests, NEW s \in Submission,
           sub' = [sub EXCEPT ![r] = s], bucket' \in [Windows -> Nat],
           \A w \in Windows : bucket[w] <= bucket'[w],
           UNCHANGED <<limiter, window, recorded>>,
           contended' \in BOOLEAN, contended => contended',
           Atomic => s.pc # "count" /\ (Pass(s) => Pass(sub[r]) /\ s.window = sub[r].window),
           OpenJob(s) => OpenJob(sub[r]) /\ s.chars = sub[r].chars
    PROVE  AdmissionInv'
  <1>1. Types'
    BY OneRequest DEF AdmissionInv, Types
  <1>2. Counted'
    BY NobodyPasses DEF AdmissionInv
  <1>3. Affordable'
    BY NothingOpens DEF AdmissionInv
  <1>4. QED BY <1>1, <1>2, <1>3 DEF AdmissionInv

LEMMA SameBucket ==
    ASSUME AdmissionInv, UNCHANGED bucket
    PROVE  bucket' \in [Windows -> Nat] /\ \A w \in Windows : bucket[w] <= bucket'[w]
  BY DEF AdmissionInv, Types

LEMMA MoreInBucket ==
    ASSUME AdmissionInv, NEW v \in Windows, bucket' = [bucket EXCEPT ![v] = @ + 1]
    PROVE  /\ bucket' \in [Windows -> Nat] /\ \A w \in Windows : bucket[w] <= bucket'[w]
           /\ bucket'[v] = bucket[v] + 1
  BY DEF AdmissionInv, Types

\* r's record with a new pc, then with a reply as well.
Pcs == {"new", "limit", "count", "refuse", "quota", "create", "queued", "done"}
LEMMA Moved ==
    ASSUME NEW s \in Submission, NEW pc \in Pcs
    PROVE  /\ [s EXCEPT !.pc = pc] \in Submission
           /\ [s EXCEPT !.pc = pc].pc = pc /\ [s EXCEPT !.pc = pc].reply = s.reply
           /\ [s EXCEPT !.pc = pc].paid = s.paid /\ [s EXCEPT !.pc = pc].chars = s.chars
           /\ [s EXCEPT !.pc = pc].window = s.window
  BY DEF Submission, Pcs
LEMMA Answered ==
    ASSUME NEW s \in Submission, NEW code \in Codes
    PROVE  /\ [s EXCEPT !.reply = code] \in Submission
           /\ [s EXCEPT !.reply = code].pc = s.pc /\ [s EXCEPT !.reply = code].reply = code
           /\ [s EXCEPT !.reply = code].paid = s.paid /\ [s EXCEPT !.reply = code].chars = s.chars
           /\ [s EXCEPT !.reply = code].window = s.window
  BY DEF Submission
LEMMA Counting ==
    ASSUME NEW s \in Submission, NEW n \in Nat
    PROVE  /\ [s EXCEPT !.seen = n] \in Submission
           /\ [s EXCEPT !.seen = n].pc = s.pc
  BY DEF Submission

\* The record a step leaves behind for r, whatever step it is.
SetPc(r, pc) == sub' = [sub EXCEPT ![r].pc = pc]
Becomes(r, s) == sub' = [sub EXCEPT ![r] = s]
LEMMA RecordOf ==
    ASSUME Types, NEW r \in Requests, NEW pc \in Pcs, SetPc(r, pc)
    PROVE  \E s \in Submission :
             /\ s.pc = pc /\ s.reply = sub[r].reply /\ s.paid = sub[r].paid
             /\ s.chars = sub[r].chars /\ s.window = sub[r].window
             /\ Becomes(r, s)
  <1> DEFINE s == [sub[r] EXCEPT !.pc = pc]
  <1>1. sub[r] \in Submission
    BY DEF Types
  <1>2. /\ s \in Submission /\ s.pc = pc /\ s.reply = sub[r].reply /\ s.paid = sub[r].paid
        /\ s.chars = sub[r].chars /\ s.window = sub[r].window
    BY <1>1, Moved
  <1>3. Becomes(r, s)
    BY DEF Types, SetPc, Becomes
  <1> HIDE DEF s
  <1>4. QED BY <1>2, <1>3

LEMMA AnswerOf ==
    ASSUME Types, NEW r \in Requests, NEW code \in Codes, Reply(r, code)
    PROVE  \E s \in Submission :
             /\ s.pc = "done" /\ s.reply = code /\ s.paid = sub[r].paid
             /\ s.chars = sub[r].chars /\ s.window = sub[r].window
             /\ Becomes(r, s)
  <1> DEFINE t == [sub[r] EXCEPT !.pc = "done"]
             s == [t EXCEPT !.reply = code]
  <1>1. sub[r] \in Submission
    BY DEF Types
  <1>2. /\ t \in Submission /\ t.pc = "done" /\ t.paid = sub[r].paid
        /\ t.chars = sub[r].chars /\ t.window = sub[r].window
    BY <1>1, Moved DEF Pcs
  <1>3. Becomes(r, s)
    BY <1>1 DEF Types, Submission, Reply, Becomes
  <1> HIDE DEF t
  <1>4. /\ s \in Submission /\ s.pc = "done" /\ s.reply = code /\ s.paid = sub[r].paid
        /\ s.chars = sub[r].chars /\ s.window = sub[r].window
    BY <1>2, Answered
  <1> HIDE DEF s
  <1>5. QED BY <1>3, <1>4

LEMMA CountingOf ==
    ASSUME Types, NEW r \in Requests, NEW pc \in Pcs, NEW n \in Nat,
           sub' = [sub EXCEPT ![r].pc = pc, ![r].seen = n]
    PROVE  \E s \in Submission : s.pc = pc /\ Becomes(r, s)
  <1> DEFINE t == [sub[r] EXCEPT !.pc = pc]
             s == [t EXCEPT !.seen = n]
  <1>1. sub[r] \in Submission
    BY DEF Types
  <1>2. t \in Submission /\ t.pc = pc
    BY <1>1, Moved
  <1>3. Becomes(r, s)
    BY <1>1 DEF Types, Submission, Becomes
  <1> HIDE DEF t
  <1>4. s \in Submission /\ s.pc = pc
    BY <1>2, Counting
  <1> HIDE DEF s
  <1>5. QED BY <1>3, <1>4

-----------------------------------------------------------------------------
LEMMA SubmitInv ==
    ASSUME AdmissionInv, NEW r \in Requests, NEW chars \in 0..MaxChars, NEW paid \in BOOLEAN,
           Submit(r, chars, paid)
    PROVE  AdmissionInv'
  <1> DEFINE s == [pc |-> IF chars = 0 THEN "done" ELSE "limit", chars |-> chars, paid |-> paid,
             window |-> window, seen |-> 0, reply |-> IF chars = 0 THEN "400" ELSE "none"]
  <1>2. s \in Submission /\ s.pc \in {"done", "limit"} /\ s.reply \in {"400", "none"}
    BY DEF Submission, Codes, AdmissionInv, Types
  <1>4. sub' = [sub EXCEPT ![r] = s]
    BY DEF Submit
  <1> HIDE DEF s
  <1>3. ~OpenJob(s) /\ s.pc # "count" /\ ~Pass(s)
    BY <1>2 DEF Pass, OpenJob
  <1>5. /\ bucket' \in [Windows -> Nat] /\ \A w \in Windows : bucket[w] <= bucket'[w]
        /\ contended' \in BOOLEAN /\ UNCHANGED <<limiter, window, recorded, contended>>
    BY SameBucket DEF Submit, AdmissionInv, Types
  <1>6. QED BY <1>2, <1>3, <1>4, <1>5, QuietStep

\* A refusal: r is done, and not counted among those let through.
LEMMA AnswerInv ==
    ASSUME AdmissionInv, NEW r \in Requests, NEW code \in Codes \ {"200", "402"}, Reply(r, code),
           bucket' \in [Windows -> Nat], \A w \in Windows : bucket[w] <= bucket'[w],
           UNCHANGED <<limiter, window, recorded, contended>>
    PROVE  AdmissionInv'
  <1>1. Types /\ code \in Codes /\ contended' \in BOOLEAN
    BY DEF AdmissionInv, Types
  <1>2. PICK s \in Submission :
           /\ s.pc = "done" /\ s.reply = code
           /\ Becomes(r, s)
    BY <1>1, AnswerOf
  <1>3. sub' = [sub EXCEPT ![r] = s]
    BY <1>2 DEF Becomes
  <1>4. ~Pass(s) /\ ~OpenJob(s) /\ s.pc # "count"
    BY <1>2 DEF Pass, OpenJob
  <1>5. QED BY <1>1, <1>3, <1>4, QuietStep

\* A step of a limiter that does not count atomically, or a refusal by one
\* that does.
LEMMA MoveInv ==
    ASSUME AdmissionInv, NEW r \in Requests, NEW pc \in Pcs, NEW s \in Submission,
           s.pc = pc, sub' = [sub EXCEPT ![r] = s],
           bucket' \in [Windows -> Nat], \A w \in Windows : bucket[w] <= bucket'[w],
           UNCHANGED <<limiter, window, recorded, contended>>,
           Atomic => pc = "refuse", pc \notin {"create", "queued"}
    PROVE  AdmissionInv'
  <1>1. ~OpenJob(s) /\ (Atomic => s.pc # "count" /\ ~Pass(s))
    BY DEF Pass, OpenJob
  <1>2. contended' \in BOOLEAN
    BY DEF AdmissionInv, Types
  <1>3. QED BY <1>1, <1>2, QuietStep

-----------------------------------------------------------------------------
\* The counter has room for r, and r takes it: the window's passes grow by one,
\* with its counter.
LEMMA OneMore ==
    ASSUME NEW S, IsFiniteSet(S), NEW x
    PROVE  /\ IsFiniteSet(S \cup {x}) /\ Cardinality(S \cup {x}) \in Nat
           /\ Cardinality(S \cup {x}) <= Cardinality(S) + 1
  <1>1. /\ IsFiniteSet(S \cup {x})
        /\ Cardinality(S \cup {x}) = IF x \in S THEN Cardinality(S) ELSE Cardinality(S) + 1
    BY FS_AddElement
  <1>2. Cardinality(S) \in Nat /\ Cardinality(S \cup {x}) \in Nat
    BY <1>1, FS_CardinalityType
  <1>3. QED BY <1>1, <1>2

LEMMA PlaceTaken ==
    ASSUME AdmissionInv, NEW r \in Requests, NEW s \in Submission,
           sub' = [sub EXCEPT ![r] = s], s.pc = "quota", s.window = sub[r].window,
           bucket' = [bucket EXCEPT ![s.window] = @ + 1], bucket[s.window] + 1 <= RateLimit,
           UNCHANGED <<limiter, window, recorded, contended>>
    PROVE  AdmissionInv'
  <1>1. s.window \in Windows
    BY DEF Submission
  <1>2. /\ bucket' \in [Windows -> Nat] /\ \A w \in Windows : bucket[w] <= bucket'[w]
        /\ bucket'[s.window] = bucket[s.window] + 1
    BY <1>1, MoreInBucket
  <1>3. Types'
    BY <1>2, OneRequest DEF AdmissionInv, Types
  <1>4. Affordable'
    BY NothingOpens DEF AdmissionInv, OpenJob
  <1>5. Counted'
    <2> SUFFICES ASSUME Atomic PROVE Counted'
      BY DEF Counted, Atomic
    <2>1. \A q \in Requests : sub'[q].pc # "count"
      BY OneRequest DEF AdmissionInv, Counted
    <2>2. ASSUME NEW w \in Windows
          PROVE  Cardinality(Passed(w)') <= bucket'[w] /\ Cardinality(Passed(w)') <= RateLimit
      <3>1. /\ Types /\ IsFiniteSet(Passed(w)) /\ Cardinality(Passed(w)) \in Nat
            /\ Cardinality(Passed(w)) <= bucket[w] /\ Cardinality(Passed(w)) <= RateLimit
        BY PassedFacts DEF AdmissionInv, Counted
      <3>2. bucket[w] \in Nat /\ bucket'[w] \in Nat /\ bucket[w] <= bucket'[w] /\ RateLimit \in Nat
        BY <1>2, <3>1, AdmissionAssumption DEF Types
      <3>3. CASE w = s.window
        <4>1. Passed(w)' \subseteq Passed(w) \cup {r}
          BY <3>1, PassedFacts, OneRequest
        <4>2. /\ IsFiniteSet(Passed(w) \cup {r})
              /\ Cardinality(Passed(w) \cup {r}) \in Nat
              /\ Cardinality(Passed(w) \cup {r}) <= Cardinality(Passed(w)) + 1
          BY <3>1, OneMore
        <4>3. /\ Cardinality(Passed(w)') \in Nat
              /\ Cardinality(Passed(w)') <= Cardinality(Passed(w) \cup {r})
          BY <4>1, <4>2, FS_Subset, FS_CardinalityType
        <4>4. bucket'[w] = bucket[w] + 1 /\ bucket[w] + 1 <= RateLimit
          BY <1>2, <3>3
        <4>5. QED BY <3>1, <3>2, <4>2, <4>3, <4>4
      <3>4. CASE w # s.window
        <4>1. Passed(w)' \subseteq Passed(w)
          BY <3>1, <3>4, PassedFacts, OneRequest
        <4>2. Cardinality(Passed(w)') \in Nat /\ Cardinality(Passed(w)') <= Cardinality(Passed(w))
          BY <3>1, <4>1, FS_Subset, FS_CardinalityType
        <4>3. QED BY <3>1, <3>2, <4>2
      <3>5. QED BY <3>3, <3>4
    <2>3. QED BY <2>1, <2>2 DEF Counted
  <1>6. QED BY <1>3, <1>4, <1>5 DEF AdmissionInv

LEMMA CountAtomicallyInv ==
    ASSUME AdmissionInv, NEW r \in Requests, CountAtomically(r)
    PROVE  AdmissionInv'
  <1> DEFINE n == bucket[sub[r].window] + 1
             pc == Verdict(r, n)
  <1>1. Types /\ sub[r] \in Submission /\ sub[r].window \in Windows
    BY DEF AdmissionInv, Types, Submission
  <1>2. n \in Nat
    BY <1>1 DEF Types
  <1>3. /\ pc \in {"quota", "refuse"} /\ pc \in Pcs
        /\ pc = "quota" => n <= RateLimit
    BY DEF Verdict, Pcs
  <1>4. PICK s \in Submission :
           /\ s.pc = pc /\ s.window = sub[r].window
           /\ Becomes(r, s)
    <2>1. SetPc(r, pc)
      BY DEF SetPc, CountAtomically
    <2> HIDE DEF pc, n
    <2>2. QED BY <1>1, <1>3, <2>1, RecordOf
  <1>5. /\ sub' = [sub EXCEPT ![r] = s]
        /\ bucket' = [bucket EXCEPT ![s.window] = @ + 1]
        /\ UNCHANGED <<limiter, window, recorded, contended>>
    BY <1>4 DEF CountAtomically, Becomes
  <1>6. s.window \in Windows /\ n = bucket[s.window] + 1
    BY <1>1, <1>4
  <1> HIDE DEF n, pc
  <1>7. CASE pc = "quota"
    BY <1>3, <1>4, <1>5, <1>6, <1>7, PlaceTaken
  <1>8. CASE pc = "refuse"
    <2>1. bucket' \in [Windows -> Nat] /\ \A w \in Windows : bucket[w] <= bucket'[w]
      BY <1>5, <1>6, MoreInBucket
    <2>2. QED BY <1>3, <1>4, <1>5, <1>8, <2>1, MoveInv
  <1>9. QED BY <1>3, <1>7, <1>8

LEMMA CountReadInv == ASSUME AdmissionInv, NEW r \in Requests, CountRead(r) PROVE AdmissionInv'
  <1>1. Types /\ sub[r].window \in Windows /\ bucket[sub[r].window] \in Nat /\ "count" \in Pcs
    BY DEF AdmissionInv, Types, Submission, Pcs
  <1>2. PICK s \in Submission : s.pc = "count" /\ Becomes(r, s)
    BY <1>1, CountingOf DEF CountRead
  <1>3. /\ bucket' \in [Windows -> Nat] /\ \A w \in Windows : bucket[w] <= bucket'[w]
        /\ UNCHANGED <<limiter, window, recorded, contended>> /\ ~Atomic
    BY SameBucket DEF CountRead, Atomic
  <1>4. QED BY <1>1, <1>2, <1>3, MoveInv DEF Becomes

\* The fallback's second half: it may lower a counter, and only it may.
LEMMA CountWriteInv == ASSUME AdmissionInv, NEW r \in Requests, CountWrite(r) PROVE AdmissionInv'
  <1> DEFINE pc == Verdict(r, sub[r].seen + 1)
  <1>1. Types /\ sub[r].window \in Windows /\ sub[r].seen + 1 \in Nat
    BY DEF AdmissionInv, Types, Submission
  <1>2. pc \in Pcs /\ pc \in {"quota", "refuse"} /\ SetPc(r, pc)
    BY DEF Pcs, Verdict, SetPc, CountWrite
  <1> HIDE DEF pc
  <1>3. PICK s \in Submission : s.pc = pc /\ Becomes(r, s)
    BY <1>1, <1>2, RecordOf
  <1>4. ~Atomic /\ ~(Atomic') /\ UNCHANGED <<limiter, window, recorded, contended>>
    BY DEF CountWrite, AdmissionInv, Counted, Atomic, At
  <1>5. bucket' \in [Windows -> Nat]
    BY <1>1 DEF CountWrite, Types
  <1>6. Types'
    BY <1>3, <1>4, <1>5, OneRequest DEF AdmissionInv, Types, Becomes
  <1>7. Counted'
    BY <1>4 DEF Counted, Atomic
  <1>8. ~OpenJob(s)
    BY <1>2, <1>3 DEF OpenJob
  <1>9. Affordable'
    BY <1>3, <1>4, <1>8, NothingOpens DEF AdmissionInv, Becomes
  <1>10. QED BY <1>6, <1>7, <1>9 DEF AdmissionInv

LEMMA CountFailsInv == ASSUME AdmissionInv, NEW r \in Requests, CountFails(r) PROVE AdmissionInv'
  <1>1. "500" \in Codes \ {"200", "402"} /\ sub[r].window \in Windows
    BY DEF Codes, AdmissionInv, Types, Submission
  <1>2. bucket' \in [Windows -> Nat] /\ \A w \in Windows : bucket[w] <= bucket'[w]
    <2>1. CASE bucket' = bucket
      BY <2>1, SameBucket
    <2>2. CASE bucket' = [bucket EXCEPT ![sub[r].window] = @ + 1]
      BY <1>1, <2>2, MoreInBucket
    <2>3. QED BY <2>1, <2>2 DEF CountFails
  <1>3. QED BY <1>1, <1>2, AnswerInv DEF CountFails

LEMMA CountNoneInv == ASSUME AdmissionInv, NEW r \in Requests, CountNone(r) PROVE AdmissionInv'
  <1>1. Types /\ "quota" \in Pcs /\ SetPc(r, "quota")
    BY DEF AdmissionInv, Pcs, CountNone, SetPc
  <1>2. PICK s \in Submission : s.pc = "quota" /\ Becomes(r, s)
    BY <1>1, RecordOf
  <1>3. /\ bucket' \in [Windows -> Nat] /\ \A w \in Windows : bucket[w] <= bucket'[w]
        /\ UNCHANGED <<limiter, window, recorded, contended>> /\ ~Atomic
    BY SameBucket DEF CountNone, Atomic
  <1>4. QED BY <1>1, <1>2, <1>3, MoveInv DEF Becomes

LEMMA RefusalInv ==
    ASSUME AdmissionInv, NEW r \in Requests, TooMany(r) \/ RefuseSnapshot(r)
    PROVE  AdmissionInv'
  <1>1. "429" \in Codes \ {"200", "402"} /\ "400" \in Codes \ {"200", "402"}
    BY DEF Codes
  <1>2. UNCHANGED <<limiter, window, bucket, recorded, contended>>
    BY DEF TooMany, RefuseSnapshot
  <1>3. QED BY <1>1, <1>2, SameBucket, AnswerInv DEF TooMany, RefuseSnapshot

\* Refused for the quota, r has used its place; accepted, its characters fit,
\* and it is the only paid job open unless the check was contended.
LEMMA CheckQuotaInv == ASSUME AdmissionInv, NEW r \in Requests, CheckQuota(r) PROVE AdmissionInv'
  <1>1. Types /\ Pass(sub[r]) /\ ~OpenJob(sub[r]) /\ "create" \in Pcs /\ "402" \in Codes
    BY DEF AdmissionInv, CheckQuota, At, Pass, OpenJob, Pcs, Codes
  <1>2. UNCHANGED <<limiter, window, bucket, recorded>>
    BY DEF CheckQuota
  <1>3. bucket' \in [Windows -> Nat] /\ \A w \in Windows : bucket[w] <= bucket'[w]
    BY <1>2, SameBucket
  <1>4. contended' \in BOOLEAN /\ (contended => contended')
    BY Zenon DEF CheckQuota
  <1>5. CASE Exceeds(r)
    <2>1. Reply(r, "402")
      BY <1>5 DEF CheckQuota
    <2>2. PICK s \in Submission :
             s.pc = "done" /\ s.reply = "402" /\ s.window = sub[r].window /\ Becomes(r, s)
      BY <1>1, <2>1, AnswerOf
    <2>3. ~OpenJob(s) /\ s.pc # "count"
      BY <2>2 DEF OpenJob
    <2>4. QED BY <1>1, <1>2, <1>3, <1>4, <2>2, <2>3, QuietStep DEF Becomes
  <1>6. CASE ~Exceeds(r)
    <2>1. SetPc(r, "create")
      BY <1>6 DEF CheckQuota, SetPc
    <2>2. PICK s \in Submission :
             /\ s.pc = "create" /\ s.window = sub[r].window /\ s.chars = sub[r].chars
             /\ s.paid = sub[r].paid /\ Becomes(r, s)
      BY <1>1, <2>1, RecordOf
    <2>3. Types'
      BY <1>2, <1>3, <1>4, <2>2, OneRequest DEF AdmissionInv, Types, Becomes
    <2>4. Counted'
      BY <1>1, <1>2, <1>3, <2>2, NobodyPasses DEF AdmissionInv, Becomes
    <2>5. Affordable'
      <3> SUFFICES ASSUME Quota > 0, ~contended' PROVE Affordable'
        BY DEF Affordable
      <3>1. \A q \in Requests \ {r} : ~OpenJob(sub[q])
        BY Zenon DEF CheckQuota, Open, OpenJob
      <3>2. \A q \in Requests \ {r} : sub'[q] = sub[q]
        BY <1>1, <2>2, OneRequest DEF Becomes
      <3>3. sub'[r] = s
        BY <1>1, <2>2, OneRequest DEF Becomes
      <3>4. recorded <= Quota
        BY <1>4 DEF AdmissionInv, Affordable
      <3>5. OpenJob(s) => recorded + s.chars <= Quota
        <4>1. recorded \in Nat /\ Quota \in Nat /\ s.chars \in Nat
          BY AdmissionAssumption DEF AdmissionInv, Types, Submission
        <4>2. OpenJob(s) => ~(recorded + s.chars > Quota)
          BY <1>6, <2>2 DEF Exceeds, OpenJob
        <4>3. QED BY <4>1, <4>2
      <3>6. \A q \in Requests : OpenJob(sub'[q]) => q = r
        BY <3>1, <3>2
      <3>7. QED BY <1>2, <3>3, <3>4, <3>5, <3>6 DEF Affordable
    <2>6. QED BY <2>3, <2>4, <2>5 DEF AdmissionInv
  <1>7. QED BY <1>5, <1>6

LEMMA CreateJobInv == ASSUME AdmissionInv, NEW r \in Requests, CreateJob(r) PROVE AdmissionInv'
  <1> DEFINE t == [sub[r] EXCEPT !.pc = "queued"]
             s == [t EXCEPT !.reply = "200"]
  <1>1. Types /\ sub[r] \in Submission /\ sub[r].pc = "create" /\ "200" \in Codes
    BY DEF AdmissionInv, Types, CreateJob, At, Codes
  <1>2. /\ t \in Submission /\ t.pc = "queued" /\ t.paid = sub[r].paid
        /\ t.chars = sub[r].chars /\ t.window = sub[r].window
    BY <1>1, Moved DEF Pcs
  <1>3. sub' = [sub EXCEPT ![r] = s]
    BY <1>1 DEF Types, Submission, CreateJob
  <1> HIDE DEF t
  <1>4. /\ s \in Submission /\ s.pc = "queued" /\ s.paid = sub[r].paid
        /\ s.chars = sub[r].chars /\ s.window = sub[r].window
    BY <1>1, <1>2, Answered
  <1> HIDE DEF s
  <1>5. Pass(sub[r]) /\ (OpenJob(s) => OpenJob(sub[r])) /\ s.pc # "count"
    BY <1>1, <1>4 DEF Pass, OpenJob
  <1>6. /\ bucket' \in [Windows -> Nat] /\ \A w \in Windows : bucket[w] <= bucket'[w]
        /\ contended' \in BOOLEAN /\ UNCHANGED <<limiter, window, recorded, contended>>
    BY SameBucket DEF CreateJob, AdmissionInv, Types
  <1>7. QED BY <1>3, <1>4, <1>5, <1>6, QuietStep

\* What the run charges fits, because the open job's whole text did.
LEMMA RecordUsageInv == ASSUME AdmissionInv, NEW r \in Requests, RecordUsage(r) PROVE AdmissionInv'
  <1>1. Types /\ sub[r] \in Submission /\ sub[r].pc = "queued" /\ SetPc(r, "done") /\ "done" \in Pcs
    BY DEF AdmissionInv, Types, RecordUsage, At, SetPc, Pcs
  <1>2. PICK s \in Submission : s.pc = "done" /\ s.window = sub[r].window /\ Becomes(r, s)
    BY <1>1, RecordOf
  <1>3. PICK charged \in 0..(IF sub[r].paid THEN sub[r].chars ELSE 0) : recorded' = recorded + charged
    BY DEF RecordUsage
  <1>4. /\ charged \in Nat /\ recorded \in Nat /\ recorded' \in Nat /\ recorded' = recorded + charged
        /\ sub[r].chars \in Nat /\ charged <= sub[r].chars /\ (~sub[r].paid => charged = 0)
    BY <1>1, <1>3, AdmissionAssumption DEF Submission, Types
  <1>5. UNCHANGED <<limiter, window, bucket, contended>>
    BY DEF RecordUsage
  <1>6. bucket' \in [Windows -> Nat] /\ \A w \in Windows : bucket[w] <= bucket'[w]
    BY <1>5, SameBucket
  <1>7. Types'
    BY <1>1, <1>2, <1>4, <1>5, <1>6, OneRequest DEF Types, Becomes
  <1>8. Counted'
    <2>1. Pass(sub[r]) /\ s.pc # "count"
      BY <1>1, <1>2 DEF Pass
    <2>2. QED BY <1>2, <1>5, <1>6, <2>1, NobodyPasses DEF AdmissionInv, Becomes
  <1>9. Affordable'
    <2> SUFFICES ASSUME Quota > 0, ~contended PROVE Affordable'
      BY <1>5 DEF Affordable
    <2>1. /\ sub'[r] = s /\ ~OpenJob(s)
          /\ \A q \in Requests \ {r} : sub'[q] = sub[q]
      BY <1>1, <1>2, OneRequest DEF Becomes, OpenJob
    <2>2. /\ recorded <= Quota /\ Quota \in Nat
          /\ \A q \in Requests : OpenJob(sub[q]) =>
                /\ recorded + sub[q].chars <= Quota
                /\ \A p \in Requests : OpenJob(sub[p]) => p = q
      BY AdmissionAssumption DEF AdmissionInv, Affordable
    <2>3. CASE sub[r].paid
      <3>1. OpenJob(sub[r])
        BY <1>1, <2>3 DEF OpenJob
      <3>2. recorded + sub[r].chars <= Quota /\ \A p \in Requests : OpenJob(sub[p]) => p = r
        BY <2>2, <3>1
      <3>3. recorded' <= Quota
        BY <1>4, <2>2, <3>2
      <3>4. \A q \in Requests : ~OpenJob(sub'[q])
        BY <2>1, <3>2
      <3>5. QED BY <3>3, <3>4 DEF Affordable
    <2>4. CASE ~sub[r].paid
      <3>1. recorded' = recorded
        BY <1>4, <2>4
      <3>2. \A q \in Requests : OpenJob(sub'[q]) => OpenJob(sub[q]) /\ sub'[q] = sub[q]
        BY <2>1
      <3>3. QED BY <2>2, <3>1, <3>2 DEF Affordable
    <2>5. QED BY <2>3, <2>4
  <1>10. QED BY <1>7, <1>8, <1>9 DEF AdmissionInv

-----------------------------------------------------------------------------
LEMMA AdmissionNextInv == AdmissionInv /\ [AdmissionNext]_admitVars => AdmissionInv'
  <1> SUFFICES ASSUME AdmissionInv, [AdmissionNext]_admitVars PROVE AdmissionInv'
    OBVIOUS
  <1>1. CASE UNCHANGED <<limiter, bucket, sub, recorded, contended>> /\ window' \in Windows
    <2>1. \A w \in Windows : Passed(w)' = Passed(w)
      BY <1>1 DEF Passed
    <2>2. Types' /\ Affordable'
      BY <1>1 DEF AdmissionInv, Types, Affordable
    <2>3. Counted'
      BY <1>1, <2>1 DEF AdmissionInv, Counted, Atomic
    <2>4. QED BY <2>2, <2>3 DEF AdmissionInv
  <1>2. CASE UNCHANGED admitVars
    BY <1>1, <1>2 DEF admitVars, AdmissionInv, Types
  <1>3. CASE NextWindow
    <2>1. window' \in Windows
      BY <1>3, AdmissionAssumption DEF NextWindow, AdmissionInv, Types, Windows
    <2>2. QED BY <1>1, <1>3, <2>1 DEF NextWindow
  <1>4. ASSUME NEW r \in Requests, NEW chars \in 0..MaxChars, NEW paid \in BOOLEAN,
               Submit(r, chars, paid)
        PROVE  AdmissionInv'
    BY <1>4, SubmitInv
  <1>5. ASSUME NEW r \in Requests,
               \/ CountAtomically(r) \/ CountRead(r) \/ CountWrite(r) \/ CountFails(r) \/ CountNone(r)
               \/ TooMany(r) \/ CheckQuota(r) \/ CreateJob(r) \/ RefuseSnapshot(r) \/ RecordUsage(r)
        PROVE  AdmissionInv'
    BY <1>5, CountAtomicallyInv, CountReadInv, CountWriteInv, CountFailsInv, CountNoneInv,
       RefusalInv, CheckQuotaInv, CreateJobInv, RecordUsageInv
  <1>6. QED BY <1>2, <1>3, <1>4, <1>5 DEF AdmissionNext

\* Passes never exceed the counter or the limit of their window, and the one
\* open paid job fits what the ledger leaves.
THEOREM AdmissionInvariant == AdmissionSpec => []AdmissionInv
  BY AdmissionInitInv, AdmissionNextInv, PTL DEF AdmissionSpec

\* However submissions interleave, a window lets through at most RateLimit of
\* them (limiter.check), and the month's ledger stays within the quota unless
\* a check ran while other paid work was open (usage.check_quota).
THEOREM AdmissionIsBounded == AdmissionSpec => []AdmissionBounded
  <1>1. AdmissionInv => AdmissionBounded
    BY DEF AdmissionInv, Counted, Atomic, Affordable, AdmissionBounded, WindowRespected, QuotaWhenSerial
  <1>2. QED BY <1>1, AdmissionInvariant, PTL

-----------------------------------------------------------------------------
(* What an operator reads off the heartbeat rows, for any processes and jobs.  *)
(* The rows alone are not enough: a worker on its way to a job must not have   *)
(* one that names another, so the invariant joins a process with its row.      *)
Process == [pc : {"off", "loop", "claimed", "run", "ended", "gone", "dead"},
            job : RegJobs \cup {"none"}, stop : BOOLEAN]
Row == [row : BOOLEAN, job : RegJobs \cup {"none"}, old : BOOLEAN]
\* A process and its row at one moment.
Agree(x, y) ==
    /\ x.pc \in {"loop", "claimed", "run", "ended"} => y.row
    /\ x.pc \in {"off", "gone"} => ~y.row
    /\ y.job # "none" => x.pc \in {"ended", "dead"} \/ (x.pc = "run" /\ x.job = y.job)
RegistryInv ==
    /\ proc \in [Procs -> Process] /\ beat \in [Procs -> Row]
    /\ jobsLeft \subseteq RegJobs /\ api \in Deps
    /\ \A p \in Procs : Agree(proc[p], beat[p])

LEMMA RegistryInitInv == RegistryInit => RegistryInv
  BY DEF RegistryInit, RegistryInv, NoBeat, Process, Row, Agree

\* A step of one process touches its own entry and its own row only.
LEMMA OwnStep ==
    ASSUME RegistryInv, NEW p \in Procs, NEW x \in Process, NEW y \in Row, Agree(x, y),
           proc' = [proc EXCEPT ![p] = x], beat' = [beat EXCEPT ![p] = y],
           jobsLeft' \subseteq RegJobs, UNCHANGED api
    PROVE  RegistryInv'
  BY DEF RegistryInv

LEMMA SetEntry ==
    ASSUME RegistryInv, NEW p \in Procs, NEW pc, NEW j, Set(p, pc, j)
    PROVE  proc' = [proc EXCEPT ![p] = [proc[p] EXCEPT !.pc = pc, !.job = j]]
  BY DEF RegistryInv, Set, Process

LEMMA SameRow ==
    ASSUME RegistryInv, NEW p \in Procs, UNCHANGED beat
    PROVE  beat' = [beat EXCEPT ![p] = beat[p]]
  BY DEF RegistryInv

LEMMA ProcessStep ==
    ASSUME RegistryInv, NEW p \in Procs,
           WorkerStart(p) \/ WorkerClaim(p) \/ WorkerBeat(p) \/ BeatFails(p) \/ RunEnds(p)
             \/ ClearBeat(p) \/ Signal(p) \/ Deregister(p) \/ WorkerDies(p) \/ Grow(p)
    PROVE  RegistryInv'
  <1> DEFINE x == proc[p]
             y == beat[p]
             X(pc, j) == [x EXCEPT !.pc = pc, !.job = j]
  <1>0. x \in Process /\ y \in Row /\ Agree(x, y) /\ jobsLeft \subseteq RegJobs
    BY DEF RegistryInv
  <1>1. CASE WorkerStart(p)
    <2>1. X("loop", "none") \in Process /\ Beat("none") \in Row
          /\ Agree(X("loop", "none"), Beat("none"))
      BY <1>0 DEF Process, Row, Agree, Beat
    <2>2. proc' = [proc EXCEPT ![p] = X("loop", "none")]
      BY <1>1, SetEntry DEF WorkerStart
    <2>3. QED BY <1>0, <1>1, <2>1, <2>2, OwnStep DEF WorkerStart
  <1>2. CASE WorkerClaim(p)
    <2>1. PICK j \in jobsLeft : Set(p, "claimed", j) /\ jobsLeft' = jobsLeft \ {j}
      BY <1>2 DEF WorkerClaim
    <2>2. X("claimed", j) \in Process /\ Agree(X("claimed", j), y)
      BY <1>0, <1>2 DEF Process, Row, Agree, WorkerClaim
    <2>3. proc' = [proc EXCEPT ![p] = X("claimed", j)]
      BY <2>1, SetEntry
    <2>4. jobsLeft' \subseteq RegJobs /\ UNCHANGED <<beat, api>>
      BY <1>0, <1>2, <2>1 DEF WorkerClaim
    <2>5. QED BY <1>0, <2>2, <2>3, <2>4, SameRow, OwnStep
  <1>3. CASE WorkerBeat(p)
    <2>1. [x EXCEPT !.pc = "run"] \in Process /\ Beat(x.job) \in Row
          /\ Agree([x EXCEPT !.pc = "run"], Beat(x.job))
      BY <1>0 DEF Process, Row, Agree, Beat
    <2>2. QED BY <1>0, <1>3, <2>1, OwnStep DEF WorkerBeat
  <1>4. CASE BeatFails(p) \/ RunEnds(p)
    <2>1. X("ended", "none") \in Process /\ Agree(X("ended", "none"), y)
      BY <1>0, <1>4 DEF Process, Row, Agree, BeatFails, RunEnds
    <2>2. proc' = [proc EXCEPT ![p] = X("ended", "none")]
      BY <1>4, SetEntry DEF BeatFails, RunEnds
    <2>3. QED BY <1>0, <1>4, <2>1, <2>2, SameRow, OwnStep DEF BeatFails, RunEnds
  <1>5. CASE ClearBeat(p)
    <2>1. X("loop", "none") \in Process /\ Beat("none") \in Row
          /\ Agree(X("loop", "none"), Beat("none"))
      BY <1>0 DEF Process, Row, Agree, Beat
    <2>2. proc' = [proc EXCEPT ![p] = X("loop", "none")]
      BY <1>5, SetEntry DEF ClearBeat
    <2>3. QED BY <1>0, <1>5, <2>1, <2>2, OwnStep DEF ClearBeat
  <1>6. CASE Signal(p)
    <2>1. [x EXCEPT !.stop = TRUE] \in Process /\ Agree([x EXCEPT !.stop = TRUE], y)
      BY <1>0 DEF Process, Row, Agree
    <2>2. QED BY <1>0, <1>6, <2>1, SameRow, OwnStep DEF Signal
  <1>7. CASE Deregister(p)
    <2> DEFINE z == [x EXCEPT !.pc = "gone", !.stop = FALSE]
    <2>1. z \in Process /\ NoBeat \in Row /\ Agree(z, NoBeat)
      BY <1>0 DEF Process, Row, Agree, NoBeat
    <2>2. proc' = [proc EXCEPT ![p] = z]
      BY <1>7 DEF Deregister, RegistryInv, Process
    <2>3. QED BY <1>0, <1>7, <2>1, <2>2, OwnStep DEF Deregister
  <1>8. CASE WorkerDies(p)
    <2>1. X("dead", "none") \in Process /\ Agree(X("dead", "none"), y)
      BY <1>0 DEF Process, Row, Agree
    <2>2. proc' = [proc EXCEPT ![p] = X("dead", "none")]
      BY <1>8, SetEntry DEF WorkerDies
    <2>3. QED BY <1>0, <1>8, <2>1, <2>2, SameRow, OwnStep DEF WorkerDies
  <1>9. CASE Grow(p)
    <2>1. [y EXCEPT !.old = TRUE] \in Row /\ Agree(x, [y EXCEPT !.old = TRUE])
      BY <1>0 DEF Row, Agree
    <2>2. proc' = [proc EXCEPT ![p] = x]
      BY <1>9 DEF Grow, RegistryInv
    <2>3. QED BY <1>0, <1>9, <2>1, <2>2, OwnStep DEF Grow
  <1>10. QED BY <1>1, <1>2, <1>3, <1>4, <1>5, <1>6, <1>7, <1>8, <1>9

LEMMA DeleteHeldJobInv ==
    ASSUME RegistryInv, NEW j \in RegJobs, DeleteHeldJob(j)
    PROVE  RegistryInv'
  <1>1. \A p \in Procs : beat'[p] = beat[p] \/ beat'[p] = [beat[p] EXCEPT !.job = "none"]
    BY DEF DeleteHeldJob
  <1>2. \A y \in Row : [y EXCEPT !.job = "none"] \in Row
    BY DEF Row
  <1>3. \A x \in Process, y \in Row : Agree(x, y) => Agree(x, [y EXCEPT !.job = "none"])
    BY DEF Row, Process, Agree
  <1>4. beat' \in [Procs -> Row]
    BY <1>1, <1>2 DEF DeleteHeldJob, RegistryInv
  <1>5. ASSUME NEW p \in Procs PROVE Agree(proc[p], beat'[p])
    <2>1. proc[p] \in Process /\ beat[p] \in Row /\ Agree(proc[p], beat[p])
      BY DEF RegistryInv
    <2>2. Agree(proc[p], [beat[p] EXCEPT !.job = "none"])
      BY <1>3, <2>1
    <2>3. QED BY <1>1, <2>1, <2>2
  <1>6. QED BY <1>4, <1>5 DEF DeleteHeldJob, RegistryInv

LEMMA RegistryNextInv == RegistryInv /\ [RegistryNext]_registryVars => RegistryInv'
  <1> SUFFICES ASSUME RegistryInv, [RegistryNext]_registryVars PROVE RegistryInv'
    OBVIOUS
  <1>1. CASE UNCHANGED registryVars
    BY <1>1 DEF registryVars, RegistryInv
  <1>2. CASE DependencyChange
    BY <1>2 DEF DependencyChange, RegistryInv, Deps
  <1>3. QED BY <1>1, <1>2, DeleteHeldJobInv, ProcessStep DEF RegistryNext

\* What each process does agrees with what its row says, through starts, clean
\* stops, kills and deleted jobs.
THEOREM RegistryInvariant == RegistrySpec => []RegistryInv
  BY RegistryInitInv, RegistryNextInv, PTL DEF RegistrySpec

LEMMA ReadyMeansSeen ==
    ASSUME RegistryInv, Readiness = "ready"
    PROVE  \E p \in Procs : beat[p].row /\ ~beat[p].old
  <1>1. ~Unready /\ ~Degraded
    BY DEF Readiness
  <1>2. WorkersCheck = "ok"
    BY <1>1 DEF Unready, Degraded
  <1>3. QED BY <1>2 DEF WorkersCheck, Rows

\* The heartbeat rows of any number of workers tell the truth: live workers
\* have one, stopped ones have none, a row names a job only of a worker that
\* runs it, ends it or died with it, and a ready service has a fresh row
\* (worker.main, process_one, app.health_ready).
THEOREM RegistryIsTruthful == RegistrySpec => []RegistryTruthful
  <1>1. RegistryInv => RegistryTruthful
    BY ReadyMeansSeen DEF RegistryInv, RegistryTruthful, Agree, Alive
  <1>2. QED BY <1>1, RegistryInvariant, PTL

-----------------------------------------------------------------------------
(* The order in which claims take books, for any books, workers and clock: a   *)
(* due book's place is its age less its priority, and priorities are at most   *)
(* nine apart.                                                                 *)
BookType == [status : {"none", "queued", "running", "succeeded", "failed", "canceled"},
             priority : 1..10, at : Int, available : Int, by : BatchClaimers \cup {"none"},
             cancel : BOOLEAN, attempts : Nat]
Placed(row) == row.status # "none" => row.available = row.at + 5 - row.priority
BatchInv == /\ tick \in Nat
            /\ books \in [Books -> BookType]
            /\ \A b \in Books : Placed(books[b])

LEMMA BookRowType == BookRow \in BookType
  <1>1. 5 \in 1..10 /\ 0 \in Int /\ 0 \in Nat
    OBVIOUS
  <1>2. QED BY <1>1 DEF BookRow, BookType

LEMMA BatchInitInv == BatchInit => BatchInv
  <1>1. \A row \in BookType : [row EXCEPT !.status = "none"] \in BookType
                               /\ Placed([row EXCEPT !.status = "none"])
    BY DEF BookType, Placed
  <1>2. NoBook \in BookType /\ Placed(NoBook)
    BY <1>1, BookRowType DEF NoBook
  <1>3. QED BY <1>2 DEF BatchInit, BatchInv

LEMMA MovedOn ==
    ASSUME NEW row \in BookType, Placed(row), row.status # "none",
           NEW st \in {"queued", "running", "succeeded", "failed", "canceled"},
           NEW w \in BatchClaimers \cup {"none"}, NEW n \in Nat
    PROVE  LET new == [[[row EXCEPT !.status = st] EXCEPT !.by = w] EXCEPT !.attempts = n]
           IN  new \in BookType /\ Placed(new)
  BY DEF BookType, Placed

LEMMA Placing ==
    ASSUME NEW row \in BookType, NEW p \in 1..10, NEW t \in Int, NEW a \in Int, a = t + 5 - p
    PROVE  LET new == [[[row EXCEPT !.priority = p] EXCEPT !.at = t] EXCEPT !.available = a]
           IN  new \in BookType /\ Placed(new)
  <1> DEFINE one == [row EXCEPT !.priority = p]
             two == [one EXCEPT !.at = t]
             new == [two EXCEPT !.available = a]
  <1>1. one \in BookType /\ one.priority = p
    BY DEF BookType
  <1> HIDE DEF one
  <1>2. two \in BookType /\ two.priority = p /\ two.at = t
    BY <1>1 DEF BookType
  <1> HIDE DEF two
  <1>3. new \in BookType /\ new.priority = p /\ new.at = t /\ new.available = a
    BY <1>2 DEF BookType
  <1> HIDE DEF new
  <1>4. Placed(new)
    BY <1>3 DEF Placed
  <1>5. QED BY <1>3, <1>4 DEF new, two, one

\* Every step leaves a row in its place or gives it a new one.
LEMMA RowsStep ==
    ASSUME BatchInv, tick' \in Nat, NEW f, books' = [b \in Books |-> f[b]],
           \A b \in Books : f[b] \in BookType /\ Placed(f[b])
    PROVE  BatchInv'
  BY DEF BatchInv

LEMMA EnqueueBatchInv ==
    ASSUME BatchInv, NEW bs \in SUBSET Books, NEW priority \in Spread, EnqueueBatch(bs, priority)
    PROVE  BatchInv'
  <1> DEFINE new == [BookRow EXCEPT !.priority = priority, !.at = tick,
                                    !.available = tick + Offset(priority)]
  <1>1. priority \in 1..10 /\ tick \in Nat
    BY BatchAssumption DEF BatchInv
  <1>2. Offset(priority) \in Int /\ tick + Offset(priority) = tick + 5 - priority
    BY <1>1 DEF Offset
  <1>3. new \in BookType /\ Placed(new)
    <2>1. new = [[[BookRow EXCEPT !.priority = priority] EXCEPT !.at = tick]
                    EXCEPT !.available = tick + Offset(priority)]
      OBVIOUS
    <2>2. tick \in Int /\ tick + Offset(priority) \in Int
      BY <1>1, <1>2
    <2>3. QED BY <1>1, <1>2, <2>1, <2>2, BookRowType, Placing
  <1> HIDE DEF new
  <1>4. books' = [b \in Books |-> IF b \in bs THEN new ELSE books[b]]
    BY DEF EnqueueBatch, new
  <1>5. QED BY <1>3, <1>4 DEF EnqueueBatch, BatchInv

LEMMA ClaimNextInv ==
    ASSUME BatchInv, NEW w \in BatchClaimers, ClaimNext(w)
    PROVE  BatchInv'
  <1>1. PICK b \in FirstDue :
          books' = [books EXCEPT ![b].status = "running", ![b].by = w, ![b].attempts = @ + 1]
    BY DEF ClaimNext
  <1> DEFINE row == books[b]
             new == [[[row EXCEPT !.status = "running"] EXCEPT !.by = w]
                        EXCEPT !.attempts = row.attempts + 1]
  <1>2. b \in Books /\ books[b] \in BookType /\ Placed(books[b]) /\ books[b].status = "queued"
    BY DEF FirstDue, Due, With, BatchInv
  <1>3. row.attempts + 1 \in Nat
    BY <1>2 DEF BookType
  <1>4. new \in BookType /\ Placed(new)
    BY <1>2, <1>3, MovedOn
  <1>5. books' = [books EXCEPT ![b] = new]
    BY <1>1, <1>2 DEF BatchInv, BookType
  <1> HIDE DEF new
  <1>6. QED BY <1>2, <1>4, <1>5 DEF ClaimNext, BatchInv

LEMMA BatchRunEndsInv ==
    ASSUME BatchInv, NEW b \in Books, BatchRunEnds(b)
    PROVE  BatchInv'
  <1>1. PICK st \in {"succeeded", "failed", "canceled"} :
          books' = [books EXCEPT ![b].status = st, ![b].by = "none"]
    BY DEF BatchRunEnds
  <1> DEFINE row == books[b]
             new == [[[row EXCEPT !.status = st] EXCEPT !.by = "none"]
                        EXCEPT !.attempts = row.attempts]
  <1>2. books[b] \in BookType /\ Placed(books[b]) /\ books[b].status = "running"
    BY DEF BatchRunEnds, With, BatchInv
  <1>3. row.attempts \in Nat
    BY <1>2 DEF BookType
  <1>4. new \in BookType /\ Placed(new)
    BY <1>2, <1>3, MovedOn
  <1>5. books' = [books EXCEPT ![b] = new]
    BY <1>1, <1>2 DEF BatchInv, BookType
  <1> HIDE DEF new
  <1>6. QED BY <1>2, <1>4, <1>5 DEF BatchRunEnds, BatchInv

LEMMA CancelBatchInv ==
    ASSUME BatchInv, NEW bs \in SUBSET Books, CancelBatch(bs)
    PROVE  BatchInv'
  <1>1. ASSUME NEW row \in BookType, Placed(row)
        PROVE  Canceled(row) \in BookType /\ Placed(Canceled(row))
    BY <1>1 DEF BookType, Placed, Canceled
  <1>2. books' = [b \in Books |-> IF b \in bs THEN Canceled(books[b]) ELSE books[b]]
    BY DEF CancelBatch
  <1>3. QED BY <1>1, <1>2 DEF CancelBatch, BatchInv

LEMMA BatchNextInv == BatchInv /\ [BatchNext]_batchVars => BatchInv'
  <1> SUFFICES ASSUME BatchInv, [BatchNext]_batchVars PROVE BatchInv'
    OBVIOUS
  <1>1. CASE UNCHANGED batchVars
    BY <1>1 DEF batchVars, BatchInv
  <1>2. CASE Tick
    BY <1>2 DEF Tick, BatchInv
  <1>3. QED BY <1>1, <1>2, EnqueueBatchInv, ClaimNextInv, BatchRunEndsInv, CancelBatchInv
            DEF BatchNext

\* A batch that was ever queued is due at its arrival plus five minus its
\* priority (BatchProcessor.enqueue).
THEOREM BatchInvariant == BatchSpec => []BatchInv
  BY BatchInitInv, BatchNextInv, PTL DEF BatchSpec

\* Only a claim makes a queued book run.
LEMMA ClaimedIsFirst ==
    ASSUME BatchInv, [BatchNext]_batchVars, NEW b \in Books, Claimed(b)
    PROVE  b \in FirstDue
  <1>1. books[b].status = "queued" /\ books'[b].status = "running" /\ books[b] \in BookType
    BY DEF Claimed, BatchInv
  <1>2. PICK w \in BatchClaimers : ClaimNext(w)
    <2>1. ~UNCHANGED batchVars /\ ~Tick
      BY <1>1 DEF batchVars, Tick
    <2>2. ASSUME NEW bs \in SUBSET Books, NEW priority \in Spread PROVE ~EnqueueBatch(bs, priority)
      BY <1>1 DEF EnqueueBatch, With, BookRow, BatchInv
    <2>3. ASSUME NEW c \in Books PROVE ~BatchRunEnds(c)
      BY <1>1 DEF BatchRunEnds, With, BatchInv, BookType
    <2>4. ASSUME NEW bs \in SUBSET Books PROVE ~CancelBatch(bs)
      BY <1>1 DEF CancelBatch, Canceled, BookType
    <2>5. QED BY <2>1, <2>2, <2>3, <2>4 DEF BatchNext
  <1>3. PICK c \in FirstDue :
          books' = [books EXCEPT ![c].status = "running", ![c].by = w, ![c].attempts = @ + 1]
    BY <1>2 DEF ClaimNext
  <1>4. b = c
    BY <1>1, <1>3 DEF BatchInv
  <1>5. QED BY <1>3, <1>4

\* Whatever batches are queued and cancelled, a claim passes over no due book
\* that is more than nine seconds older, nor one of the same age and a higher
\* priority (BatchProcessor.claim_next).
THEOREM LowPriorityIsServed == BatchSpec => NoStarvation
  <1>1. ASSUME BatchInv, [BatchNext]_batchVars, NEW b \in Books, Claimed(b), NEW c \in Due
        PROVE  /\ books[c].at >= books[b].at - 9
               /\ books[c].at = books[b].at => books[c].priority <= books[b].priority
    <2>1. books[b].available <= books[c].available /\ b \in Due
      BY <1>1, ClaimedIsFirst DEF FirstDue
    <2>2. /\ books[b] \in BookType /\ Placed(books[b]) /\ books[b].status = "queued"
          /\ books[c] \in BookType /\ Placed(books[c]) /\ books[c].status = "queued"
      BY <1>1, <2>1 DEF Due, With, BatchInv
    <2> DEFINE bAt == books[b].at bP == books[b].priority
               cAt == books[c].at cP == books[c].priority
    <2>3. bAt \in Int /\ cAt \in Int /\ bP \in 1..10 /\ cP \in 1..10
      BY <2>2 DEF BookType
    <2>4. bAt + 5 - bP <= cAt + 5 - cP
      BY <2>1, <2>2 DEF Placed
    <2> HIDE DEF bAt, bP, cAt, cP
    <2>5. cAt >= bAt - 9 /\ (cAt = bAt => cP <= bP)
      BY <2>3, <2>4
    <2>6. QED BY <2>5 DEF bAt, bP, cAt, cP
  <1>2. BatchInv /\ [BatchNext]_batchVars
        => [\A b \in Books : Claimed(b) => \A c \in Due :
              /\ books[c].at >= books[b].at - 9
              /\ books[c].at = books[b].at => books[c].priority <= books[b].priority]_batchVars
    BY <1>1
  <1>3. QED BY <1>2, BatchInvariant, PTL DEF BatchSpec, NoStarvation

=============================================================================
