--------------------------- MODULE Accounts_proofs ---------------------------
(***************************************************************************)
(* What accounts and memberships guarantee, for any number of addresses    *)
(* and of requests at once and any limit of guesses.  The argument is      *)
(* about what a request still knows of the rows it has read: whichever     *)
(* request commits in between, it says something true of them, or the row  *)
(* it read is marked as gone.                                              *)
(***************************************************************************)
EXTENDS Accounts, TLAPS

USE AccountsAssumption DEF AccountsAssumption

-----------------------------------------------------------------------------
(* The inductive invariant *)

\* The count of wrong codes is no smaller than what the code has been missed.
CountKnows == \A e \in Emails : Pending(e) /\ ~hole[e] => tried[e] <= wrong[e]

\* What a request has read of the rows still holds when it commits: an account stays,
\* an invite stays or is known to be gone, and only a founder finds an empty organisation.
Knows(q, users, invites, begun) ==
  /\ q.op = "register" /\ q.seen # None => users[q.email] # NoUser
  /\ q.op = "guess" => users[q.email] # NoUser
  /\ q.op = "admit" =>
        /\ q.new \/ users[q.email] # NoUser
        /\ q.way = "invite" => begun /\ (q.gone \/ invites[q.email] # None)
        /\ q.way = "empty" => q.email \in Founders /\ q.role = "admin"
  /\ q.op = "invite" => begun
  /\ q.op = "remove" => q.by # q.email

RequestsKnow == \A s \in Slots : Knows(req[s], user, invite, founded)

\* Without a first member there is neither a member nor an invite.
NothingUnfounded == ~founded => \A e \in Emails : member[e] = None /\ invite[e] = None

Memberships == NothingUnfounded /\ LockOutNeedsCrossing
IInv == TypeOK /\ CountKnows /\ RequestsKnow /\ Memberships

-----------------------------------------------------------------------------
(* Lemmas about requests *)

Registers == [op : {"register"}, email : Emails, type : Types, seen : Types \cup {None}]
Guesses == [op : {"guess"}, email : Emails, old : BOOLEAN]
Admits == [op : {"admit"}, email : Emails, new : BOOLEAN, coded : BOOLEAN, type : Types,
           way : Ways, role : Roles \cup {None}, gone : BOOLEAN]
Invites == [op : {"invite"}, email : Emails, role : Roles, seen : Roles \cup {None}, gone : BOOLEAN]
Revokes == [op : {"revoke"}, email : Emails, gone : BOOLEAN]
Removes == [op : {"remove"}, by : Emails, email : Emails, drop : BOOLEAN, gone : BOOLEAN]

LEMMA RequestKinds ==
  Request = Registers \cup Guesses \cup Admits \cup Invites \cup Revokes \cup Removes
BY DEF Request, Registers, Guesses, Admits, Invites, Revokes, Removes

ReqTyped == req \in [Slots -> Request \cup {Idle}]

LEMMA IdleOp == Idle.op = "none" /\ DOMAIN Idle = {"op"}
BY DEF Idle, None

\* The operation of a request tells what it holds.
LEMMA KindOf ==
  ASSUME NEW q \in Request \cup {Idle}
  PROVE  /\ q.op = "register" => q \in Registers
         /\ q.op = "guess" => q \in Guesses
         /\ q.op = "admit" => q \in Admits
         /\ q.op = "invite" => q \in Invites
         /\ q.op = "revoke" => q \in Revokes
         /\ q.op = "remove" => q \in Removes
<1>1. CASE q = Idle
  BY <1>1, IdleOp
<1>2. CASE q \in Registers
  BY <1>2 DEF Registers
<1>3. CASE q \in Guesses
  BY <1>3 DEF Guesses
<1>4. CASE q \in Admits
  BY <1>4 DEF Admits
<1>5. CASE q \in Invites
  BY <1>5 DEF Invites
<1>6. CASE q \in Revokes
  BY <1>6 DEF Revokes
<1>7. CASE q \in Removes
  BY <1>7 DEF Removes
<1> QED BY <1>1, <1>2, <1>3, <1>4, <1>5, <1>6, <1>7, RequestKinds

\* A request whose code has been replaced is the same otherwise.
LEMMA OutdateKeeps ==
  ASSUME NEW q \in Request \cup {Idle}, NEW e \in Emails, NEW u, NEW i, NEW f
  PROVE  /\ Outdate(q, e) \in Request \cup {Idle}
         /\ Knows(q, u, i, f) => Knows(Outdate(q, e), u, i, f)
<1>1. CASE q.op = "guess" /\ q.email = e
  <2>1. q \in Guesses
    BY <1>1, KindOf
  <2> DEFINE o == [q EXCEPT !.old = TRUE]
  <2>2. o \in Guesses /\ o.op = "guess" /\ o.email = q.email
    BY <2>1 DEF Guesses
  <2>3. Outdate(q, e) = o
    BY <1>1 DEF Outdate
  <2> HIDE DEF o
  <2> QED BY <1>1, <2>2, <2>3, RequestKinds DEF Knows
<1>2. CASE ~(q.op = "guess" /\ q.email = e)
  BY <1>2 DEF Outdate
<1> QED BY <1>1, <1>2

\* A request that is told that the row is gone is the same otherwise.
LEMMA OrphanKeeps ==
  ASSUME NEW q \in Request \cup {Idle}, NEW e \in Emails
  PROVE  /\ Orphan(q, e) \in Request \cup {Idle}
         /\ \A u, i, j, f :
              /\ Knows(q, u, i, f)
              /\ \A a \in Emails : a # e => j[a] = i[a]
              => Knows(Orphan(q, e), u, j, f)
<1> DEFINE o == [q EXCEPT !.gone = TRUE]
<1>1. CASE q = Idle
  BY <1>1, IdleOp DEF Orphan, Knows
<1>2. CASE q \in Registers \cup Guesses
  <2>1. "gone" \notin DOMAIN q /\ q.op \notin {"admit", "invite", "remove"}
    BY <1>2 DEF Registers, Guesses
  <2> QED BY <2>1 DEF Orphan, Knows
<1>3. CASE q \in Admits
  <2>1. "gone" \in DOMAIN q /\ q.email \in Emails
    BY <1>3 DEF Admits
  <2>2. CASE q.email = e
    <3>1. /\ o \in Admits /\ o.op = "admit" /\ o.gone = TRUE /\ o.new = q.new
          /\ o.email = q.email /\ o.way = q.way /\ o.role = q.role /\ q.op = "admit"
      BY <1>3 DEF Admits
    <3>2. Orphan(q, e) = o
      BY <2>1, <2>2 DEF Orphan
    <3> HIDE DEF o
    <3> QED BY <3>1, <3>2, RequestKinds DEF Knows
  <2>3. CASE q.email # e
    <3>1. Orphan(q, e) = q
      BY <2>3 DEF Orphan
    <3> QED BY <2>1, <2>3, <3>1 DEF Knows
  <2> QED BY <2>2, <2>3
<1>4. CASE q \in Invites
  <2>1. o \in Invites /\ o.op = "invite" /\ q.op = "invite"
    BY <1>4 DEF Invites
  <2>2. Orphan(q, e) = o \/ Orphan(q, e) = q
    BY DEF Orphan
  <2> HIDE DEF o
  <2> QED BY <2>1, <2>2, RequestKinds DEF Knows
<1>5. CASE q \in Revokes
  <2>1. o \in Revokes /\ o.op = "revoke" /\ q.op = "revoke"
    BY <1>5 DEF Revokes
  <2>2. Orphan(q, e) = o \/ Orphan(q, e) = q
    BY DEF Orphan
  <2> HIDE DEF o
  <2> QED BY <2>1, <2>2, RequestKinds DEF Knows
<1>6. CASE q \in Removes
  <2>1. o \in Removes /\ o.op = "remove" /\ q.op = "remove" /\ o.by = q.by /\ o.email = q.email
    BY <1>6 DEF Removes
  <2>2. Orphan(q, e) = o \/ Orphan(q, e) = q
    BY DEF Orphan
  <2> HIDE DEF o
  <2> QED BY <2>1, <2>2, RequestKinds DEF Knows
<1> QED BY <1>1, <1>2, <1>3, <1>4, <1>5, <1>6, RequestKinds

\* Rows that only come do not prove a request wrong.
LEMMA StillKnows ==
  ASSUME NEW q \in Request \cup {Idle}, NEW u, NEW v, NEW i, NEW j, NEW f, NEW g,
         Knows(q, u, i, f),
         \A e \in Emails : u[e] # NoUser => v[e] # NoUser,
         \A e \in Emails : i[e] # None => j[e] # None,
         f => g
  PROVE  Knows(q, v, j, g)
<1>1. CASE q.op = "register"
  <2>1. q.email \in Emails
    BY <1>1, KindOf DEF Registers
  <2> QED BY <1>1, <2>1 DEF Knows
<1>2. CASE q.op = "admit"
  <2>1. q.email \in Emails
    BY <1>2, KindOf DEF Admits
  <2> QED BY <1>2, <2>1 DEF Knows
<1>3. CASE q.op = "guess"
  <2>1. q.email \in Emails
    BY <1>3, KindOf DEF Guesses
  <2> QED BY <1>3, <2>1 DEF Knows
<1>4. CASE q.op \notin {"register", "admit", "guess"}
  BY <1>4 DEF Knows
<1> QED BY <1>1, <1>2, <1>3, <1>4

\* Of the requests: those there were, with a new one or without one that is done.
LEMMA BeginStep ==
  ASSUME ReqTyped, RequestsKnow, NEW s \in Slots, NEW x \in Request, Begin(s, x),
         Knows(x, user, invite, founded), UNCHANGED <<user, invite, founded>>
  PROVE  ReqTyped' /\ RequestsKnow'
<1>1. ReqTyped' /\ \A t \in Slots : req'[t] = IF t = s THEN x ELSE req[t]
  BY DEF Begin, ReqTyped
<1> QED BY <1>1 DEF RequestsKnow

LEMMA IdleKnows == \A u, i, f : Knows(Idle, u, i, f)
BY IdleOp DEF Knows

LEMMA DoneStep ==
  ASSUME ReqTyped, RequestsKnow, NEW s \in Slots, Done(s),
         \A e \in Emails : user[e] # NoUser => user'[e] # NoUser,
         \A e \in Emails : invite[e] # None => invite'[e] # None,
         founded => founded'
  PROVE  ReqTyped' /\ RequestsKnow'
<1>1. ReqTyped' /\ \A t \in Slots : req'[t] = IF t = s THEN Idle ELSE req[t]
  BY DEF Done, ReqTyped
<1>2. ASSUME NEW t \in Slots PROVE Knows(req'[t], user', invite', founded')
  <2>1. CASE t = s
    BY <1>1, <2>1, IdleKnows
  <2>2. CASE t # s
    <3>1. req'[t] = req[t] /\ Knows(req[t], user, invite, founded)
      BY <1>1, <2>2 DEF RequestsKnow
    <3>2. req[t] \in Request \cup {Idle}
      BY DEF ReqTyped
    <3> QED BY <3>1, <3>2, StillKnows
  <2> QED BY <2>1, <2>2
<1> QED BY <1>1, <1>2 DEF RequestsKnow

-----------------------------------------------------------------------------
(* The three parts of the invariant *)

CodesTyped ==
  /\ user \in [Emails -> User \cup {NoUser}]
  /\ wrong \in [Emails -> 0..(MaxAttempts - 1)]
  /\ tried \in [Emails -> 0..MaxAttempts]
  /\ hole \in [Emails -> BOOLEAN]

OrgTyped ==
  /\ member \in [Emails -> Roles \cup {None}]
  /\ invite \in [Emails -> Roles \cup {None}]
  /\ founded \in BOOLEAN /\ crossed \in BOOLEAN

Codes == CodesTyped /\ CountKnows
Org == OrgTyped /\ Memberships
Reqs == ReqTyped /\ RequestsKnow

LEMMA Parts == IInv <=> Codes /\ Org /\ Reqs
BY Zenon DEF IInv, TypeOK, Codes, CodesTyped, Org, OrgTyped, Reqs, ReqTyped

LEMMA PartsNext == ASSUME Codes', Org', Reqs' PROVE IInv'
BY Zenon DEF IInv, TypeOK, Codes, CodesTyped, Org, OrgTyped, Reqs, ReqTyped

LEMMA CodesSame == ASSUME Codes, UNCHANGED <<user, wrong, tried, hole>> PROVE Codes'
BY DEF Codes, CodesTyped, CountKnows, Pending

LEMMA OrgSame == ASSUME Org, UNCHANGED <<member, invite, founded, crossed>> PROVE Org'
BY DEF Org, OrgTyped, Memberships, NothingUnfounded, LockOutNeedsCrossing, Admin

\* A row that is there is one of an account.
LEMMA RowThere ==
  ASSUME Codes, NEW e \in Emails
  PROVE  /\ user[e] # NoUser => user[e] \in User
         /\ Pending(e) => user[e] # NoUser
         /\ NoUser \notin User
<1>1. user[e] \in User \cup {NoUser}
  BY DEF Codes, CodesTyped
<1>2. NoUser \notin User
  BY DEF NoUser, User, Types, None
<1>3. NoUser.code = FALSE
  BY DEF NoUser
<1> QED BY <1>1, <1>2, <1>3 DEF Pending

\* A row is written.
LEMMA RowWritten ==
  ASSUME Codes, NEW e \in Emails, NEW x \in User, user' = [user EXCEPT ![e] = x]
  PROVE  /\ user' \in [Emails -> User \cup {NoUser}]
         /\ user'[e] = x
         /\ \A a \in Emails : a # e => user'[a] = user[a]
         /\ \A a \in Emails : user[a] # NoUser => user'[a] # NoUser
<1>1. /\ user' \in [Emails -> User \cup {NoUser}]
      /\ \A a \in Emails : user'[a] = IF a = e THEN x ELSE user[a]
  BY DEF Codes, CodesTyped
<1>2. x # NoUser
  BY RowThere
<1> QED BY <1>1, <1>2

\* What is said about a code is forgotten when there is none, or another.
LEMMA Forgotten ==
  ASSUME Codes, NEW e \in Emails, Forget(e),
         user' \in [Emails -> User \cup {NoUser}],
         \A a \in Emails : a # e => user'[a] = user[a],
         wrong' \in [Emails -> 0..(MaxAttempts - 1)],
         \A a \in Emails : a # e => wrong'[a] = wrong[a]
  PROVE  Codes'
<1>1. /\ tried' \in [Emails -> 0..MaxAttempts] /\ tried'[e] = 0
      /\ \A a \in Emails : a # e => tried'[a] = tried[a]
  BY DEF Forget, Codes, CodesTyped
<1>2. /\ hole' \in [Emails -> BOOLEAN]
      /\ \A a \in Emails : a # e => hole'[a] = hole[a]
  BY DEF Forget, Codes, CodesTyped
<1>3. ASSUME NEW a \in Emails, user'[a].code, ~hole'[a] PROVE tried'[a] <= wrong'[a]
  <2>1. CASE a = e
    <3>1. wrong'[e] \in Nat
      OBVIOUS
    <3> QED BY <1>1, <2>1, <3>1
  <2>2. CASE a # e
    BY <1>1, <1>2, <1>3, <2>2 DEF Codes, CountKnows, Pending
  <2> QED BY <2>1, <2>2
<1>4. CountKnows'
  BY <1>3 DEF CountKnows, Pending
<1> QED BY <1>1, <1>2, <1>4, Zenon DEF Codes, CodesTyped

-----------------------------------------------------------------------------
(* The requests of accounts, step by step *)

LEMMA RegisterStep ==
  ASSUME IInv, NEW s \in Slots, NEW e \in Emails, NEW t \in Types, Register(s, e, t)
  PROVE  IInv'
<1> DEFINE x == [op |-> "register", email |-> e, type |-> t, seen |-> user[e].type]
<1>1. user[e].type \in Types \cup {None} /\ (user[e].type # None => user[e] # NoUser)
  <2>1. user[e] \in User \/ user[e] = NoUser
    BY RowThere, Parts
  <2>2. NoUser.type = None
    BY DEF NoUser
  <2> QED BY <2>1, <2>2 DEF User
<1>2. x \in Registers /\ x.op = "register" /\ x.seen = user[e].type /\ x.email = e
  BY <1>1 DEF Registers
<1>3. Begin(s, x)
  BY DEF Register
<1> HIDE DEF x
<1>4. x \in Request /\ Knows(x, user, invite, founded)
  BY <1>1, <1>2, RequestKinds DEF Knows
<1>5. ReqTyped' /\ RequestsKnow'
  BY <1>3, <1>4, BeginStep, Parts DEF Reqs, Register
<1> QED BY <1>5, Parts, PartsNext, CodesSame, OrgSame DEF Reqs, Register

LEMMA CommitRegisterStep ==
  ASSUME IInv, NEW s \in Slots, CommitRegister(s)
  PROVE  IInv'
<1> USE Parts, PartsNext
<1> DEFINE r == req[s]
           e == req[s].email
<1>1. r \in Registers /\ Knows(r, user, invite, founded) /\ e \in Emails
  <2>1. r \in Request \cup {Idle}
    BY DEF Reqs, ReqTyped
  <2>2. r \in Registers
    BY <2>1, KindOf DEF CommitRegister
  <2> QED BY <2>2 DEF Registers, Reqs, RequestsKnow
<1>2. UNCHANGED <<wrong, member, invite, founded, crossed>>
  BY DEF CommitRegister
<1>3. CASE r.seen = None /\ user[e] # NoUser
  <2>1. Done(s) /\ UNCHANGED <<user, tried, hole>>
    BY <1>3 DEF CommitRegister
  <2>2. ReqTyped' /\ RequestsKnow'
    BY <1>2, <2>1, DoneStep DEF Reqs
  <2> QED BY <1>2, <2>1, <2>2, CodesSame, OrgSame DEF Reqs
<1>4. CASE ~(r.seen = None /\ user[e] # NoUser)
  <2> DEFINE x == [type |-> IF r.type = r.seen THEN user[e].type ELSE r.type,
                   verified |-> user[e].verified, code |-> TRUE]
  <2>1. /\ user' = [user EXCEPT ![e] = x]
        /\ req' = [q \in Slots |-> IF q = s THEN Idle ELSE Outdate(req[q], e)]
        /\ Forget(e)
    BY <1>4 DEF CommitRegister
  <2>2. x \in User
    <3>1. user[e] \in User \/ user[e] = NoUser
      BY <1>1, RowThere
    <3>2. user[e].verified \in BOOLEAN
      <4>1. NoUser.verified = FALSE
        BY DEF NoUser
      <4>2. \A u \in User : u.verified \in BOOLEAN
        BY Zenon DEF User
      <4> QED BY <3>1, <4>1, <4>2, Zenon
    <3>3. r.type \in Types /\ r.op = "register"
      BY <1>1 DEF Registers
    <3>4. r.type = r.seen => user[e].type \in Types
      <4>1. None \notin Types
        BY DEF None, Types
      <4>2. r.type = r.seen => user[e] # NoUser
        BY <1>1, <3>3, <4>1 DEF Knows
      <4> QED BY <3>1, <4>2 DEF User
    <3> QED BY <3>2, <3>3, <3>4 DEF User
  <2> HIDE DEF x
  <2>3. /\ user' \in [Emails -> User \cup {NoUser}]
        /\ \A a \in Emails : a # e => user'[a] = user[a]
        /\ \A a \in Emails : user[a] # NoUser => user'[a] # NoUser
    BY <1>1, <2>1, <2>2, RowWritten
  <2>4. Codes'
    BY <1>1, <1>2, <2>1, <2>3, Forgotten DEF Codes, CodesTyped
  <2>5. ASSUME NEW q \in Slots
        PROVE  /\ req'[q] \in Request \cup {Idle}
               /\ Knows(req'[q], user', invite', founded')
    <3>1. CASE q = s
      BY <2>1, <3>1, IdleKnows
    <3>2. CASE q # s
      <4>1. req[q] \in Request \cup {Idle} /\ Knows(req[q], user, invite, founded)
        BY DEF Reqs, ReqTyped, RequestsKnow
      <4>2. /\ Outdate(req[q], e) \in Request \cup {Idle}
            /\ Knows(Outdate(req[q], e), user, invite, founded)
        BY <1>1, <4>1, OutdateKeeps
      <4>3. Knows(Outdate(req[q], e), user', invite', founded')
        BY <1>2, <2>3, <4>2, StillKnows
      <4> QED BY <2>1, <3>2, <4>2, <4>3
    <3> QED BY <3>1, <3>2
  <2>6. Reqs'
    BY <2>1, <2>5 DEF Reqs, ReqTyped, RequestsKnow
  <2> QED BY <1>2, <2>4, <2>6, OrgSame
<1> QED BY <1>3, <1>4

LEMMA VerifyWrongStep ==
  ASSUME IInv, NEW s \in Slots, NEW e \in Emails, VerifyWrong(s, e)
  PROVE  IInv'
<1> USE Parts, PartsNext
<1> DEFINE x == [op |-> "guess", email |-> e, old |-> FALSE]
<1>1. x \in Guesses /\ x.op = "guess" /\ x.email = e /\ Begin(s, x)
  BY DEF Guesses, VerifyWrong
<1> HIDE DEF x
<1>2. Knows(x, user, invite, founded) /\ x \in Request
  BY <1>1, RowThere, RequestKinds DEF Knows, VerifyWrong
<1>3. UNCHANGED <<user, wrong, member, invite, tried, founded, crossed>>
  BY DEF VerifyWrong
<1>4. Reqs'
  BY <1>1, <1>2, <1>3, BeginStep DEF Reqs
<1>5. PICK b \in BOOLEAN : hole' = [hole EXCEPT ![e] = b] /\ (hole[e] => b)
  BY Zenon DEF VerifyWrong
<1>6. /\ hole' \in [Emails -> BOOLEAN]
      /\ \A a \in Emails : hole'[a] = IF a = e THEN b ELSE hole[a]
  BY <1>5 DEF Codes, CodesTyped
<1>7. \A a \in Emails : ~hole'[a] => ~hole[a]
  BY <1>5, <1>6, Zenon
<1>8. CountKnows'
  BY <1>3, <1>7 DEF Codes, CountKnows, Pending
<1>9. CodesTyped'
  BY <1>3, <1>6, Zenon DEF Codes, CodesTyped
<1> QED BY <1>3, <1>4, <1>8, <1>9, OrgSame DEF Codes

\* A code is cleared: the row loses nothing else.
LEMMA CodeCleared ==
  ASSUME Codes, NEW e \in Emails, user[e] # NoUser, user' = [user EXCEPT ![e].code = FALSE]
  PROVE  /\ user' \in [Emails -> User \cup {NoUser}]
         /\ user'[e].code = FALSE
         /\ \A a \in Emails : a # e => user'[a] = user[a]
         /\ \A a \in Emails : user[a] # NoUser => user'[a] # NoUser
<1> DEFINE x == [user[e] EXCEPT !.code = FALSE]
<1>1. user' = [user EXCEPT ![e] = x]
  OBVIOUS
<1>2. x \in User /\ x.code = FALSE
  BY RowThere DEF User
<1> HIDE DEF x
<1> QED BY <1>1, <1>2, RowWritten

\* A wrong code is counted, or it was one too many.
LEMMA CountStep ==
  ASSUME IInv, NEW s \in Slots, Count(s)
  PROVE  IInv'
<1> USE Parts, PartsNext
<1> DEFINE r == req[s]
           e == req[s].email
           n == wrong[e] + 1
<1>1. e \in Emails /\ Done(s) /\ user[e] # NoUser
  <2>1. r \in Guesses /\ Knows(r, user, invite, founded)
    BY KindOf DEF Count, Reqs, ReqTyped, RequestsKnow
  <2> QED BY <2>1 DEF Guesses, Count, Knows
<1>2. UNCHANGED <<member, invite, founded, crossed>>
  BY DEF Count
<1>3. wrong[e] \in 0..(MaxAttempts - 1) /\ n \in Nat
  BY <1>1 DEF Codes, CodesTyped
<1>4. CASE n >= BurnAt
  <2>1. /\ user' = [user EXCEPT ![e].code = FALSE]
        /\ wrong' = [wrong EXCEPT ![e] = 0]
        /\ Forget(e)
    BY <1>4 DEF Count
  <2>2. /\ user' \in [Emails -> User \cup {NoUser}]
        /\ \A a \in Emails : a # e => user'[a] = user[a]
        /\ \A a \in Emails : user[a] # NoUser => user'[a] # NoUser
    BY <1>1, <2>1, CodeCleared
  <2>3. /\ wrong' \in [Emails -> 0..(MaxAttempts - 1)]
        /\ \A a \in Emails : a # e => wrong'[a] = wrong[a]
    BY <1>1, <2>1 DEF Codes, CodesTyped
  <2>4. Codes'
    BY <1>1, <2>1, <2>2, <2>3, Forgotten
  <2>5. Reqs'
    BY <1>1, <1>2, <2>2, DoneStep DEF Reqs
  <2> QED BY <1>2, <2>4, <2>5, OrgSame
<1>5. CASE ~(n >= BurnAt)
  <2>1. /\ wrong' = [wrong EXCEPT ![e] = n]
        /\ tried' = IF r.old \/ hole[e] \/ ~Pending(e) THEN tried
                    ELSE [tried EXCEPT ![e] = @ + 1]
        /\ UNCHANGED <<user, hole>>
    BY <1>5 DEF Count
  <2>2. n \in 0..(MaxAttempts - 1)
    BY <1>3, <1>5 DEF BurnAt
  <2>3. /\ wrong' \in [Emails -> 0..(MaxAttempts - 1)]
        /\ \A a \in Emails : a # e => wrong'[a] = wrong[a]
        /\ wrong'[e] = n
    <3> HIDE DEF n, e
    <3> QED BY <1>1, <2>1, <2>2 DEF Codes, CodesTyped
  <2>4. tried[e] \in Nat /\ (Pending(e) /\ ~hole[e] => tried[e] <= wrong[e])
    BY <1>1 DEF Codes, CodesTyped, CountKnows
  <2>5. PICK m \in 0..MaxAttempts :
          /\ tried' = [tried EXCEPT ![e] = m]
          /\ Pending(e) /\ ~hole[e] => m <= n
    <3>1. CASE r.old \/ hole[e] \/ ~Pending(e)
      <4>1. tried' = [tried EXCEPT ![e] = tried[e]] /\ tried[e] \in 0..MaxAttempts
        <5>1. tried' = tried /\ tried \in [Emails -> 0..MaxAttempts]
          BY <2>1, <3>1 DEF Codes, CodesTyped
        <5> QED BY <1>1, <5>1
      <4>2. Pending(e) /\ ~hole[e] => tried[e] <= n
        BY <1>3, <2>4
      <4> QED BY <4>1, <4>2
    <3>2. CASE ~(r.old \/ hole[e] \/ ~Pending(e))
      <4>1. tried' = [tried EXCEPT ![e] = tried[e] + 1]
        BY <2>1, <3>2
      <4>2. Pending(e) /\ ~hole[e]
        BY <3>2, Zenon
      <4>3. tried[e] <= wrong[e]
        BY <2>4, <4>2, Zenon
      <4>4. tried[e] + 1 <= n /\ tried[e] + 1 \in 0..MaxAttempts
        BY <1>3, <2>2, <2>4, <4>3
      <4> QED BY <4>1, <4>4
    <3> QED BY <3>1, <3>2
  <2>6. /\ tried' \in [Emails -> 0..MaxAttempts] /\ tried'[e] = m
        /\ \A a \in Emails : a # e => tried'[a] = tried[a]
    <3> HIDE DEF e
    <3> QED BY <1>1, <2>5 DEF Codes, CodesTyped
  <2>7. CountKnows'
    <3> HIDE DEF e, n
    <3> SUFFICES ASSUME NEW a \in Emails, Pending(a), ~hole[a]
                 PROVE  tried'[a] <= wrong'[a]
      BY <2>1 DEF CountKnows, Pending
    <3>1. CASE a = e
      BY <2>3, <2>5, <2>6, <3>1
    <3>2. CASE a # e
      BY <2>3, <2>6, <3>2 DEF Codes, CountKnows
    <3> QED BY <3>1, <3>2
  <2>8. CodesTyped'
    BY <2>1, <2>3, <2>6, Zenon DEF Codes, CodesTyped
  <2>9. Reqs'
    BY <1>1, <1>2, <2>1, DoneStep DEF Reqs
  <2> QED BY <1>2, <2>7, <2>8, <2>9, OrgSame DEF Codes
<1> QED BY <1>4, <1>5

\* What an admission has read of the invite, the organisation and the account is so.
LEMMA AdmissionKnows ==
  ASSUME IInv, NEW e \in Emails, NEW t \in Types, NEW coded \in BOOLEAN, ~AdmissionRefused(e, t)
  PROVE  /\ Admission(e, t, coded) \in Request
         /\ Knows(Admission(e, t, coded), user, invite, founded)
<1> USE Parts
<1> DEFINE x == Admission(e, t, coded)
<1>1. /\ x.op = "admit" /\ x.email = e
      /\ x.new = (user[e] = NoUser)
      /\ x.way = "invite" => invite[e] # None
      /\ x.way = "empty" => invite[e] = None /\ NeedsMembership(e, t) /\ x.role = "admin"
      /\ x.gone = FALSE
  BY DEF Admission, None
<1>2. invite[e] \in Roles \cup {None} /\ "admin" \in Roles
  BY DEF Org, OrgTyped, Roles
<1>3. x \in Admits
  <2>1. (user[e] = NoUser) \in BOOLEAN
    BY Zenon
  <2> QED BY <1>2, <2>1 DEF Admission, Admits, Ways
<1>4. x.way = "invite" => founded
  BY <1>1 DEF Org, Memberships, NothingUnfounded
<1>5. x.way = "empty" => e \in Founders
  BY <1>1 DEF AdmissionRefused
<1> HIDE DEF x
<1>6. x \in Request /\ Knows(x, user, invite, founded)
  BY <1>1, <1>3, <1>4, <1>5, RequestKinds DEF Knows
<1> QED BY <1>6 DEF x

LEMMA VerifyRightStep ==
  ASSUME IInv, NEW s \in Slots, NEW e \in Emails, VerifyRight(s, e)
  PROVE  IInv'
<1> USE Parts, PartsNext
<1>1. /\ wrong' = [wrong EXCEPT ![e] = 0] /\ tried' = [tried EXCEPT ![e] = 0]
      /\ UNCHANGED <<user, member, invite, hole, founded, crossed>>
  BY DEF VerifyRight
<1>2. /\ wrong' \in [Emails -> 0..(MaxAttempts - 1)] /\ tried' \in [Emails -> 0..MaxAttempts]
      /\ wrong'[e] = 0 /\ tried'[e] = 0
      /\ \A a \in Emails : a # e => wrong'[a] = wrong[a] /\ tried'[a] = tried[a]
  BY <1>1 DEF Codes, CodesTyped
<1>3. Codes'
  BY <1>1, <1>2 DEF Codes, CodesTyped, CountKnows, Pending
<1>4. CASE AdmissionRefused(e, user[e].type)
  <2>1. UNCHANGED req
    BY <1>4 DEF VerifyRight
  <2>2. Reqs'
    BY <1>1, <2>1 DEF Reqs, ReqTyped, RequestsKnow
  <2> QED BY <1>1, <1>3, <2>2, OrgSame
<1>5. CASE ~AdmissionRefused(e, user[e].type)
  <2>1. user[e].type \in Types
    BY RowThere DEF VerifyRight, User
  <2>2. Begin(s, Admission(e, user[e].type, TRUE))
    BY <1>5 DEF VerifyRight
  <2>3. Reqs'
    BY <1>1, <1>5, <2>1, <2>2, AdmissionKnows, BeginStep DEF Reqs
  <2> QED BY <1>1, <1>3, <2>3, OrgSame
<1> QED BY <1>4, <1>5

LEMMA GoogleStep ==
  ASSUME IInv, NEW s \in Slots, NEW e \in Emails, NEW t \in Types, Google(s, e, t)
  PROVE  IInv'
<1> USE Parts, PartsNext
<1> DEFINE type == IF user[e] = NoUser THEN t ELSE user[e].type
<1>1. type \in Types
  BY RowThere DEF User
<1>2. /\ ~AdmissionRefused(e, type)
      /\ Begin(s, Admission(e, type, FALSE))
      /\ UNCHANGED <<user, wrong, member, invite, tried, hole, founded, crossed>>
  BY DEF Google
<1> HIDE DEF type
<1>3. Reqs'
  BY <1>1, <1>2, AdmissionKnows, BeginStep DEF Reqs
<1> QED BY <1>2, <1>3, CodesSame, OrgSame

\* An admission that the database accepts finds the way it came by still open.
LEMMA AdmittedByRight ==
  ASSUME IInv, NEW s \in Slots, req[s].op = "admit", ~AdmissionFails(req[s])
  PROVE  LET r == req[s]  e == r.email IN
         /\ r \in Admits /\ e \in Emails
         /\ user[e] # NoUser <=> ~r.new
         /\ r.way # None => member[e] = None
         /\ r.way = "invite" => founded /\ invite[e] # None
         /\ r.way = "empty" => e \in Founders /\ r.role = "admin"
<1> USE Parts
<1> DEFINE r == req[s]
           e == r.email
<1>1. r \in Admits /\ Knows(r, user, invite, founded)
  BY KindOf DEF Reqs, ReqTyped, RequestsKnow
<1>2. e \in Emails /\ r.new \in BOOLEAN /\ r.gone \in BOOLEAN
  BY <1>1, Zenon DEF Admits
<1>3. r.way # None => member[e] = None
  BY DEF AdmissionFails
<1>4. user[e] # NoUser <=> ~r.new
  BY <1>1, <1>2, Zenon DEF Knows, AdmissionFails
<1>5. r.way = "invite" => ~r.gone
  BY DEF AdmissionFails
<1>6. /\ r.way = "invite" => founded /\ invite[e] # None
      /\ r.way = "empty" => e \in Founders /\ r.role = "admin"
  BY <1>1, <1>5, Zenon DEF Knows
<1> QED BY <1>1, <1>2, <1>3, <1>4, <1>6

LEMMA CommitAdmitStep ==
  ASSUME IInv, NEW s \in Slots, CommitAdmit(s)
  PROVE  IInv'
<1> USE Parts, PartsNext
<1> DEFINE r == req[s]
           e == r.email
<1>1. r.op = "admit" /\ Done(s) /\ UNCHANGED <<wrong, invite, crossed>>
  BY DEF CommitAdmit
<1>2. CASE AdmissionFails(r)
  <2>1. UNCHANGED <<user, member, founded, tried, hole>>
    BY <1>2 DEF CommitAdmit
  <2>2. Reqs'
    BY <1>1, <2>1, DoneStep DEF Reqs
  <2> QED BY <1>1, <2>1, <2>2, CodesSame, OrgSame
<1>3. CASE ~AdmissionFails(r)
  <2> DEFINE x == [type |-> IF r.new THEN r.type ELSE user[e].type, verified |-> TRUE,
                   code |-> user[e].code /\ ~r.coded]
  <2>1. /\ user' = [user EXCEPT ![e] = x]
        /\ member' = IF r.way = None THEN member ELSE [member EXCEPT ![e] = r.role]
        /\ founded' = (founded \/ r.way # None)
        /\ IF r.coded THEN Forget(e) ELSE UNCHANGED <<tried, hole>>
    BY <1>3 DEF CommitAdmit
  <2>2. /\ r \in Admits /\ e \in Emails
        /\ user[e] # NoUser <=> ~r.new
        /\ r.way # None => member[e] = None
        /\ r.way = "invite" => founded /\ invite[e] # None
        /\ r.way = "empty" => e \in Founders /\ r.role = "admin"
    BY <1>1, <1>3, AdmittedByRight
  <2>3. x \in User /\ (r.coded => ~x.code) /\ (x.code => Pending(e))
    <3>1. (IF r.new THEN r.type ELSE user[e].type) \in Types
      BY <2>2, RowThere DEF Admits, User
    <3>2. (user[e].code /\ ~r.coded) \in BOOLEAN
      BY Zenon
    <3>3. /\ x.code = (user[e].code /\ ~r.coded)
      BY Zenon
    <3>4. x \in User
      BY <3>1, <3>2, Zenon DEF User
    <3> QED BY <3>3, <3>4, Zenon DEF Pending
  <2> HIDE DEF x
  <2>4. /\ user' \in [Emails -> User \cup {NoUser}] /\ user'[e] = x
        /\ \A a \in Emails : a # e => user'[a] = user[a]
        /\ \A a \in Emails : user[a] # NoUser => user'[a] # NoUser
    BY <2>1, <2>2, <2>3, RowWritten
  <2>5. Codes'
    <3>1. wrong' \in [Emails -> 0..(MaxAttempts - 1)]
      BY <1>1 DEF Codes, CodesTyped
    <3>2. CASE r.coded
      BY <1>1, <2>1, <2>2, <2>4, <3>1, <3>2, Forgotten
    <3>3. CASE ~r.coded
      <4>1. UNCHANGED <<tried, hole>>
        BY <2>1, <3>3
      <4>2. \A a \in Emails : user'[a].code => Pending(a)
        BY <2>3, <2>4 DEF Pending
      <4>3. CountKnows'
        BY <1>1, <4>1, <4>2 DEF Codes, CountKnows, Pending
      <4>4. CodesTyped'
        BY <2>4, <3>1, <4>1 DEF Codes, CodesTyped
      <4> QED BY <4>3, <4>4 DEF Codes
    <3> QED BY <3>2, <3>3
  <2>6. Reqs'
    <3>1. founded => founded'
      BY <2>1
    <3> QED BY <1>1, <2>4, <3>1, DoneStep DEF Reqs
  <2>7. r.way \in Ways /\ r.role \in Roles \cup {None}
    BY <2>2, Zenon DEF Admits
  <2>8. OrgTyped'
    <3>1. founded' \in BOOLEAN
      BY <2>1, Zenon
    <3>2. member' \in [Emails -> Roles \cup {None}]
      BY <2>1, <2>7 DEF Org, OrgTyped
    <3> QED BY <1>1, <3>1, <3>2 DEF Org, OrgTyped
  <2>9. CASE r.way = None
    <3>1. member' = member /\ founded' = founded
      BY <2>1, <2>9, Zenon DEF Org, OrgTyped
    <3>2. Memberships'
      BY <1>1, <3>1 DEF Org, Memberships, NothingUnfounded, LockOutNeedsCrossing, Admin
    <3> QED BY <2>5, <2>6, <2>8, <3>2 DEF Org
  <2>10. CASE r.way # None
    <3>1. /\ \A a \in Emails : member'[a] = IF a = e THEN r.role ELSE member[a]
          /\ founded' /\ member[e] = None
      BY <2>1, <2>2, <2>10 DEF Org, OrgTyped
    <3>2. ASSUME ~crossed PROVE \E a \in Emails : member'[a] = "admin"
      <4>1. CASE founded
        <5>1. PICK a \in Emails : member[a] = "admin"
          BY <3>2, <4>1 DEF Org, Memberships, LockOutNeedsCrossing, Admin
        <5>2. a # e
          BY <3>1, <5>1 DEF None
        <5> QED BY <3>1, <5>1, <5>2
      <4>2. CASE ~founded
        <5>1. r.way = "empty"
          BY <2>2, <2>7, <2>10, <4>2 DEF Ways
        <5> QED BY <2>2, <3>1, <5>1
      <4> QED BY <4>1, <4>2
    <3>3. Memberships'
      BY <1>1, <3>1, <3>2 DEF Memberships, NothingUnfounded, LockOutNeedsCrossing, Admin
    <3> QED BY <2>5, <2>6, <2>8, <3>3 DEF Org
  <2> QED BY <2>9, <2>10
<1> QED BY <1>2, <1>3

LEMMA ExpireStep ==
  ASSUME IInv, NEW e \in Emails, Expire(e)
  PROVE  IInv'
<1> USE Parts, PartsNext
<1>1. /\ Pending(e) /\ user' = [user EXCEPT ![e].code = FALSE] /\ Forget(e)
      /\ UNCHANGED <<wrong, member, invite, req, founded, crossed>>
  BY DEF Expire
<1>2. /\ user' \in [Emails -> User \cup {NoUser}]
      /\ \A a \in Emails : a # e => user'[a] = user[a]
      /\ \A a \in Emails : user[a] # NoUser => user'[a] # NoUser
  BY <1>1, CodeCleared, RowThere
<1>3. Codes'
  BY <1>1, <1>2, Forgotten DEF Codes, CodesTyped
<1>4. ASSUME NEW s \in Slots PROVE Knows(req[s], user', invite, founded)
  <2>1. req[s] \in Request \cup {Idle} /\ Knows(req[s], user, invite, founded)
    BY DEF Reqs, ReqTyped, RequestsKnow
  <2> QED BY <1>2, <2>1, StillKnows
<1>5. Reqs'
  BY <1>1, <1>4 DEF Reqs, ReqTyped, RequestsKnow
<1> QED BY <1>1, <1>3, <1>5, OrgSame

LEMMA RestartStep ==
  ASSUME IInv, Restart
  PROVE  IInv'
<1> USE Parts, PartsNext
<1>1. /\ wrong' = [e \in Emails |-> 0] /\ req' = [s \in Slots |-> Idle]
      /\ hole' = [e \in Emails |-> Pending(e)]
      /\ UNCHANGED <<user, member, invite, tried, founded, crossed>>
  BY DEF Restart
<1>2. \A e \in Emails : Pending(e) \in BOOLEAN
  <2> SUFFICES ASSUME NEW e \in Emails PROVE Pending(e) \in BOOLEAN
    OBVIOUS
  <2>1. user[e] \in User \/ user[e] = NoUser
    BY RowThere
  <2>2. NoUser.code \in BOOLEAN
    BY DEF NoUser
  <2>3. \A u \in User : u.code \in BOOLEAN
    BY Zenon DEF User
  <2> QED BY <2>1, <2>2, <2>3, Zenon DEF Pending
<1>3. hole' \in [Emails -> BOOLEAN]
  BY <1>1, <1>2, Zenon
<1>4. CodesTyped'
  BY <1>1, <1>3 DEF Codes, CodesTyped
<1>5. CountKnows'
  <2>1. \A e \in Emails : hole'[e] = user'[e].code
    BY <1>1 DEF Pending
  <2> QED BY <2>1, Zenon DEF CountKnows, Pending
<1>6. Reqs'
  BY <1>1, IdleKnows DEF Reqs, ReqTyped, RequestsKnow
<1> QED BY <1>1, <1>4, <1>5, <1>6, OrgSame DEF Codes

-----------------------------------------------------------------------------
(* The requests of members, step by step *)

LEMMA ReadStep ==
  ASSUME IInv, NEW s \in Slots, NEW a \in Emails, NEW e \in Emails,
         (\E r \in Invitable : InviteMember(s, a, e, r)) \/ RevokeInvite(s, a, e)
         \/ RemoveMember(s, a, e)
  PROVE  IInv'
<1> USE Parts, PartsNext
<1>1. UNCHANGED <<user, wrong, member, invite, tried, hole, founded, crossed>>
  BY DEF InviteMember, RevokeInvite, RemoveMember
<1>2. ASSUME NEW x \in Request, Begin(s, x), Knows(x, user, invite, founded) PROVE IInv'
  <2>1. Reqs'
    BY <1>1, <1>2, BeginStep DEF Reqs
  <2> QED BY <1>1, <2>1, CodesSame, OrgSame
<1>3. ASSUME NEW r \in Invitable, InviteMember(s, a, e, r) PROVE IInv'
  <2> DEFINE x == [op |-> "invite", email |-> e, role |-> r, seen |-> invite[e], gone |-> FALSE]
  <2>1. Begin(s, x)
    BY <1>3 DEF InviteMember
  <2>2. r \in Roles /\ invite[e] \in Roles \cup {None}
    BY DEF Roles, Org, OrgTyped
  <2>3. x \in Invites /\ x.op = "invite"
    BY <2>2 DEF Invites
  <2>4. founded
    <3>1. member[a] # None
      BY <1>3 DEF InviteMember, Admin, None
    <3> QED BY <3>1 DEF Org, Memberships, NothingUnfounded
  <2> HIDE DEF x
  <2>5. x \in Request /\ Knows(x, user, invite, founded)
    BY <2>3, <2>4, RequestKinds DEF Knows
  <2> QED BY <1>2, <2>1, <2>5
<1>4. CASE RevokeInvite(s, a, e)
  <2> DEFINE x == [op |-> "revoke", email |-> e, gone |-> FALSE]
  <2>1. Begin(s, x) /\ x \in Revokes /\ x.op = "revoke"
    BY <1>4 DEF RevokeInvite, Revokes
  <2> HIDE DEF x
  <2>2. x \in Request /\ Knows(x, user, invite, founded)
    BY <2>1, RequestKinds DEF Knows
  <2> QED BY <1>2, <2>1, <2>2
<1>5. CASE RemoveMember(s, a, e)
  <2> DEFINE x == [op |-> "remove", by |-> a, email |-> e, drop |-> invite[e] # None,
                   gone |-> FALSE]
  <2>1. Begin(s, x) /\ a # e
    BY <1>5 DEF RemoveMember, MayRemove
  <2>2. (invite[e] # None) \in BOOLEAN
    BY Zenon
  <2>3. x \in Removes /\ x.op = "remove" /\ x.by = a /\ x.email = e
    BY <2>2 DEF Removes
  <2> HIDE DEF x
  <2>4. x \in Request /\ Knows(x, user, invite, founded)
    BY <2>1, <2>3, RequestKinds DEF Knows
  <2> QED BY <1>2, <2>1, <2>4
<1> QED BY <1>3, <1>4, <1>5

LEMMA CommitInviteStep ==
  ASSUME IInv, NEW s \in Slots, CommitInvite(s)
  PROVE  IInv'
<1> USE Parts, PartsNext
<1> DEFINE r == req[s]
           e == r.email
<1>1. /\ r.op = "invite" /\ Done(s)
      /\ UNCHANGED <<user, wrong, member, tried, hole, founded, crossed>>
      /\ invite' = invite \/ invite' = [invite EXCEPT ![e] = r.role]
  BY DEF CommitInvite
<1>2. r \in Invites /\ founded
  BY <1>1, KindOf DEF Reqs, ReqTyped, RequestsKnow, Knows
<1>3. e \in Emails /\ r.role \in Roles /\ r.role # None
  BY <1>2 DEF Invites, Roles, None
<1>4. /\ invite' \in [Emails -> Roles \cup {None}]
      /\ \A a \in Emails : invite[a] # None => invite'[a] # None
  <2>1. CASE invite' = invite
    BY <2>1 DEF Org, OrgTyped
  <2>2. CASE invite' = [invite EXCEPT ![e] = r.role]
    BY <1>3, <2>2 DEF Org, OrgTyped
  <2> QED BY <1>1, <2>1, <2>2
<1>5. Reqs'
  BY <1>1, <1>4, DoneStep DEF Reqs
<1>6. Org'
  BY <1>1, <1>2, <1>4 DEF Org, OrgTyped, Memberships, NothingUnfounded, LockOutNeedsCrossing, Admin
<1> QED BY <1>1, <1>5, <1>6, CodesSame

\* An invite is dropped, and the requests that read it know.
LEMMA DropStep ==
  ASSUME IInv, NEW s \in Slots, req[s].email \in Emails, DropInvite(s, req[s].email),
         UNCHANGED <<user, founded>>
  PROVE  /\ Reqs' /\ invite' \in [Emails -> Roles \cup {None}]
         /\ \A a \in Emails : invite[a] = None => invite'[a] = None
<1> USE Parts
<1> DEFINE e == req[s].email
<1>1. CASE req[s].gone
  <2>1. Done(s) /\ UNCHANGED invite
    BY <1>1 DEF DropInvite
  <2> QED BY <2>1, DoneStep DEF Reqs, Org, OrgTyped
<1>2. CASE ~req[s].gone
  <2>1. /\ invite' = [invite EXCEPT ![e] = None]
        /\ req' = [q \in Slots |-> IF q = s THEN Idle ELSE Orphan(req[q], e)]
    BY <1>2 DEF DropInvite
  <2>2. /\ invite' \in [Emails -> Roles \cup {None}]
        /\ \A a \in Emails : a # e => invite'[a] = invite[a]
        /\ \A a \in Emails : invite[a] = None => invite'[a] = None
    BY <2>1 DEF Org, OrgTyped
  <2>3. ASSUME NEW q \in Slots
        PROVE  /\ req'[q] \in Request \cup {Idle}
               /\ Knows(req'[q], user, invite', founded)
    <3>1. CASE q = s
      BY <2>1, <3>1, IdleKnows
    <3>2. CASE q # s
      <4>1. req[q] \in Request \cup {Idle} /\ Knows(req[q], user, invite, founded)
        BY DEF Reqs, ReqTyped, RequestsKnow
      <4>2. /\ Orphan(req[q], e) \in Request \cup {Idle}
            /\ Knows(Orphan(req[q], e), user, invite', founded)
        BY <2>2, <4>1, OrphanKeeps
      <4> QED BY <2>1, <3>2, <4>2
    <3> QED BY <3>1, <3>2
  <2>4. Reqs'
    BY <2>1, <2>3 DEF Reqs, ReqTyped, RequestsKnow
  <2> QED BY <2>2, <2>4
<1> QED BY <1>1, <1>2

LEMMA CommitRevokeStep ==
  ASSUME IInv, NEW s \in Slots, CommitRevoke(s)
  PROVE  IInv'
<1> USE Parts, PartsNext
<1>1. /\ DropInvite(s, req[s].email)
      /\ UNCHANGED <<user, wrong, member, tried, hole, founded, crossed>>
  BY DEF CommitRevoke
<1>2. req[s].email \in Emails
  <2>1. req[s] \in Revokes
    BY KindOf DEF CommitRevoke, Reqs, ReqTyped
  <2> QED BY <2>1 DEF Revokes
<1>3. /\ Reqs' /\ invite' \in [Emails -> Roles \cup {None}]
      /\ \A a \in Emails : invite[a] = None => invite'[a] = None
  BY <1>1, <1>2, DropStep
<1>4. Org'
  BY <1>1, <1>3 DEF Org, OrgTyped, Memberships, NothingUnfounded, LockOutNeedsCrossing, Admin
<1> QED BY <1>1, <1>3, <1>4, CodesSame

LEMMA CommitRemoveStep ==
  ASSUME IInv, NEW s \in Slots, CommitRemove(s)
  PROVE  IInv'
<1> USE Parts, PartsNext
<1> DEFINE r == req[s]
<1>1. /\ r.op = "remove"
      /\ IF r.drop THEN DropInvite(s, r.email) ELSE Done(s) /\ UNCHANGED invite
      /\ member' = [member EXCEPT ![r.email] = None]
      /\ crossed' = (crossed \/ ~Admin(r.by))
      /\ UNCHANGED <<user, wrong, tried, hole, founded>>
  BY DEF CommitRemove
<1>2. r.email \in Emails /\ r.by \in Emails /\ r.by # r.email
  <2>1. r \in Removes /\ Knows(r, user, invite, founded)
    BY <1>1, KindOf DEF Reqs, ReqTyped, RequestsKnow
  <2> QED BY <1>1, <2>1 DEF Removes, Knows
<1>3. /\ Reqs' /\ invite' \in [Emails -> Roles \cup {None}]
      /\ \A a \in Emails : invite[a] = None => invite'[a] = None
  <2>1. CASE r.drop
    BY <1>1, <1>2, <2>1, DropStep
  <2>2. CASE ~r.drop
    <3>1. Done(s) /\ UNCHANGED invite
      BY <1>1, <2>2
    <3> QED BY <1>1, <3>1, DoneStep DEF Reqs, Org, OrgTyped
  <2> QED BY <2>1, <2>2
<1>4. /\ member' \in [Emails -> Roles \cup {None}]
      /\ \A a \in Emails : member'[a] = IF a = r.email THEN None ELSE member[a]
  BY <1>1, <1>2 DEF Org, OrgTyped
<1>5. NothingUnfounded'
  BY <1>1, <1>3, <1>4 DEF Org, Memberships, NothingUnfounded
<1>6. LockOutNeedsCrossing'
  <2> SUFFICES ASSUME founded', ~crossed' PROVE \E a \in Emails : member'[a] = "admin"
    BY DEF LockOutNeedsCrossing, Admin
  <2>1. member[r.by] = "admin"
    BY <1>1 DEF Admin
  <2> QED BY <1>2, <1>4, <2>1
<1>7. OrgTyped'
  <2>1. crossed' \in BOOLEAN
    BY <1>1, Zenon
  <2> QED BY <1>1, <1>3, <1>4, <2>1 DEF Org, OrgTyped
<1> QED BY <1>1, <1>3, <1>5, <1>6, <1>7, CodesSame DEF Org, Memberships

-----------------------------------------------------------------------------
(* The invariant is inductive *)

LEMMA InvInit == Init => IInv
<1> SUFFICES ASSUME Init PROVE IInv
  OBVIOUS
<1>1. \A e \in Emails : ~Pending(e)
  BY DEF Init, Pending, NoUser
<1>2. Codes
  BY <1>1 DEF Init, Codes, CodesTyped, CountKnows
<1>3. Org
  BY DEF Init, Org, OrgTyped, Memberships, NothingUnfounded, LockOutNeedsCrossing
<1>4. Reqs
  BY IdleKnows DEF Init, Reqs, ReqTyped, RequestsKnow
<1> QED BY <1>2, <1>3, <1>4, Parts

LEMMA InvStep == IInv /\ [Next]_vars => IInv'
<1> SUFFICES ASSUME IInv, [Next]_vars PROVE IInv'
  OBVIOUS
<1>1. CASE UNCHANGED vars
  <2>1. Reqs'
    BY <1>1, Parts DEF vars, Reqs, ReqTyped, RequestsKnow
  <2> QED BY <1>1, <2>1, Parts, PartsNext, CodesSame, OrgSame DEF vars
<1>2. ASSUME NEW s \in Slots, NEW e \in Emails,
             \/ \E t \in Types : Register(s, e, t) \/ Google(s, e, t)
             \/ VerifyWrong(s, e) \/ VerifyRight(s, e)
      PROVE  IInv'
  BY <1>2, RegisterStep, GoogleStep, VerifyWrongStep, VerifyRightStep
<1>3. ASSUME NEW s \in Slots,
             \/ CommitRegister(s) \/ Count(s) \/ CommitAdmit(s)
             \/ CommitInvite(s) \/ CommitRevoke(s) \/ CommitRemove(s)
      PROVE  IInv'
  BY <1>3, CommitRegisterStep, CountStep, CommitAdmitStep, CommitInviteStep,
     CommitRevokeStep, CommitRemoveStep
<1> QED BY <1>1, <1>2, <1>3, ReadStep, ExpireStep, RestartStep DEF Next

LEMMA InvHolds == Spec => []IInv
BY InvInit, InvStep, PTL DEF Spec

-----------------------------------------------------------------------------
(* The theorems *)

\* Rows, counts and requests keep their types; a count of wrong codes never reaches its
\* limit, and no request mistakes what kind of row it holds.
THEOREM TypeCorrect == Spec => []TypeOK
<1>1. IInv => TypeOK
  BY DEF IInv
<1> QED BY InvHolds, <1>1, PTL

\* A code that can still be entered has been missed less often than the limit, unless a
\* restart or an overlap lost the count.
THEOREM GuessesAreBounded == Spec => []GuessesBounded
<1>1. IInv => GuessesBounded
  <2> SUFFICES ASSUME IInv, NEW e \in Emails, Pending(e), ~hole[e]
               PROVE  tried[e] < MaxAttempts
    BY DEF GuessesBounded
  <2>1. tried[e] <= wrong[e]
    BY DEF IInv, CountKnows
  <2>2. wrong[e] \in 0..(MaxAttempts - 1) /\ tried[e] \in Nat
    BY DEF IInv, TypeOK
  <2> QED BY <2>1, <2>2
<1> QED BY InvHolds, <1>1, PTL

\* An organisation that has had a member has an admin, unless removals crossed.
THEOREM AdminRemains == Spec => []LockOutNeedsCrossing
<1>1. IInv => LockOutNeedsCrossing
  BY DEF IInv, Memberships
<1> QED BY InvHolds, <1>1, PTL

\* Nobody becomes a member but by an invite that stands when the membership is committed,
\* or as a founder whose request found the organisation empty.
THEOREM AccessIsByInvite == Spec => AccessByInvite
<1> DEFINE P == \A e \in Emails : member[e] = None /\ member'[e] # None =>
                  \/ invite[e] # None
                  \/ /\ e \in Founders
                     /\ \E s \in Slots :
                          req[s].op = "admit" /\ req[s].email = e /\ req[s].way = "empty"
<1>1. IInv /\ [Next]_vars => [P]_vars
  <2> SUFFICES ASSUME IInv, Next, NEW e \in Emails, member[e] = None, member'[e] # None
               PROVE  \/ invite[e] # None
                      \/ /\ e \in Founders
                         /\ \E s \in Slots :
                              req[s].op = "admit" /\ req[s].email = e /\ req[s].way = "empty"
    OBVIOUS
  <2>1. PICK s \in Slots : CommitAdmit(s)
    <3>1. ASSUME NEW s \in Slots, CommitRemove(s) PROVE FALSE
      <4>1. member' = [member EXCEPT ![req[s].email] = None]
        BY <3>1 DEF CommitRemove
      <4>2. member \in [Emails -> Roles \cup {None}]
        BY DEF IInv, TypeOK
      <4> QED BY <4>1, <4>2
    <3>2. ASSUME UNCHANGED member PROVE FALSE
      BY <3>2
    <3> QED BY <3>1, <3>2, ZenonT(40)
        DEF Next, Register, Google, VerifyWrong, VerifyRight, InviteMember, RevokeInvite,
            RemoveMember, CommitRegister, Count, CommitInvite, CommitRevoke, Expire, Restart
  <2> DEFINE r == req[s]
  <2>2. r.op = "admit" /\ ~AdmissionFails(r) /\ r.way # None
        /\ member' = [member EXCEPT ![r.email] = r.role]
    BY <2>1 DEF CommitAdmit
  <2>3. r.email = e
    BY <2>2
  <2>4. /\ r \in Admits
        /\ r.way = "invite" => invite[e] # None
        /\ r.way = "empty" => e \in Founders
    BY <2>2, <2>3, AdmittedByRight
  <2>5. r.way \in {"invite", "empty"}
    BY <2>2, <2>4 DEF Admits, Ways
  <2> QED BY <2>2, <2>3, <2>4, <2>5
<1> QED BY InvHolds, <1>1, PTL DEF Spec, AccessByInvite
=============================================================================
