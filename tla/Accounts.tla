------------------------------ MODULE Accounts ------------------------------
(* Accounts, invitations and memberships: routes/auth.py (register, verify,  *)
(* Google sign-in), routes/members.py and the membership check of            *)
(* tenancy.py.  A handler reads its rows, decides, and commits later; no     *)
(* lock is taken, so requests interleave between the two.  What the ORM and  *)
(* the schema still catch at the commit is modelled: a second row with a     *)
(* unique key and the update of a row that is gone fail the request, the     *)
(* deletion of a row that is gone does not.                                  *)
(*                                                                           *)
(* One organisation; a person is an e-mail address.  A password and a name   *)
(* are data.  A code is there or not: one that has expired is as good as     *)
(* none, and a guess knows whether its code has been replaced.               *)
EXTENDS Naturals, FiniteSets

CONSTANTS Emails,       \* addresses somebody may sign up with
          Founders,     \* who may claim an empty organisation
          Invitable,    \* INVITABLE_ROLES
          Slots,        \* requests that can be under way at once
          MaxAttempts   \* _OTP_MAX_ATTEMPTS

ASSUME AccountsAssumption ==
  /\ Founders \subseteq Emails
  /\ Invitable \subseteq {"admin", "recruiter"}
  /\ MaxAttempts \in Nat \ {0}

VARIABLES user,     \* users: address -> NoUser or its row
          wrong,    \* _OTP_ATTEMPTS, 0 for an address that is not in it
          member,   \* memberships: address -> role
          invite,   \* staff_invites: address -> role
          req,      \* the requests between their reads and their commit
          tried,    \* history: wrong codes since the code was made or last entered right
          hole,     \* history: restarts and overlapping guesses, per address
          founded,  \* history: the organisation has had a member
          crossed   \* history: somebody was removed by one who had just been removed

vars == <<user, wrong, member, invite, req, tried, hole, founded, crossed>>

None == "none"
Roles == {"admin", "recruiter"}
Types == {"candidate", "staff"}
NoUser == [type |-> None, verified |-> FALSE, code |-> FALSE]
User == [type : Types, verified : BOOLEAN, code : BOOLEAN]
Idle == [op |-> None]

\* How a request came to grant a membership: by an invite, because the
\* organisation was empty, or not at all.
Ways == {"invite", "empty", None}
Request ==
  [op : {"register"}, email : Emails, type : Types, seen : Types \cup {None}]
    \cup [op : {"guess"}, email : Emails, old : BOOLEAN]
    \cup [op : {"admit"}, email : Emails, new : BOOLEAN, coded : BOOLEAN, type : Types,
          way : Ways, role : Roles \cup {None}, gone : BOOLEAN]
    \cup [op : {"invite"}, email : Emails, role : Roles,
          seen : Roles \cup {None}, gone : BOOLEAN]
    \cup [op : {"revoke"}, email : Emails, gone : BOOLEAN]
    \cup [op : {"remove"}, by : Emails, email : Emails, drop : BOOLEAN, gone : BOOLEAN]

TypeOK ==
  /\ user \in [Emails -> User \cup {NoUser}]
  /\ wrong \in [Emails -> 0..(MaxAttempts - 1)]
  /\ member \in [Emails -> Roles \cup {None}]
  /\ invite \in [Emails -> Roles \cup {None}]
  /\ req \in [Slots -> Request \cup {Idle}]
  /\ tried \in [Emails -> 0..MaxAttempts]
  /\ hole \in [Emails -> BOOLEAN]
  /\ founded \in BOOLEAN /\ crossed \in BOOLEAN

Init ==
  /\ user = [e \in Emails |-> NoUser]
  /\ wrong = [e \in Emails |-> 0]
  /\ member = [e \in Emails |-> None]
  /\ invite = [e \in Emails |-> None]
  /\ req = [s \in Slots |-> Idle]
  /\ tried = [e \in Emails |-> 0]
  /\ hole = [e \in Emails |-> FALSE]
  /\ founded = FALSE /\ crossed = FALSE

OrgHasMembers == \E e \in Emails : member[e] # None

\* register() of a staff account looks at the invite before any code is sent.
SignupAllowed(e) == IF OrgHasMembers THEN invite[e] # None ELSE e \in Founders

Pending(e) == user[e].code

Free(s) == req[s] = Idle
Begin(s, r) == Free(s) /\ req' = [req EXCEPT ![s] = r]
Done(s) == req' = [req EXCEPT ![s] = Idle]

\* The code a guess is compared with is no longer the row's.
Outdate(q, e) == IF q.op = "guess" /\ q.email = e THEN [q EXCEPT !.old = TRUE] ELSE q

\* A row that a request read and will update is deleted under it.
Orphan(q, e) ==
  IF "gone" \in DOMAIN q /\ q.email = e THEN [q EXCEPT !.gone = TRUE] ELSE q

\* History: what is said about a code is forgotten with it.
Forget(e) ==
  /\ tried' = [tried EXCEPT ![e] = 0]
  /\ hole' = [hole EXCEPT ![e] = FALSE]

---------------------------------------------------------------------------
(* Signing up *)

Register(s, e, t) ==
  /\ t = "staff" => SignupAllowed(e)
  /\ ~user[e].verified
  /\ Begin(s, [op |-> "register", email |-> e, type |-> t, seen |-> user[e].type])
  /\ UNCHANGED <<user, wrong, member, invite, tried, hole, founded, crossed>>

\* The ORM writes the account type only if it differs from the one it loaded;
\* the code and its expiry always change.
CommitRegister(s) ==
  LET r == req[s]  e == r.email IN
  /\ r.op = "register"
  /\ IF r.seen = None /\ user[e] # NoUser
     THEN Done(s) /\ UNCHANGED <<user, tried, hole>>
     ELSE /\ user' = [user EXCEPT ![e] =
               [type |-> IF r.type = r.seen THEN @.type ELSE r.type,
                verified |-> @.verified, code |-> TRUE]]
          /\ req' = [q \in Slots |-> IF q = s THEN Idle ELSE Outdate(req[q], e)]
          /\ Forget(e)
  /\ UNCHANGED <<wrong, member, invite, founded, crossed>>

Guessing(e) == \E s \in Slots : req[s].op = "guess" /\ req[s].email = e

VerifyWrong(s, e) ==
  /\ Pending(e)
  /\ Begin(s, [op |-> "guess", email |-> e, old |-> FALSE])
  /\ hole' = [hole EXCEPT ![e] = @ \/ Guessing(e)]
  /\ UNCHANGED <<user, wrong, member, invite, tried, founded, crossed>>

BurnAtOneMore == MaxAttempts + 1  \* Mutant: > for >=

BurnAt == MaxAttempts

\* The count is kept per address, not per code, and in memory.  At the limit
\* whatever code the row holds by now is cleared.
Count(s) ==
  LET r == req[s]  e == r.email  n == wrong[e] + 1 IN
  /\ r.op = "guess"
  /\ Done(s)
  /\ IF n >= BurnAt
     THEN /\ user' = [user EXCEPT ![e].code = FALSE]
          /\ wrong' = [wrong EXCEPT ![e] = 0]
          /\ Forget(e)
     ELSE /\ wrong' = [wrong EXCEPT ![e] = n]
          /\ tried' = IF r.old \/ hole[e] \/ ~Pending(e) THEN tried
                      ELSE [tried EXCEPT ![e] = @ + 1]
          /\ UNCHANGED <<user, hole>>
  /\ UNCHANGED <<member, invite, founded, crossed>>

\* _ensure_staff_membership, as far as it reads: how an account of this type
\* gets in.  It is refused when no way is left.
NeedsMembership(e, t) == t = "staff" /\ member[e] = None

Admission(e, t, coded) ==
  [op |-> "admit", email |-> e, new |-> user[e] = NoUser, coded |-> coded, type |-> t,
   way |-> IF ~NeedsMembership(e, t) THEN None
           ELSE IF invite[e] # None THEN "invite" ELSE "empty",
   role |-> IF ~NeedsMembership(e, t) THEN None
            ELSE IF invite[e] # None THEN invite[e] ELSE "admin",
   gone |-> FALSE]

AdmissionRefused(e, t) ==
  /\ NeedsMembership(e, t)
  /\ invite[e] = None
  /\ OrgHasMembers \/ e \notin Founders

\* The right code resets the count at once, even when the admission is refused.
VerifyRight(s, e) ==
  /\ Pending(e)
  /\ wrong' = [wrong EXCEPT ![e] = 0]
  /\ tried' = [tried EXCEPT ![e] = 0]
  /\ IF AdmissionRefused(e, user[e].type)
     THEN Free(s) /\ UNCHANGED req
     ELSE Begin(s, Admission(e, user[e].type, TRUE))
  /\ UNCHANGED <<user, member, invite, hole, founded, crossed>>

\* Google vouches for the address; the type counts only for a new account.
Google(s, e, t) ==
  LET type == IF user[e] = NoUser THEN t ELSE user[e].type IN
  /\ ~AdmissionRefused(e, type)
  /\ Begin(s, Admission(e, type, FALSE))
  /\ UNCHANGED <<user, wrong, member, invite, tried, hole, founded, crossed>>

AdmissionFailsNever(r) ==  \* Mutant: accepted_at is not recorded, so no row is updated
  \/ r.new /\ user[r.email] # NoUser
  \/ r.way # None /\ member[r.email] # None

\* What the database refuses at the commit of an admission.
AdmissionFails(r) ==
  \/ r.new /\ user[r.email] # NoUser
  \/ r.way # None /\ member[r.email] # None
  \/ r.way = "invite" /\ r.gone

CommitAdmit(s) ==
  LET r == req[s]  e == r.email  u == user[e] IN
  /\ r.op = "admit"
  /\ Done(s)
  /\ IF AdmissionFails(r)
     THEN UNCHANGED <<user, member, founded, tried, hole>>
     ELSE /\ user' = [user EXCEPT ![e] =
               [type |-> IF r.new THEN r.type ELSE @.type, verified |-> TRUE,
                code |-> @.code /\ ~r.coded]]
          /\ member' = IF r.way = None THEN member ELSE [member EXCEPT ![e] = r.role]
          /\ founded' = (founded \/ r.way # None)
          /\ IF r.coded THEN Forget(e) ELSE UNCHANGED <<tried, hole>>
  /\ UNCHANGED <<wrong, invite, crossed>>

Expire(e) ==
  /\ Pending(e)
  /\ user' = [user EXCEPT ![e].code = FALSE]
  /\ Forget(e)
  /\ UNCHANGED <<wrong, member, invite, req, founded, crossed>>

\* The API is restarted: what it had in memory is gone, and so are its requests.
Restart ==
  /\ wrong' = [e \in Emails |-> 0]
  /\ req' = [s \in Slots |-> Idle]
  /\ hole' = [e \in Emails |-> Pending(e)]
  /\ UNCHANGED <<user, member, invite, tried, founded, crossed>>

---------------------------------------------------------------------------
(* Members and invites *)

\* require_role("admin"): the membership is read again on every request.
Admin(a) == member[a] = "admin"

InviteMember(s, a, e, r) ==
  /\ Admin(a)
  /\ Begin(s, [op |-> "invite", email |-> e, role |-> r, seen |-> invite[e], gone |-> FALSE])
  /\ UNCHANGED <<user, wrong, member, invite, tried, hole, founded, crossed>>

\* An invite that was there gets the new role, which is written only if it
\* differs; one that was not is inserted, and the address is unique.
CommitInvite(s) ==
  LET r == req[s]  e == r.email IN
  /\ r.op = "invite"
  /\ Done(s)
  /\ invite' = IF \/ r.seen = None /\ invite[e] # None
                  \/ r.seen # None /\ (r.gone \/ r.role = r.seen)
               THEN invite ELSE [invite EXCEPT ![e] = r.role]
  /\ UNCHANGED <<user, wrong, member, tried, hole, founded, crossed>>

RevokeInvite(s, a, e) ==
  /\ Admin(a)
  /\ invite[e] # None
  /\ Begin(s, [op |-> "revoke", email |-> e, gone |-> FALSE])
  /\ UNCHANGED <<user, wrong, member, invite, tried, hole, founded, crossed>>

\* The invite that was read is deleted, not one that has replaced it.
DropInvite(s, e) ==
  IF req[s].gone
  THEN Done(s) /\ UNCHANGED invite
  ELSE /\ invite' = [invite EXCEPT ![e] = None]
       /\ req' = [q \in Slots |-> IF q = s THEN Idle ELSE Orphan(req[q], e)]

CommitRevoke(s) ==
  /\ req[s].op = "revoke"
  /\ DropInvite(s, req[s].email)
  /\ UNCHANGED <<user, wrong, member, tried, hole, founded, crossed>>

MayRemoveSelf(a, e) == Admin(a) /\ member[e] # None  \* Mutant: one may remove oneself

MayRemove(a, e) == Admin(a) /\ member[e] # None /\ a # e

RemoveMember(s, a, e) ==
  /\ MayRemove(a, e)
  /\ Begin(s, [op |-> "remove", by |-> a, email |-> e, drop |-> invite[e] # None,
               gone |-> FALSE])
  /\ UNCHANGED <<user, wrong, member, invite, tried, hole, founded, crossed>>

\* Nothing looks again whether the one who removes is still an admin.
CommitRemove(s) ==
  LET r == req[s] IN
  /\ r.op = "remove"
  /\ IF r.drop THEN DropInvite(s, r.email) ELSE Done(s) /\ UNCHANGED invite
  /\ member' = [member EXCEPT ![r.email] = None]
  /\ crossed' = (crossed \/ ~Admin(r.by))
  /\ UNCHANGED <<user, wrong, tried, hole, founded>>

---------------------------------------------------------------------------
Next ==
  \/ \E s \in Slots, e \in Emails :
       \/ \E t \in Types : Register(s, e, t) \/ Google(s, e, t)
       \/ VerifyWrong(s, e) \/ VerifyRight(s, e)
       \/ \E a \in Emails :
            \/ \E r \in Invitable : InviteMember(s, a, e, r)
            \/ RevokeInvite(s, a, e) \/ RemoveMember(s, a, e)
  \/ \E s \in Slots :
       \/ CommitRegister(s) \/ Count(s) \/ CommitAdmit(s)
       \/ CommitInvite(s) \/ CommitRevoke(s) \/ CommitRemove(s)
  \/ \E e \in Emails : Expire(e)
  \/ Restart

Spec == Init /\ [][Next]_vars

---------------------------------------------------------------------------
\* Five wrong codes in a row burn a code, whatever is registered, verified or
\* expires in between (_OTP_ATTEMPTS of auth.py:263): a code that is still to
\* be had has been missed less often, unless the count was lost with the
\* process or two guesses overlapped.
GuessesBounded ==
  \A e \in Emails : Pending(e) /\ ~hole[e] => tried[e] < MaxAttempts

\* Nobody becomes a member but by an invite that stands at that moment (one
\* revoked while the request was under way does not count, auth.py:169), or as
\* a founder whose request found the organisation empty.
AccessByInvite ==
  [][\A e \in Emails : member[e] = None /\ member'[e] # None =>
        \/ invite[e] # None
        \/ /\ e \in Founders
           /\ \E s \in Slots : req[s].op = "admit" /\ req[s].email = e /\ req[s].way = "empty"]_vars

\* "An admin cannot remove themself (no lock-outs)", members.py:128: an
\* organisation that has had a member has an admin, unless somebody was removed
\* on behalf of an admin who was removed meanwhile.
LockOutNeedsCrossing ==
  founded /\ ~crossed => \E e \in Emails : Admin(e)
=============================================================================
