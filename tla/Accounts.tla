------------------------------- MODULE Accounts -------------------------------
(***************************************************************************)
(* User accounts: registration, login and refresh, password reset, email   *)
(* verification, KYC submission and review, and the admin's disable        *)
(* switch.  All of them read the user document, patch one field and write  *)
(* the WHOLE document back, so each is split at its database calls and a   *)
(* request keeps its own, possibly stale, copy in req[w].doc.              *)
(*                                                                         *)
(* One user stands for one email address.  Passwords are named by the      *)
(* reset token that set them, 0 being the one given at registration.       *)
(***************************************************************************)
EXTENDS Naturals, FiniteSets

CONSTANTS
  Requests,      \* request goroutines
  Users,         \* email addresses
  Profiles,      \* what a profile's name, phone and bank fields may hold
  NoUser, NoToken, NoSub,
  StaffOnDuty,   \* whether an admin who is not one of Users is signed in
  Overlapping,   \* whether requests may overlap, as they may in the code
  MaxSignedIn,   \* bound: users holding tokens when a login or registration starts
  MaxResets,     \* bound: password reset tokens ever issued
  MaxVerifies,   \* bound: email verification tokens ever issued, or being sent
  MaxSubs,       \* bound: KYC submissions ever made
  MaxRestarts,   \* bound: restarts of the server
  MaxFailures    \* bound: requests that fail between two calls

ResetIds  == 1 .. MaxResets
VerifyIds == 1 .. MaxVerifies
SubIds    == 1 .. MaxSubs
Roles     == {"user", "admin"}
KYCStatuses == {"unverified", "pending", "verified", "rejected"}

UserDoc == [role : Roles, kyc : KYCStatuses, disabled : BOOLEAN, emailVerified : BOOLEAN,
            password : ResetIds \cup {0}, profile : Profiles]
TokenDoc == [user : Users, used : BOOLEAN, expired : BOOLEAN]
SubDoc   == [user : Users, status : {"pending", "verified", "rejected"}]
Session  == [user : Users, role : Roles, type : {"access", "refresh"}]

Ops == {"", "login", "profile", "disable", "enable", "verify", "reset", "submit",
        "approve", "reject"}
PCs == {"idle", "readUser", "writeUser", "markUsed", "writeSub"}

Request == [pc : PCs, op : Ops, u : Users \cup {NoUser}, doc : UserDoc \cup {NoUser}, t : Nat]
Idle == [pc |-> "idle", op |-> "", u |-> NoUser, doc |-> NoUser, t |-> 0]

ASSUME AccountsAssumption ==
  /\ NoUser \notin UserDoc \cup Users /\ NoToken \notin TokenDoc /\ NoSub \notin SubDoc
  /\ {StaffOnDuty, Overlapping} \subseteq BOOLEAN
  /\ {MaxSignedIn, MaxResets, MaxVerifies, MaxSubs, MaxRestarts, MaxFailures} \subseteq Nat

VARIABLES
  users,          \* collection "users", unique by email
  resets,         \* collection "password_resets"
  verifications,  \* collection "email_verifications"
  subs,           \* collection "kyc_submissions"
  sessions,       \* the unexpired JWTs in circulation; the server keeps none
  adminEmails,    \* ADMIN_EMAILS as read at the last start
  sending,        \* sendVerificationEmail goroutines in flight, per user
  req,            \* what each request goroutine is doing
  restarts, failures,
  listed,         \* history: emails that have ever been in ADMIN_EMAILS
  approvals,      \* history: submissions an admin has approved at some time
  resetWrites     \* history: passwords written on the strength of each reset token

database == <<users, resets, verifications, subs>>
history  == <<listed, approvals, resetWrites>>
vars == <<database, sessions, adminEmails, sending, req, restarts, failures, history>>

-----------------------------------------------------------------------------
Exists(u) == users[u] # NoUser
MayStart(w) == req[w].pc = "idle" /\ (Overlapping \/ \A v \in Requests : req[v].pc = "idle")
At(w, pc) == req[w].pc = pc
Finish(w) == req' = [req EXCEPT ![w] = Idle]
Start(w, op, pc, u, doc, t) ==
  req' = [req EXCEPT ![w] = [pc |-> pc, op |-> op, u |-> u, doc |-> doc, t |-> t]]

(* mutant: with no allowlist configured everyone is an admin *)
RoleForUnset(u) == IF adminEmails = {} \/ u \in adminEmails THEN "admin" ELSE "user"

RoleFor(u) == IF u \in adminEmails THEN "admin" ELSE "user"
Issued(u, role) == [user : {u}, role : {role}, type : {"access", "refresh"}]
(* mutant: only the expiry is checked *)
UsableUntilExpired(token) == ~token.expired

Usable(token) == ~token.used /\ ~token.expired

(* RequireAuth and RequireAdmin believe the access token, not the database. *)
SignedIn(u)     == \E s \in sessions : s.type = "access" /\ s.user = u
AdminSignedIn   == StaffOnDuty \/ \E s \in sessions : s.type = "access" /\ s.role = "admin"
MayIssue(u)     == Cardinality({s.user : s \in sessions} \cup {u}) <= MaxSignedIn

FirstFree(ids, coll, none) == {i \in ids : coll[i] = none /\ \A j \in ids : j < i => coll[j] # none}

(* mutant: approve and reject are swapped *)
PatchedSwapped(doc, op, t) ==
  CASE op = "verify"  -> [doc EXCEPT !.emailVerified = TRUE]
    [] op = "reset"   -> [doc EXCEPT !.password = t]
    [] op = "submit"  -> [doc EXCEPT !.kyc = "pending"]
    [] op = "approve" -> [doc EXCEPT !.kyc = "rejected"]
    [] op = "reject"  -> [doc EXCEPT !.kyc = "verified"]
    [] op \in {"disable", "enable"} -> [doc EXCEPT !.disabled = (op = "disable")]

(* mutant: a password reset counts as proof of the email address *)
PatchedResetVerifies(doc, op, t) ==
  CASE op \in {"verify", "reset"} ->
         [doc EXCEPT !.emailVerified = TRUE, !.password = IF op = "reset" THEN t ELSE @]
    [] op \in {"submit", "approve", "reject"} ->
         [doc EXCEPT !.kyc = IF op = "submit" THEN "pending"
                             ELSE IF op = "approve" THEN "verified" ELSE "rejected"]
    [] op \in {"disable", "enable"} -> [doc EXCEPT !.disabled = (op = "disable")]

(* The field each handler changes in the document it has just read *)
Patched(doc, op, t) ==
  CASE op = "verify"  -> [doc EXCEPT !.emailVerified = TRUE]
    [] op = "reset"   -> [doc EXCEPT !.password = t]
    [] op = "submit"  -> [doc EXCEPT !.kyc = "pending"]
    [] op = "approve" -> [doc EXCEPT !.kyc = "verified"]
    [] op = "reject"  -> [doc EXCEPT !.kyc = "rejected"]
    [] op = "disable" -> [doc EXCEPT !.disabled = TRUE]
    [] op = "enable"  -> [doc EXCEPT !.disabled = FALSE]

-----------------------------------------------------------------------------
(* Register, Login, Refresh *)

(* mutant: the KYC status of an ordinary user is left at its zero value *)
NewUserUnset(u, profile) ==
  LET admin == RoleFor(u) = "admin"
  IN  [role |-> RoleFor(u), kyc |-> IF admin THEN "verified" ELSE "",
       disabled |-> FALSE, emailVerified |-> admin, password |-> 0, profile |-> profile]

NewUser(u, profile) ==
  LET admin == RoleFor(u) = "admin"
  IN  [role |-> RoleFor(u), kyc |-> IF admin THEN "verified" ELSE "unverified",
       disabled |-> FALSE, emailVerified |-> admin, password |-> 0, profile |-> profile]

Register(w, u, profile) ==
  /\ MayStart(w) /\ ~Exists(u) /\ MayIssue(u)
  /\ users' = [users EXCEPT ![u] = NewUser(u, profile)]
  /\ sessions' = sessions \cup Issued(u, RoleFor(u))
  /\ sending' = IF RoleFor(u) = "admin" THEN sending ELSE [sending EXCEPT ![u] = @ + 1]
  /\ UNCHANGED <<resets, verifications, subs, adminEmails, req, restarts, failures, history>>

(* The password is right and the account is enabled; a role that no longer  *)
(* matches the allowlist is written before the tokens are issued.           *)
Login(w, u) ==
  /\ MayStart(w) /\ Exists(u) /\ ~users[u].disabled /\ MayIssue(u)
  /\ IF users[u].role = RoleFor(u)
     THEN sessions' = sessions \cup Issued(u, users[u].role) /\ UNCHANGED req
     ELSE /\ Start(w, "login", "writeUser", u,
                   [users[u] EXCEPT !.role = RoleFor(u),
                                    !.kyc = IF RoleFor(u) = "admin" THEN "verified" ELSE @], 0)
          /\ UNCHANGED sessions
  /\ UNCHANGED <<database, adminEmails, sending, restarts, failures, history>>

(* mutant: a disabled account may refresh *)
RefreshDisabled(w, s) ==
  /\ MayStart(w) /\ s.type = "refresh"
  /\ sessions' = sessions \cup Issued(s.user, users[s.user].role)
  /\ UNCHANGED <<database, adminEmails, sending, req, restarts, failures, history>>

Refresh(w, s) ==
  /\ MayStart(w) /\ s.type = "refresh"
  /\ ~users[s.user].disabled
  /\ sessions' = sessions \cup Issued(s.user, users[s.user].role)
  /\ UNCHANGED <<database, adminEmails, sending, req, restarts, failures, history>>

-----------------------------------------------------------------------------
(* Handlers that read a user and write it back *)

(* UserRepo.Update: the copy replaces the document. *)
WriteUser(w) ==
  /\ At(w, "writeUser")
  /\ LET r == req[w]
     IN  /\ users' = [users EXCEPT ![r.u] = r.doc]
         /\ IF r.op \in {"verify", "reset"} THEN req' = [req EXCEPT ![w].pc = "markUsed"]
                                           ELSE Finish(w)
         /\ sessions' = IF r.op = "login" THEN sessions \cup Issued(r.u, r.doc.role) ELSE sessions
         /\ resetWrites' = IF r.op = "reset" THEN [resetWrites EXCEPT ![r.t] = @ + 1] ELSE resetWrites
  /\ UNCHANGED <<resets, verifications, subs, adminEmails, sending, restarts, failures,
                 listed, approvals>>

(* VerifyEmail skips the write when the email is verified already. *)
ReadUser(w) ==
  /\ At(w, "readUser")
  /\ LET r == req[w]
         doc == users[r.u]
     IN  req' = IF r.op = "verify" /\ doc.emailVerified
                THEN [req EXCEPT ![w].pc = "markUsed"]
                ELSE [req EXCEPT ![w].pc = "writeUser", ![w].doc = Patched(doc, r.op, r.t)]
  /\ UNCHANGED <<database, sessions, adminEmails, sending, restarts, failures, history>>

UpdateProfile(w, u, profile) ==
  /\ MayStart(w) /\ SignedIn(u)
  /\ Start(w, "profile", "writeUser", u, [users[u] EXCEPT !.profile = profile], 0)
  /\ UNCHANGED <<database, sessions, adminEmails, sending, restarts, failures, history>>

SetDisabled(w, u, op) ==
  /\ MayStart(w) /\ AdminSignedIn /\ Exists(u)
  /\ Start(w, op, "writeUser", u, Patched(users[u], op, 0), 0)
  /\ UNCHANGED <<database, sessions, adminEmails, sending, restarts, failures, history>>

-----------------------------------------------------------------------------
(* Password reset and email verification *)

NewToken(u) == [user |-> u, used |-> FALSE, expired |-> FALSE]

RequestPasswordReset(w, u) ==
  /\ MayStart(w) /\ Exists(u)
  /\ \E t \in FirstFree(ResetIds, resets, NoToken) : resets' = [resets EXCEPT ![t] = NewToken(u)]
  /\ UNCHANGED <<users, verifications, subs, sessions, adminEmails, sending, req, restarts,
                 failures, history>>

(* mutant: the token is marked used first *)
ResetMarksFirst(w, t) ==
  /\ MayStart(w) /\ resets[t] # NoToken /\ Usable(resets[t])
  /\ Start(w, "reset", "markUsed", resets[t].user, NoUser, t)
  /\ UNCHANGED <<database, sessions, adminEmails, sending, restarts, failures, history>>

(* mutant: the signed-in caller's password is reset, not the token owner's *)
ResetOfCaller(w, t) ==
  /\ MayStart(w) /\ resets[t] # NoToken /\ Usable(resets[t])
  /\ \E u \in Users : SignedIn(u) /\ Start(w, "reset", "readUser", u, NoUser, t)
  /\ UNCHANGED <<database, sessions, adminEmails, sending, restarts, failures, history>>

ResetPassword(w, t) ==
  /\ MayStart(w) /\ resets[t] # NoToken /\ Usable(resets[t])
  /\ Start(w, "reset", "readUser", resets[t].user, NoUser, t)
  /\ UNCHANGED <<database, sessions, adminEmails, sending, restarts, failures, history>>

ResendVerification(w, u) ==
  /\ MayStart(w) /\ Exists(u) /\ ~users[u].emailVerified /\ sending[u] < MaxVerifies
  /\ sending' = [sending EXCEPT ![u] = @ + 1]
  /\ UNCHANGED <<database, sessions, adminEmails, req, restarts, failures, history>>

(* The goroutine of sendVerificationEmail inserts its token, or is given up *)
(* on an error that nobody sees.                                            *)
SendVerificationEmail(u) ==
  /\ sending[u] > 0
  /\ sending' = [sending EXCEPT ![u] = @ - 1]
  /\ \/ /\ \E t \in FirstFree(VerifyIds, verifications, NoToken) :
             verifications' = [verifications EXCEPT ![t] = NewToken(u)]
        /\ UNCHANGED failures
     \/ /\ failures < MaxFailures /\ failures' = failures + 1
        /\ UNCHANGED verifications
  /\ UNCHANGED <<users, resets, subs, sessions, adminEmails, req, restarts, history>>

(* mutant: the token is marked used first *)
VerifyMarksFirst(w, t) ==
  /\ MayStart(w) /\ verifications[t] # NoToken /\ Usable(verifications[t])
  /\ Start(w, "verify", "markUsed", verifications[t].user, NoUser, t)
  /\ UNCHANGED <<database, sessions, adminEmails, sending, restarts, failures, history>>

VerifyEmail(w, t) ==
  /\ MayStart(w) /\ verifications[t] # NoToken /\ Usable(verifications[t])
  /\ Start(w, "verify", "readUser", verifications[t].user, NoUser, t)
  /\ UNCHANGED <<database, sessions, adminEmails, sending, restarts, failures, history>>

MarkUsed(w) ==
  /\ At(w, "markUsed")
  /\ IF req[w].op = "reset"
     THEN resets' = [resets EXCEPT ![req[w].t].used = TRUE] /\ UNCHANGED verifications
     ELSE verifications' = [verifications EXCEPT ![req[w].t].used = TRUE] /\ UNCHANGED resets
  /\ Finish(w)
  /\ UNCHANGED <<users, subs, sessions, adminEmails, sending, restarts, failures, history>>

-----------------------------------------------------------------------------
(* kyc.Service.Submit and Review *)

Submit(w, u) ==
  /\ MayStart(w) /\ SignedIn(u)
  /\ \E s \in FirstFree(SubIds, subs, NoSub) :
       /\ subs' = [subs EXCEPT ![s] = [user |-> u, status |-> "pending"]]
       /\ Start(w, "submit", "readUser", u, NoUser, s)
  /\ UNCHANGED <<users, resets, verifications, sessions, adminEmails, sending, restarts,
                 failures, history>>

(* Review does not ask what status the submission has now. *)
Review(w, s, op) ==
  /\ MayStart(w) /\ AdminSignedIn /\ subs[s] # NoSub
  /\ Start(w, op, "writeSub", subs[s].user, NoUser, s)
  /\ UNCHANGED <<database, sessions, adminEmails, sending, restarts, failures, history>>

(* mutant: a review leaves the user's own status alone *)
WriteSubOnly(w) ==
  /\ At(w, "writeSub")
  /\ LET s == req[w].t
         approve == req[w].op = "approve"
     IN  /\ subs' = [subs EXCEPT ![s].status = IF approve THEN "verified" ELSE "rejected"]
         /\ approvals' = IF approve THEN approvals \cup {s} ELSE approvals
  /\ Finish(w)
  /\ UNCHANGED <<users, resets, verifications, sessions, adminEmails, sending, restarts,
                 failures, listed, resetWrites>>

WriteSub(w) ==
  /\ At(w, "writeSub")
  /\ LET s == req[w].t
         approve == req[w].op = "approve"
     IN  /\ subs' = [subs EXCEPT ![s].status = IF approve THEN "verified" ELSE "rejected"]
         /\ approvals' = IF approve THEN approvals \cup {s} ELSE approvals
  /\ req' = [req EXCEPT ![w].pc = "readUser"]
  /\ UNCHANGED <<users, resets, verifications, sessions, adminEmails, sending, restarts,
                 failures, listed, resetWrites>>

-----------------------------------------------------------------------------
(* Time, failures and restarts *)

ExpireSession(s) ==
  /\ sessions' = sessions \ {s}
  /\ UNCHANGED <<database, adminEmails, sending, req, restarts, failures, history>>

ExpireReset(t) ==
  /\ resets[t] # NoToken /\ ~resets[t].expired
  /\ resets' = [resets EXCEPT ![t].expired = TRUE]
  /\ UNCHANGED <<users, verifications, subs, sessions, adminEmails, sending, req, restarts,
                 failures, history>>

ExpireVerification(t) ==
  /\ verifications[t] # NoToken /\ ~verifications[t].expired
  /\ verifications' = [verifications EXCEPT ![t].expired = TRUE]
  /\ UNCHANGED <<users, resets, subs, sessions, adminEmails, sending, req, restarts,
                 failures, history>>

(* A database call returns an error and the handler gives up. *)
Fail(w) ==
  /\ ~At(w, "idle") /\ failures < MaxFailures
  /\ Finish(w)
  /\ failures' = failures + 1
  /\ UNCHANGED <<database, sessions, adminEmails, sending, restarts, history>>

(* A restart drops every goroutine and reads ADMIN_EMAILS anew; the JWTs in *)
(* circulation stay valid.                                                  *)
Restart(emails) ==
  /\ restarts < MaxRestarts
  /\ restarts' = restarts + 1
  /\ adminEmails' = emails /\ listed' = listed \cup emails
  /\ req' = [w \in Requests |-> Idle]
  /\ sending' = [u \in Users |-> 0]
  /\ UNCHANGED <<database, sessions, failures, approvals, resetWrites>>

-----------------------------------------------------------------------------
Init ==
  /\ users = [u \in Users |-> NoUser]
  /\ resets = [t \in ResetIds |-> NoToken]
  /\ verifications = [t \in VerifyIds |-> NoToken]
  /\ subs = [s \in SubIds |-> NoSub]
  /\ sessions = {}
  /\ adminEmails \in SUBSET Users
  /\ sending = [u \in Users |-> 0]
  /\ req = [w \in Requests |-> Idle]
  /\ restarts = 0 /\ failures = 0
  /\ listed = adminEmails /\ approvals = {}
  /\ resetWrites = [t \in ResetIds |-> 0]

NewRequest(w) ==
  \/ \E u \in Users :
       \/ Login(w, u) \/ RequestPasswordReset(w, u) \/ ResendVerification(w, u) \/ Submit(w, u)
       \/ \E p \in Profiles : Register(w, u, p) \/ UpdateProfile(w, u, p)
       \/ \E op \in {"disable", "enable"} : SetDisabled(w, u, op)
  \/ \E s \in sessions : Refresh(w, s)
  \/ \E t \in ResetIds : ResetPassword(w, t)
  \/ \E t \in VerifyIds : VerifyEmail(w, t)
  \/ \E s \in SubIds, op \in {"approve", "reject"} : Review(w, s, op)

Continue(w) == ReadUser(w) \/ WriteUser(w) \/ WriteSub(w) \/ MarkUsed(w)

Expiry == \/ \E s \in sessions : ExpireSession(s)
          \/ \E t \in ResetIds : ExpireReset(t)
          \/ \E t \in VerifyIds : ExpireVerification(t)

Next == \/ \E w \in Requests : NewRequest(w) \/ Continue(w) \/ Fail(w)
        \/ \E u \in Users : SendVerificationEmail(u)
        \/ \E emails \in SUBSET Users : Restart(emails)
        \/ Expiry

Spec == Init /\ [][Next]_vars

(* Tokens run out (their TTL), and the calls of a request under way return. *)
FairSpec == /\ Spec
            /\ \A s \in Session : WF_vars(s \in sessions /\ ExpireSession(s))
            /\ \A w \in Requests : WF_vars(Continue(w))

-----------------------------------------------------------------------------
TypeOK ==
  /\ users \in [Users -> UserDoc \cup {NoUser}]
  /\ resets \in [ResetIds -> TokenDoc \cup {NoToken}]
  /\ verifications \in [VerifyIds -> TokenDoc \cup {NoToken}]
  /\ subs \in [SubIds -> SubDoc \cup {NoSub}]
  /\ sessions \subseteq Session /\ adminEmails \subseteq Users
  /\ sending \in [Users -> Nat] /\ req \in [Requests -> Request]
  /\ restarts \in 0 .. MaxRestarts /\ failures \in 0 .. MaxFailures
  /\ listed \subseteq Users /\ approvals \subseteq SubIds /\ resetWrites \in [ResetIds -> Nat]
=============================================================================
