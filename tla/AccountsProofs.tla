----------------------------- MODULE AccountsProofs -----------------------------
(***************************************************************************)
(* Proofs about the account service for every number of requests, users    *)
(* and tokens, whatever overlaps, fails or restarts; and, at the end, for  *)
(* requests that do not overlap.                                           *)
(*                                                                         *)
(* The argument: tokens, submissions, approvals and listed emails are only *)
(* added and keep their owner (Grows).  So what once backed a privilege in *)
(* a user document backs it in every stale copy of that document, and a    *)
(* request that writes its copy back brings in nothing unbacked.           *)
(***************************************************************************)
EXTENDS AccountsProperties, TLAPS

(* The privileges in a document d of user u were given to u.                *)
Backed(u, d) ==
  /\ d.role = "admin" => u \in listed
  /\ d.kyc = "verified" => u \in listed \/ \E s \in approvals : subs[s].user = u
  /\ d.emailVerified =>
       u \in listed \/ \E t \in VerifyIds : verifications[t] # NoToken /\ verifications[t].user = u
  /\ d.password # 0 => resets[d.password] # NoToken /\ resets[d.password].user = u

UsersBacked == \A u \in Users : Exists(u) => Backed(u, users[u])

(* Sessions, tokens and submissions belong to existing accounts.            *)
OwnersExist ==
  /\ \A s \in sessions : Exists(s.user) /\ (s.role = "admin" => s.user \in listed)
  /\ \A t \in ResetIds : resets[t] # NoToken => Exists(resets[t].user)
  /\ \A t \in VerifyIds : verifications[t] # NoToken => Exists(verifications[t].user)
  /\ \A s \in SubIds : subs[s] # NoSub => Exists(subs[s].user)
  /\ \A u \in Users : sending[u] > 0 => Exists(u)
  /\ \A s \in approvals : subs[s] # NoSub
  /\ adminEmails \subseteq listed

OpsAt(pc) == CASE pc = "idle"      -> {""}
               [] pc = "writeSub"  -> {"approve", "reject"}
               [] pc = "markUsed"  -> {"verify", "reset"}
               [] pc = "readUser"  -> {"verify", "reset", "submit", "approve", "reject"}
               [] pc = "writeUser" -> Ops \ {""}

(* What request r holds: a backed copy, and a token or submission of r.u.   *)
Fits(r) ==
  /\ r.op \in OpsAt(r.pc)
  /\ r.pc # "idle" => r.u \in Users /\ Exists(r.u)
  /\ r.pc = "writeUser" => r.doc \in UserDoc /\ Backed(r.u, r.doc)
  /\ r.op = "reset" => r.t \in ResetIds /\ resets[r.t] # NoToken /\ resets[r.t].user = r.u
  /\ r.op = "verify" =>
       r.t \in VerifyIds /\ verifications[r.t] # NoToken /\ verifications[r.t].user = r.u
  /\ r.op \in {"submit", "approve", "reject"} =>
       r.t \in SubIds /\ subs[r.t] # NoSub /\ subs[r.t].user = r.u
  /\ r.op = "approve" /\ r.pc # "writeSub" => r.t \in approvals
  /\ r.op = "reset" /\ r.pc = "markUsed" => resetWrites[r.t] > 0

RequestsFit == \A w \in Requests : Fits(req[w])

IInv == TypeOK /\ UsersBacked /\ OwnersExist /\ RequestsFit /\ UsedTokenTookEffect

-----------------------------------------------------------------------------
(* What every step of the service does to the shared state *)

Grows ==
  /\ listed \subseteq listed' /\ approvals \subseteq approvals'
  /\ \A u \in Users : Exists(u) => Exists(u)'
  /\ \A t \in ResetIds : resets[t] # NoToken =>
       resets'[t] # NoToken /\ resets'[t].user = resets[t].user
  /\ \A t \in VerifyIds : verifications[t] # NoToken =>
       verifications'[t] # NoToken /\ verifications'[t].user = verifications[t].user
  /\ \A s \in SubIds : subs[s] # NoSub => subs'[s] # NoSub /\ subs'[s].user = subs[s].user
  /\ \A t \in ResetIds : resetWrites[t] <= resetWrites'[t]

(* What backs a copy goes on backing it.                                    *)
LEMMA BackedGrows ==
  ASSUME TypeOK, OwnersExist, Grows, NEW u \in Users, NEW d \in UserDoc, Backed(u, d)
  PROVE  Backed(u, d)'
<1>1. d.kyc = "verified" => u \in listed' \/ \E s \in approvals' : subs'[s].user = u
  BY DEF Backed, Grows, OwnersExist, TypeOK
<1>2. d.emailVerified => u \in listed' \/
        \E t \in VerifyIds : verifications'[t] # NoToken /\ verifications'[t].user = u
  BY DEF Backed, Grows
<1>3. d.password # 0 => resets'[d.password] # NoToken /\ resets'[d.password].user = u
  BY DEF Backed, Grows, UserDoc
<1> QED BY <1>1, <1>2, <1>3 DEF Backed, Grows

(* A request that does nothing keeps what it holds while others move.       *)
LEMMA FitsGrows ==
  ASSUME TypeOK, TypeOK', OwnersExist, Grows, NEW r \in Request, Fits(r)
  PROVE  Fits(r)'
<1>1. r.pc # "idle" => r.u \in Users /\ Exists(r.u)'
  BY DEF Fits, Grows
<1>2. r.pc = "writeUser" => r.doc \in UserDoc /\ Backed(r.u, r.doc)'
  BY BackedGrows DEF Fits
<1>3. r.op = "reset" => r.t \in ResetIds /\ resets'[r.t] # NoToken /\ resets'[r.t].user = r.u
  BY DEF Fits, Grows
<1>4. r.op = "verify" =>
        r.t \in VerifyIds /\ verifications'[r.t] # NoToken /\ verifications'[r.t].user = r.u
  BY DEF Fits, Grows
<1>5. r.op \in {"submit", "approve", "reject"} =>
        r.t \in SubIds /\ subs'[r.t] # NoSub /\ subs'[r.t].user = r.u
  BY DEF Fits, Grows
<1>6. r.op = "approve" /\ r.pc # "writeSub" => r.t \in approvals'
  BY DEF Fits, Grows
<1>7. r.op = "reset" /\ r.pc = "markUsed" => resetWrites'[r.t] > 0
  <2>1. ASSUME NEW t \in ResetIds, resetWrites[t] > 0 PROVE resetWrites'[t] > 0
    <3>1. resetWrites[t] \in Nat /\ resetWrites'[t] \in Nat /\ resetWrites[t] <= resetWrites'[t]
      BY DEF TypeOK, Grows
    <3> QED BY <2>1, <3>1
  <2> QED BY <1>3, <2>1 DEF Fits
<1> QED BY <1>1, <1>2, <1>3, <1>4, <1>5, <1>6, <1>7 DEF Fits

(* It is enough that what a step writes is backed, and what it holds fits.  *)
LEMMA Step ==
  ASSUME IInv, TypeOK', Grows, OwnersExist', UsedTokenTookEffect',
         \A u \in Users : users'[u] = users[u] \/ Backed(u, users[u])',
         \A w \in Requests : req'[w] = req[w] \/ Fits(req[w])'
  PROVE  IInv'
<1>1. ASSUME NEW u \in Users, Exists(u)' PROVE Backed(u, users[u])'
  <2>1. CASE users'[u] = users[u]
    <3>1. PICK d \in UserDoc : d = users[u] /\ d = users'[u]
      BY <1>1, <2>1 DEF IInv, TypeOK, Exists
    <3>2. Backed(u, d)
      BY <1>1, <3>1 DEF IInv, UsersBacked, Exists
    <3>3. Backed(u, d)'
      BY <3>2, BackedGrows DEF IInv
    <3> QED BY <3>1, <3>3 DEF Backed
  <2> QED BY <2>1
<1>2. ASSUME NEW w \in Requests PROVE Fits(req[w])'
  <2>1. CASE req'[w] = req[w]
    <3>1. PICK r \in Request : r = req[w] /\ r = req'[w]
      BY <2>1 DEF IInv, TypeOK
    <3>2. Fits(r)
      BY <3>1 DEF IInv, RequestsFit
    <3>3. Fits(r)'
      BY <3>2, FitsGrows DEF IInv
    <3> QED BY <3>1, <3>3 DEF Fits
  <2> QED BY <2>1
<1> QED BY <1>1, <1>2 DEF IInv, UsersBacked, RequestsFit

(* A step that only issues or drops sessions and moves one request on       *)
LEMMA QuietStep ==
  ASSUME IInv, NEW w \in Requests, NEW r \in Request, Fits(r),
         req' = req \/ req' = [req EXCEPT ![w] = r],
         UNCHANGED <<database, adminEmails, sending, restarts, history>>,
         failures' \in 0 .. MaxFailures, sessions' \subseteq Session,
         \A s \in sessions' \ sessions : Exists(s.user) /\ (s.role = "admin" => s.user \in listed)
  PROVE  IInv'
<1> USE DEF database, history
<1>1. TypeOK'
  BY DEF IInv, TypeOK
<1>2. Grows
  BY DEF IInv, TypeOK, Grows, Exists
<1>3. OwnersExist'
  BY DEF IInv, OwnersExist, Exists
<1>4. UsedTokenTookEffect'
  BY DEF IInv, UsedTokenTookEffect
<1>5. ASSUME NEW v \in Requests PROVE req'[v] = req[v] \/ Fits(req[v])'
  <2>1. Fits(r)'
    BY <1>1, <1>2, FitsGrows DEF IInv
  <2>2. req'[v] = req[v] \/ req'[v] = r
    BY DEF IInv, TypeOK
  <2> QED BY <2>1, <2>2 DEF Fits
<1> QED BY <1>1, <1>2, <1>3, <1>4, <1>5, Step

-----------------------------------------------------------------------------
(* Steps that read, or issue and drop sessions *)

LEMMA IdleFits == Idle \in Request /\ Fits(Idle)
  BY DEF Idle, Request, PCs, Ops, Fits, OpsAt

(* A document read for an existing user is backed.                          *)
LEMMA ReadDoc ==
  ASSUME IInv, NEW u \in Users, Exists(u)
  PROVE  users[u] \in UserDoc /\ Backed(u, users[u])
  BY DEF IInv, TypeOK, UsersBacked, Exists

(* Whoever is signed in has an account, and an admin's email is listed.     *)
LEMMA SessionOwner ==
  ASSUME IInv
  PROVE  /\ \A s \in sessions : s.user \in Users /\ Exists(s.user)
         /\ \A u \in Users : /\ SignedIn(u) => Exists(u)
                             /\ RoleFor(u) = "admin" => u \in listed
  BY DEF IInv, TypeOK, OwnersExist, SignedIn, Session, RoleFor

(* Tokens are issued to an existing account and carry a role it was given.  *)
LEMMA IssuedSessions ==
  ASSUME IInv, NEW u \in Users, Exists(u), NEW role \in Roles, role = "admin" => u \in listed
  PROVE  /\ sessions \cup Issued(u, role) \subseteq Session
         /\ \A s \in Issued(u, role) : Exists(s.user) /\ (s.role = "admin" => s.user \in listed)
<1>1. \A s \in Issued(u, role) : s \in Session /\ s.user = u /\ s.role = role
  BY DEF Issued, Session
<1>2. sessions \subseteq Session
  BY DEF IInv, TypeOK
<1> QED BY <1>1, <1>2

(* What a handler changes in a copy is backed by the token, the approval or *)
(* the submission it holds.                                                 *)
LEMMA PatchBacked ==
  ASSUME NEW u \in Users, NEW d \in UserDoc, Backed(u, d), NEW op \in Ops, NEW t \in Nat,
         op \in {"verify", "reset", "submit", "approve", "reject", "disable", "enable"},
         op = "verify" => t \in VerifyIds /\ verifications[t] # NoToken /\ verifications[t].user = u,
         op = "reset" => t \in ResetIds /\ resets[t] # NoToken /\ resets[t].user = u,
         op = "approve" => t \in approvals /\ subs[t].user = u
  PROVE  Patched(d, op, t) \in UserDoc /\ Backed(u, Patched(d, op, t))
<1>1. CASE op = "verify"
  <2>1. PICK e : e = [d EXCEPT !.emailVerified = TRUE]
    OBVIOUS
  <2>2. Patched(d, op, t) = e
    BY <1>1, <2>1 DEF Patched
  <2>3. /\ e \in UserDoc /\ e.role = d.role /\ e.kyc = d.kyc /\ e.password = d.password
    BY <2>1 DEF UserDoc
  <2> QED BY <1>1, <2>2, <2>3 DEF Backed
<1>2. CASE op = "reset"
  <2>1. PICK e : e = [d EXCEPT !.password = t]
    OBVIOUS
  <2>2. Patched(d, op, t) = e
    BY <1>2, <2>1 DEF Patched
  <2>3. /\ e \in UserDoc /\ e.role = d.role /\ e.kyc = d.kyc /\ e.emailVerified = d.emailVerified
        /\ e.password = t
    BY <1>2, <2>1 DEF UserDoc
  <2> QED BY <1>2, <2>2, <2>3 DEF Backed
<1>3. ASSUME op \in {"submit", "approve", "reject"}
      PROVE  Patched(d, op, t) \in UserDoc /\ Backed(u, Patched(d, op, t))
  <2>1. PICK k \in KYCStatuses : /\ Patched(d, op, t) = [d EXCEPT !.kyc = k]
                                 /\ k = "verified" => op = "approve"
    BY <1>3 DEF Patched, KYCStatuses
  <2>2. PICK e : e = [d EXCEPT !.kyc = k]
    OBVIOUS
  <2>3. /\ e \in UserDoc /\ e.role = d.role /\ e.password = d.password /\ e.kyc = k
        /\ e.emailVerified = d.emailVerified
    BY <2>2 DEF UserDoc
  <2> QED BY <1>3, <2>1, <2>2, <2>3 DEF Backed
<1>4. ASSUME op \in {"disable", "enable"}
      PROVE  Patched(d, op, t) \in UserDoc /\ Backed(u, Patched(d, op, t))
  <2>1. PICK b \in BOOLEAN : Patched(d, op, t) = [d EXCEPT !.disabled = b]
    BY <1>4 DEF Patched
  <2>2. PICK e : e = [d EXCEPT !.disabled = b]
    OBVIOUS
  <2>3. /\ e \in UserDoc /\ e.role = d.role /\ e.password = d.password /\ e.kyc = d.kyc
        /\ e.emailVerified = d.emailVerified
    BY <2>2 DEF UserDoc
  <2> QED BY <1>4, <2>1, <2>2, <2>3 DEF Backed
<1> QED BY <1>1, <1>2, <1>3, <1>4

(* A request that begins, or fails, with the rest of the state unchanged    *)
LEMMA StartStep ==
  ASSUME IInv, NEW w \in Requests, NEW op, NEW pc, NEW u, NEW doc, NEW t,
         Start(w, op, pc, u, doc, t),
         [pc |-> pc, op |-> op, u |-> u, doc |-> doc, t |-> t] \in Request,
         Fits([pc |-> pc, op |-> op, u |-> u, doc |-> doc, t |-> t]),
         UNCHANGED <<database, sessions, adminEmails, sending, restarts, failures, history>>
  PROVE  IInv'
<1>1. sessions' \subseteq Session /\ failures' \in 0 .. MaxFailures
  BY DEF IInv, TypeOK
<1> QED BY <1>1, QuietStep DEF Start

LEMMA LoginStep ==
  ASSUME IInv, NEW w \in Requests, NEW u \in Users, Login(w, u) PROVE IInv'
<1> USE DEF Login
<1>0. users[u] \in UserDoc /\ Backed(u, users[u])
  BY ReadDoc
<1>1. CASE users[u].role = RoleFor(u)
  <2>1. sessions' = sessions \cup Issued(u, users[u].role) /\ req' = req
    BY <1>1
  <2>2. users[u].role \in Roles /\ (users[u].role = "admin" => u \in listed)
    BY <1>0 DEF UserDoc, Backed
  <2> QED BY <2>1, <2>2, IssuedSessions, IdleFits, QuietStep DEF IInv, TypeOK
<1>2. CASE users[u].role # RoleFor(u)
  <2> DEFINE d == [users[u] EXCEPT !.role = RoleFor(u),
                                   !.kyc = IF RoleFor(u) = "admin" THEN "verified" ELSE @]
             r == [pc |-> "writeUser", op |-> "login", u |-> u, doc |-> d, t |-> 0]
  <2>1. /\ d \in UserDoc /\ d.role = RoleFor(u) /\ d.password = users[u].password
        /\ d.kyc = (IF RoleFor(u) = "admin" THEN "verified" ELSE users[u].kyc)
        /\ d.emailVerified = users[u].emailVerified
    BY <1>0 DEF UserDoc, RoleFor, Roles, KYCStatuses
  <2>2. Start(w, "login", "writeUser", u, d, 0)
    BY <1>2
  <2> HIDE DEF d
  <2>3. Backed(u, d)
    BY <1>0, <2>1, SessionOwner DEF Backed
  <2>4. r \in Request /\ Fits(r)
    BY <2>1, <2>3 DEF Request, PCs, Ops, Fits, OpsAt
  <2> QED BY <1>2, <2>2, <2>4, StartStep DEF IInv, TypeOK
<1> QED BY <1>1, <1>2

LEMMA RefreshStep ==
  ASSUME IInv, NEW w \in Requests, NEW s \in sessions, Refresh(w, s) PROVE IInv'
<1> DEFINE u == s.user
<1>1. u \in Users /\ Exists(u)
  BY SessionOwner
<1>2. users[u] \in UserDoc /\ Backed(u, users[u])
  BY <1>1, ReadDoc
<1>3. users[u].role \in Roles /\ (users[u].role = "admin" => u \in listed)
  BY <1>2 DEF UserDoc, Backed
<1>4. sessions' = sessions \cup Issued(u, users[u].role)
  BY DEF Refresh
<1> QED BY <1>1, <1>3, <1>4, IssuedSessions, IdleFits, QuietStep DEF Refresh, IInv, TypeOK

LEMMA UpdateProfileStep ==
  ASSUME IInv, NEW w \in Requests, NEW u \in Users, NEW p \in Profiles, UpdateProfile(w, u, p)
  PROVE  IInv'
<1> DEFINE d == [users[u] EXCEPT !.profile = p]
           r == [pc |-> "writeUser", op |-> "profile", u |-> u, doc |-> d, t |-> 0]
<1>0. SignedIn(u)
  BY DEF UpdateProfile
<1>1. Exists(u)
  BY <1>0, SessionOwner
<1>2. users[u] \in UserDoc /\ Backed(u, users[u])
  BY <1>1, ReadDoc
<1>3. /\ d \in UserDoc /\ d.role = users[u].role /\ d.kyc = users[u].kyc
      /\ d.password = users[u].password /\ d.emailVerified = users[u].emailVerified
  BY <1>2 DEF UserDoc
<1>4. Start(w, "profile", "writeUser", u, d, 0)
  BY DEF UpdateProfile
<1> HIDE DEF d
<1>5. Backed(u, d)
  BY <1>2, <1>3 DEF Backed
<1>6. r \in Request /\ Fits(r)
  BY <1>1, <1>3, <1>5 DEF Request, PCs, Ops, Fits, OpsAt
<1> QED BY <1>4, <1>6, StartStep DEF UpdateProfile

LEMMA SetDisabledStep ==
  ASSUME IInv, NEW w \in Requests, NEW u \in Users, NEW op \in {"disable", "enable"},
         SetDisabled(w, u, op)
  PROVE  IInv'
<1> DEFINE d == Patched(users[u], op, 0)
           r == [pc |-> "writeUser", op |-> op, u |-> u, doc |-> d, t |-> 0]
<1>1. users[u] \in UserDoc /\ Backed(u, users[u]) /\ Exists(u)
  BY ReadDoc DEF SetDisabled
<1>2. op \in Ops /\ 0 \in Nat
  BY DEF Ops
<1>3. d \in UserDoc /\ Backed(u, d)
  BY <1>1, <1>2, PatchBacked
<1>4. Start(w, op, "writeUser", u, d, 0)
  BY DEF SetDisabled
<1> HIDE DEF d
<1>5. r \in Request /\ Fits(r)
  BY <1>1, <1>2, <1>3 DEF Request, PCs, Ops, Fits, OpsAt
<1> QED BY <1>4, <1>5, StartStep DEF SetDisabled

(* The requests that begin from a token or a submission.                    *)
LEMMA TokenSteps ==
  ASSUME IInv, NEW w \in Requests
  PROVE  /\ \A t \in ResetIds : ResetPassword(w, t) => IInv'
         /\ \A t \in VerifyIds : VerifyEmail(w, t) => IInv'
         /\ \A s \in SubIds, op \in {"approve", "reject"} : Review(w, s, op) => IInv'
<1>0. ResetIds \subseteq Nat /\ VerifyIds \subseteq Nat /\ SubIds \subseteq Nat
  BY DEF ResetIds, VerifyIds, SubIds
<1>1. ASSUME NEW t \in ResetIds, ResetPassword(w, t) PROVE IInv'
  <2>1. resets[t] # NoToken /\ resets[t].user \in Users /\ Exists(resets[t].user)
    BY <1>1 DEF ResetPassword, IInv, TypeOK, TokenDoc, OwnersExist
  <2> DEFINE r == [pc |-> "readUser", op |-> "reset", u |-> resets[t].user, doc |-> NoUser, t |-> t]
  <2>2. r \in Request /\ Fits(r)
    BY <1>0, <2>1 DEF Request, PCs, Ops, Fits, OpsAt
  <2> QED BY <1>1, <2>2, StartStep DEF ResetPassword
<1>2. ASSUME NEW t \in VerifyIds, VerifyEmail(w, t) PROVE IInv'
  <2>1. /\ verifications[t] # NoToken /\ verifications[t].user \in Users
        /\ Exists(verifications[t].user)
    BY <1>2 DEF VerifyEmail, IInv, TypeOK, TokenDoc, OwnersExist
  <2> DEFINE r == [pc |-> "readUser", op |-> "verify", u |-> verifications[t].user,
                   doc |-> NoUser, t |-> t]
  <2>2. r \in Request /\ Fits(r)
    BY <1>0, <2>1 DEF Request, PCs, Ops, Fits, OpsAt
  <2> QED BY <1>2, <2>2, StartStep DEF VerifyEmail
<1>3. ASSUME NEW s \in SubIds, NEW op \in {"approve", "reject"}, Review(w, s, op) PROVE IInv'
  <2>1. subs[s] # NoSub /\ subs[s].user \in Users /\ Exists(subs[s].user)
    BY <1>3 DEF Review, IInv, TypeOK, SubDoc, OwnersExist
  <2> DEFINE r == [pc |-> "writeSub", op |-> op, u |-> subs[s].user, doc |-> NoUser, t |-> s]
  <2>2. r \in Request /\ Fits(r)
    BY <1>0, <2>1 DEF Request, PCs, Ops, Fits, OpsAt
  <2> QED BY <1>3, <2>2, StartStep DEF Review
<1> QED BY <1>1, <1>2, <1>3

LEMMA ReadUserStep ==
  ASSUME IInv, NEW w \in Requests, ReadUser(w) PROVE IInv'
<1> DEFINE r == req[w]
           d == Patched(users[r.u], r.op, r.t)
<1>1. r \in Request /\ Fits(r) /\ r.pc = "readUser"
  BY DEF IInv, TypeOK, RequestsFit, ReadUser, At
<1>2. r.u \in Users /\ Exists(r.u) /\ r.op \in {"verify", "reset", "submit", "approve", "reject"}
  BY <1>1 DEF Fits, OpsAt
<1>3. users[r.u] \in UserDoc /\ Backed(r.u, users[r.u])
  BY <1>2, ReadDoc
<1>4. d \in UserDoc /\ Backed(r.u, d)
  BY <1>1, <1>2, <1>3, PatchBacked DEF Fits, Request
<1>5. UNCHANGED <<database, sessions, adminEmails, sending, restarts, failures, history>>
      /\ sessions' \subseteq Session /\ failures' \in 0 .. MaxFailures
  BY DEF ReadUser, IInv, TypeOK
<1>6. CASE r.op = "verify" /\ users[r.u].emailVerified
  <2>1. PICK c : c = [r EXCEPT !.pc = "markUsed"]
    OBVIOUS
  <2>2. req' = [req EXCEPT ![w] = c]
    BY <1>6, <2>1 DEF ReadUser, IInv, TypeOK
  <2>3. c \in Request /\ c.pc = "markUsed" /\ c.op = r.op /\ c.u = r.u /\ c.t = r.t
    BY <1>1, <2>1 DEF Request, PCs
  <2>4. Fits(c)
    BY <1>1, <1>6, <2>3 DEF Fits, OpsAt
  <2> QED BY <1>5, <2>2, <2>3, <2>4, QuietStep
<1>7. CASE ~(r.op = "verify" /\ users[r.u].emailVerified)
  <2> HIDE DEF d
  <2>1. PICK c : c = [r EXCEPT !.pc = "writeUser", !.doc = d]
    OBVIOUS
  <2>2. req' = [req EXCEPT ![w] = c]
    BY <1>7, <2>1 DEF ReadUser, IInv, TypeOK, d
  <2>3. /\ c \in Request /\ c.pc = "writeUser" /\ c.op = r.op /\ c.u = r.u /\ c.t = r.t
        /\ c.doc = d
    BY <1>1, <1>4, <2>1 DEF Request, PCs
  <2>4. Fits(c)
    BY <1>1, <1>2, <1>4, <2>3 DEF Fits, OpsAt, Ops
  <2> QED BY <1>5, <2>2, <2>3, <2>4, QuietStep
<1> QED BY <1>6, <1>7

LEMMA FailStep ==
  ASSUME IInv, NEW w \in Requests, Fail(w) PROVE IInv'
<1>1. failures' \in 0 .. MaxFailures
  BY AccountsAssumption DEF Fail, IInv, TypeOK, AccountsAssumption
<1> QED BY <1>1, IdleFits, QuietStep DEF Fail, Finish, IInv, TypeOK

-----------------------------------------------------------------------------
(* Steps that write to the database *)

LEMMA RegisterStep ==
  ASSUME IInv, NEW w \in Requests, NEW u \in Users, NEW p \in Profiles, Register(w, u, p)
  PROVE  IInv'
<1> DEFINE admin == RoleFor(u) = "admin"
           d == [role |-> RoleFor(u), kyc |-> IF admin THEN "verified" ELSE "unverified",
                 disabled |-> FALSE, emailVerified |-> admin, password |-> 0, profile |-> p]
<1>1. RoleFor(u) \in Roles /\ (admin => u \in listed)
  <2>1. RoleFor(u) = "admin" => u \in listed
    BY SessionOwner
  <2>2. RoleFor(u) \in {"user", "admin"}
    BY DEF RoleFor
  <2> QED BY <2>1, <2>2 DEF Roles
<1>2. /\ d \in UserDoc /\ d # NoUser
      /\ d.role = RoleFor(u) /\ d.password = 0 /\ (d.emailVerified => admin)
      /\ (d.kyc = "verified" => admin)
  <2>1. admin \in BOOLEAN
    OBVIOUS
  <2>2. (IF admin THEN "verified" ELSE "unverified") \in KYCStatuses
    BY DEF KYCStatuses
  <2>3. PICK b \in BOOLEAN, k \in KYCStatuses :
          /\ b = admin /\ k = (IF admin THEN "verified" ELSE "unverified")
          /\ d = [role |-> RoleFor(u), kyc |-> k, disabled |-> FALSE, emailVerified |-> b,
                  password |-> 0, profile |-> p]
    BY <2>1, <2>2, Zenon
  <2>4. k = "verified" => admin
    BY <2>3
  <2> HIDE DEF d, admin
  <2>5. d \in UserDoc /\ d.role = RoleFor(u) /\ d.password = 0 /\ d.emailVerified = b /\ d.kyc = k
    BY <1>1, <2>3 DEF UserDoc
  <2> QED BY <2>3, <2>4, <2>5, AccountsAssumption DEF AccountsAssumption
<1>3. /\ users' = [users EXCEPT ![u] = d] /\ ~Exists(u)
      /\ sessions' = sessions \cup Issued(u, RoleFor(u))
      /\ sending' = IF admin THEN sending ELSE [sending EXCEPT ![u] = @ + 1]
      /\ UNCHANGED <<resets, verifications, subs, adminEmails, req, restarts, failures, history>>
  BY DEF Register, NewUser
<1> HIDE DEF d
<1>4. d.role = "admin" \/ d.kyc = "verified" \/ d.emailVerified => u \in listed'
  BY <1>1, <1>2, <1>3 DEF history
<1>5. users'[u] = d /\ \A v \in Users : v # u => users'[v] = users[v]
  BY <1>3 DEF IInv, TypeOK
<1>6. \A s \in Issued(u, RoleFor(u)) : s \in Session /\ s.user = u /\ s.role = RoleFor(u)
  BY <1>1 DEF Issued, Session
<1>7. TypeOK'
  <2>1. users' \in [Users -> UserDoc \cup {NoUser}]
    BY <1>2, <1>3 DEF IInv, TypeOK
  <2>2. sessions' \subseteq Session
    BY <1>3, <1>6 DEF IInv, TypeOK
  <2>3. sending' \in [Users -> Nat]
    BY <1>3 DEF IInv, TypeOK
  <2> QED BY <1>3, <2>1, <2>2, <2>3 DEF IInv, TypeOK, history
<1>8. \A v \in Users : Exists(v) => Exists(v)'
  BY <1>3, <1>5 DEF Exists
<1>9. Grows
  BY <1>3, <1>8 DEF IInv, TypeOK, Grows, history
<1>10. OwnersExist'
  <2>1. Exists(u)'
    BY <1>2, <1>5 DEF Exists
  <2>2. ASSUME NEW s \in sessions'
        PROVE  Exists(s.user)' /\ (s.role = "admin" => s.user \in listed')
    <3>1. CASE s \in sessions
      <4>1. s.user \in Users /\ Exists(s.user) /\ (s.role = "admin" => s.user \in listed)
        BY <3>1, SessionOwner DEF IInv, OwnersExist
      <4> QED BY <4>1, <1>3, <1>8 DEF history
    <3>2. CASE s \in Issued(u, RoleFor(u))
      BY <3>2, <1>1, <1>3, <1>6, <2>1 DEF history
    <3> QED BY <1>3, <3>1, <3>2
  <2>3. \A t \in ResetIds : resets[t] # NoToken => users'[resets[t].user] # NoUser
    BY <1>8 DEF IInv, OwnersExist, TypeOK, TokenDoc, Exists
  <2>4. \A t \in VerifyIds : verifications[t] # NoToken => users'[verifications[t].user] # NoUser
    BY <1>8 DEF IInv, OwnersExist, TypeOK, TokenDoc, Exists
  <2>5. \A s \in SubIds : subs[s] # NoSub => users'[subs[s].user] # NoUser
    BY <1>8 DEF IInv, OwnersExist, TypeOK, SubDoc, Exists
  <2>6. \A v \in Users : sending'[v] > 0 => Exists(v)'
    BY <1>3, <1>8, <2>1 DEF IInv, OwnersExist, TypeOK
  <2> QED BY <1>3, <2>2, <2>3, <2>4, <2>5, <2>6 DEF IInv, OwnersExist, history, Exists
<1>11. UsedTokenTookEffect'
  BY <1>3 DEF IInv, UsedTokenTookEffect, history
<1>12. \A v \in Users : users'[v] = users[v] \/ Backed(v, users[v])'
  BY <1>2, <1>4, <1>5 DEF Backed
<1> QED BY <1>3, <1>7, <1>9, <1>10, <1>11, <1>12, Step

(* What a step adds to a collection belongs to an account there is.         *)
OwnersFound(ids, old, new, none) ==
  \A i \in ids : new[i] # none =>
    \/ old[i] # none /\ old[i].user = new[i].user
    \/ new[i].user \in Users /\ Exists(new[i].user)

LEMMA SameOwners ==
  ASSUME NEW ids, NEW coll, NEW none PROVE OwnersFound(ids, coll, coll, none)
  BY DEF OwnersFound

(* Every owner is there after a step that issues no session.                *)
LEMMA OwnersGrow ==
  ASSUME IInv, Grows, UNCHANGED <<sessions, adminEmails>>,
         \A u \in Users : sending'[u] > 0 => sending[u] > 0 \/ Exists(u),
         OwnersFound(ResetIds, resets, resets', NoToken),
         OwnersFound(VerifyIds, verifications, verifications', NoToken),
         OwnersFound(SubIds, subs, subs', NoSub),
         \A s \in approvals' \ approvals : s \in SubIds /\ subs[s] # NoSub
  PROVE  OwnersExist'
<1>0. \A u \in Users : Exists(u) => Exists(u)'
  BY DEF Grows
<1>1. \A s \in sessions' : Exists(s.user)' /\ (s.role = "admin" => s.user \in listed')
  <2> SUFFICES ASSUME NEW s \in sessions
               PROVE  Exists(s.user)' /\ (s.role = "admin" => s.user \in listed')
    OBVIOUS
  <2>1. s.user \in Users /\ Exists(s.user) /\ (s.role = "admin" => s.user \in listed)
    BY SessionOwner DEF IInv, OwnersExist
  <2> QED BY <1>0, <2>1 DEF Grows
<1>2. \A t \in ResetIds : resets'[t] # NoToken => users'[resets'[t].user] # NoUser
  BY <1>0 DEF IInv, OwnersExist, TypeOK, TokenDoc, Exists, OwnersFound
<1>3. \A t \in VerifyIds : verifications'[t] # NoToken => users'[verifications'[t].user] # NoUser
  BY <1>0 DEF IInv, OwnersExist, TypeOK, TokenDoc, Exists, OwnersFound
<1>4. \A s \in SubIds : subs'[s] # NoSub => users'[subs'[s].user] # NoUser
  BY <1>0 DEF IInv, OwnersExist, TypeOK, SubDoc, Exists, OwnersFound
<1>5. \A u \in Users : sending'[u] > 0 => Exists(u)'
  BY <1>0 DEF IInv, OwnersExist
<1>6. \A s \in approvals' : subs'[s] # NoSub
  BY DEF IInv, OwnersExist, TypeOK, Grows
<1>7. adminEmails' \subseteq listed'
  BY DEF IInv, OwnersExist, Grows
<1> QED BY <1>1, <1>2, <1>3, <1>4, <1>5, <1>6, <1>7 DEF OwnersExist, Exists

LEMMA WriteUserStep ==
  ASSUME IInv, NEW w \in Requests, WriteUser(w) PROVE IInv'
<1>0. PICK r \in Request : r = req[w]
  BY DEF IInv, TypeOK
<1>1. Fits(r) /\ r.pc = "writeUser"
  BY <1>0 DEF IInv, RequestsFit, WriteUser, At
<1>2. /\ r.u \in Users /\ Exists(r.u) /\ r.doc \in UserDoc /\ r.doc # NoUser /\ Backed(r.u, r.doc)
      /\ r.op = "reset" => r.t \in ResetIds
  BY <1>1, AccountsAssumption DEF Fits, AccountsAssumption
<1>3. PICK u \in Users, d \in UserDoc : u = r.u /\ d = r.doc
  BY <1>2
<1>4. /\ users' = [users EXCEPT ![u] = d]
      /\ req' = [req EXCEPT ![w] = Idle] \/ req' = [req EXCEPT ![w].pc = "markUsed"]
      /\ ~(r.op \in {"verify", "reset"}) => req' = [req EXCEPT ![w] = Idle]
      /\ sessions' = IF r.op = "login" THEN sessions \cup Issued(u, d.role) ELSE sessions
      /\ resetWrites' = IF r.op = "reset" THEN [resetWrites EXCEPT ![r.t] = @ + 1] ELSE resetWrites
      /\ UNCHANGED <<resets, verifications, subs, adminEmails, sending, restarts, failures,
                     listed, approvals>>
  BY <1>0, <1>3 DEF WriteUser, Finish
<1>5. /\ users'[u] = d /\ \A v \in Users : v # u => users'[v] = users[v]
      /\ \A v \in Users : Exists(v) => Exists(v)'
  BY <1>2, <1>3, <1>4 DEF IInv, TypeOK, Exists
<1>6. d.role \in Roles /\ (d.role = "admin" => u \in listed)
  BY <1>2, <1>3 DEF UserDoc, Backed
<1>7. \A s \in Issued(u, d.role) : s \in Session /\ s.user = u /\ s.role = d.role
  BY <1>6 DEF Issued, Session
<1>8. PICK c : c = [r EXCEPT !.pc = "markUsed"]
  OBVIOUS
<1>9. c \in Request /\ c.pc = "markUsed" /\ c.op = r.op /\ c.u = r.u /\ c.t = r.t
  BY <1>1, <1>8 DEF Request, PCs
<1>10. \/ req' = [req EXCEPT ![w] = Idle]
       \/ req' = [req EXCEPT ![w] = c] /\ r.op \in {"verify", "reset"}
  BY <1>0, <1>4, <1>8 DEF IInv, TypeOK
<1>11. resetWrites' \in [ResetIds -> Nat] /\ \A t \in ResetIds : resetWrites[t] <= resetWrites'[t]
  <2>1. resetWrites \in [ResetIds -> Nat]
    BY DEF IInv, TypeOK
  <2> QED BY <1>2, <1>4, <2>1
<1>12. TypeOK'
  <2>1. users' \in [Users -> UserDoc \cup {NoUser}]
    BY <1>4 DEF IInv, TypeOK
  <2>2. sessions' \subseteq Session
    BY <1>4, <1>7 DEF IInv, TypeOK
  <2>3. req' \in [Requests -> Request]
    BY <1>9, <1>10, IdleFits DEF IInv, TypeOK
  <2> QED BY <1>4, <1>11, <2>1, <2>2, <2>3 DEF IInv, TypeOK
<1>13. Grows
  BY <1>4, <1>5, <1>11 DEF Grows
<1>14. OwnersExist'
  <2>1. \A s \in sessions' : users'[s.user] # NoUser /\ (s.role = "admin" => s.user \in listed')
    <3> SUFFICES ASSUME NEW s \in sessions'
                 PROVE  users'[s.user] # NoUser /\ (s.role = "admin" => s.user \in listed')
      OBVIOUS
    <3>1. CASE s \in sessions
      <4>1. s.user \in Users /\ Exists(s.user) /\ (s.role = "admin" => s.user \in listed)
        BY <3>1, SessionOwner DEF IInv, OwnersExist
      <4> QED BY <4>1, <1>4, <1>5 DEF Exists
    <3>2. CASE s \in Issued(u, d.role)
      BY <3>2, <1>2, <1>3, <1>4, <1>5, <1>6, <1>7
    <3> QED BY <1>4, <3>1, <3>2
  <2>2. \A t \in ResetIds : resets[t] # NoToken => users'[resets[t].user] # NoUser
    BY <1>5 DEF IInv, OwnersExist, TypeOK, TokenDoc, Exists
  <2>3. \A t \in VerifyIds : verifications[t] # NoToken => users'[verifications[t].user] # NoUser
    BY <1>5 DEF IInv, OwnersExist, TypeOK, TokenDoc, Exists
  <2>4. \A s \in SubIds : subs[s] # NoSub => users'[subs[s].user] # NoUser
    BY <1>5 DEF IInv, OwnersExist, TypeOK, SubDoc, Exists
  <2>5. \A v \in Users : sending[v] > 0 => users'[v] # NoUser
    BY <1>5 DEF IInv, OwnersExist, Exists
  <2> QED BY <1>4, <2>1, <2>2, <2>3, <2>4, <2>5 DEF IInv, OwnersExist, Exists
<1>15. UsedTokenTookEffect'
  <2> SUFFICES ASSUME NEW t \in ResetIds, resets[t] # NoToken, resets[t].used
               PROVE  resetWrites'[t] > 0
    BY <1>4 DEF UsedTokenTookEffect
  <2>1. resetWrites[t] > 0 /\ resetWrites[t] <= resetWrites'[t]
    BY <1>11 DEF IInv, UsedTokenTookEffect
  <2>2. resetWrites[t] \in Nat /\ resetWrites'[t] \in Nat
    BY <1>11 DEF IInv, TypeOK
  <2> QED BY <2>1, <2>2
<1>16. ASSUME NEW v \in Users PROVE users'[v] = users[v] \/ Backed(v, users[v])'
  <2>1. Backed(u, d)'
    BY <1>2, <1>3, <1>13, BackedGrows DEF IInv
  <2> QED BY <1>5, <2>1 DEF Backed
<1>17. ASSUME NEW v \in Requests PROVE req'[v] = req[v] \/ Fits(req[v])'
  <2>1. Fits(Idle)'
    BY DEF Fits, Idle, OpsAt
  <2>2. ASSUME r.op \in {"verify", "reset"} PROVE Fits(c)'
    <3>1. Fits(r)'
      BY <1>1, <1>12, <1>13, FitsGrows DEF IInv
    <3>2. r.op = "reset" => resetWrites'[r.t] > 0
      <4>1. r.op = "reset" => resetWrites'[r.t] = resetWrites[r.t] + 1 /\ resetWrites[r.t] \in Nat
        BY <1>2, <1>4 DEF IInv, TypeOK
      <4> QED BY <4>1
    <3> QED BY <1>1, <1>9, <2>2, <3>1, <3>2 DEF Fits, OpsAt
  <2>3. \/ req'[v] = req[v] \/ req'[v] = Idle
        \/ req'[v] = c /\ r.op \in {"verify", "reset"}
    BY <1>10 DEF IInv, TypeOK
  <2> QED BY <2>1, <2>2, <2>3 DEF Fits
<1> QED BY <1>12, <1>13, <1>14, <1>15, <1>16, <1>17, Step

(* FirstFree finds slots in use by nobody.                                  *)
LEMMA FirstFreeIsFree ==
  ASSUME NEW ids, NEW coll, NEW none, NEW i \in FirstFree(ids, coll, none)
  PROVE  i \in ids /\ coll[i] = none
  BY DEF FirstFree

LEMMA NewTokenDoc ==
  ASSUME NEW u \in Users
  PROVE  /\ NewToken(u) \in TokenDoc /\ NewToken(u) # NoToken
         /\ NewToken(u).user = u /\ ~NewToken(u).used
<1>1. NewToken(u) \in TokenDoc /\ NewToken(u).user = u /\ NewToken(u).used = FALSE
  BY DEF NewToken, TokenDoc
<1> QED BY <1>1, AccountsAssumption DEF AccountsAssumption

LEMMA RequestPasswordResetStep ==
  ASSUME IInv, NEW w \in Requests, NEW u \in Users, RequestPasswordReset(w, u) PROVE IInv'
<1> USE DEF history
<1>1. PICK t \in FirstFree(ResetIds, resets, NoToken) : resets' = [resets EXCEPT ![t] = NewToken(u)]
  BY DEF RequestPasswordReset
<1>2. t \in ResetIds /\ resets[t] = NoToken
  BY <1>1, FirstFreeIsFree
<1>3. /\ UNCHANGED <<users, verifications, subs, sessions, adminEmails, sending, req, restarts,
                     failures, history>>
      /\ Exists(u)
  BY DEF RequestPasswordReset
<1>4. /\ resets'[t] = NewToken(u)
      /\ \A s \in ResetIds : s # t => resets'[s] = resets[s]
  BY <1>1, <1>2 DEF IInv, TypeOK
<1>5. TypeOK'
  <2>1. resets' \in [ResetIds -> TokenDoc \cup {NoToken}]
    BY <1>1, NewTokenDoc DEF IInv, TypeOK
  <2> QED BY <1>3, <2>1 DEF IInv, TypeOK
<1>6. Grows
  BY <1>2, <1>3, <1>4 DEF Grows, Exists, IInv, TypeOK
<1>7. OwnersExist'
  <2>1. OwnersFound(ResetIds, resets, resets', NoToken)
    BY <1>3, <1>4, NewTokenDoc DEF OwnersFound
  <2> QED BY <2>1, <1>3, <1>6, SameOwners, OwnersGrow
<1>8. UsedTokenTookEffect'
  BY <1>3, <1>4, NewTokenDoc DEF IInv, UsedTokenTookEffect
<1> QED BY <1>3, <1>5, <1>6, <1>7, <1>8, Step

LEMMA ResendVerificationStep ==
  ASSUME IInv, NEW w \in Requests, NEW u \in Users, ResendVerification(w, u) PROVE IInv'
<1> USE DEF history, database
<1>1. /\ UNCHANGED <<database, sessions, adminEmails, req, restarts, failures, history>>
      /\ Exists(u) /\ sending' = [sending EXCEPT ![u] = @ + 1]
  BY DEF ResendVerification
<1>2. TypeOK'
  BY <1>1 DEF IInv, TypeOK
<1>3. Grows
  BY <1>1 DEF Grows, Exists, IInv, TypeOK
<1>4. OwnersExist'
  BY <1>1, <1>3, OwnersGrow DEF IInv, TypeOK, OwnersExist, Exists
<1>5. UsedTokenTookEffect'
  BY <1>1 DEF IInv, UsedTokenTookEffect
<1> QED BY <1>1, <1>2, <1>3, <1>4, <1>5, Step

LEMMA SendVerificationEmailStep ==
  ASSUME IInv, NEW u \in Users, SendVerificationEmail(u) PROVE IInv'
<1> USE DEF history
<1>1. /\ UNCHANGED <<users, resets, subs, sessions, adminEmails, req, restarts, history>>
      /\ Exists(u) /\ sending[u] > 0 /\ sending' = [sending EXCEPT ![u] = @ - 1]
  BY DEF SendVerificationEmail, IInv, OwnersExist
<1>2. /\ sending' \in [Users -> Nat] /\ failures' \in 0 .. MaxFailures
      /\ \A v \in Users : sending'[v] > 0 => sending[v] > 0
  <2>1. sending \in [Users -> Nat] /\ failures \in 0 .. MaxFailures
    BY DEF IInv, TypeOK
  <2>2. sending'[u] = sending[u] - 1 /\ \A v \in Users : v # u => sending'[v] = sending[v]
    BY <1>1, <2>1
  <2>3. sending' \in [Users -> Nat]
    BY <1>1, <2>1
  <2>4. failures' \in 0 .. MaxFailures
    BY <2>1, AccountsAssumption DEF SendVerificationEmail, AccountsAssumption
  <2> QED BY <1>1, <2>2, <2>3, <2>4
<1>3. \/ UNCHANGED verifications
      \/ \E t \in FirstFree(VerifyIds, verifications, NoToken) :
           verifications' = [verifications EXCEPT ![t] = NewToken(u)]
  BY DEF SendVerificationEmail
<1>4. CASE UNCHANGED verifications
  <2>1. TypeOK'
    BY <1>1, <1>2, <1>4 DEF IInv, TypeOK
  <2>2. Grows
    BY <1>1, <1>4 DEF Grows, Exists, IInv, TypeOK
  <2>3. OwnersExist'
    BY <1>1, <1>2, <1>4 DEF IInv, OwnersExist, Exists
  <2>4. UsedTokenTookEffect'
    BY <1>1 DEF IInv, UsedTokenTookEffect
  <2> QED BY <1>1, <2>1, <2>2, <2>3, <2>4, Step
<1>5. ASSUME NEW t \in FirstFree(VerifyIds, verifications, NoToken),
             verifications' = [verifications EXCEPT ![t] = NewToken(u)]
      PROVE  IInv'
  <2>1. t \in VerifyIds /\ verifications[t] = NoToken
    BY FirstFreeIsFree
  <2>2. /\ verifications'[t] = NewToken(u)
        /\ \A s \in VerifyIds : s # t => verifications'[s] = verifications[s]
    BY <1>5, <2>1 DEF IInv, TypeOK
  <2>3. TypeOK'
    <3>1. verifications' \in [VerifyIds -> TokenDoc \cup {NoToken}]
      BY <1>5, NewTokenDoc DEF IInv, TypeOK
    <3> QED BY <1>1, <1>2, <3>1 DEF IInv, TypeOK
  <2>4. Grows
    BY <1>1, <2>1, <2>2 DEF Grows, Exists, IInv, TypeOK
  <2>5. OwnersExist'
    <3>1. OwnersFound(VerifyIds, verifications, verifications', NoToken)
      BY <1>1, <2>2, NewTokenDoc DEF OwnersFound
    <3> QED BY <3>1, <1>1, <1>2, <2>4, SameOwners, OwnersGrow
  <2>6. UsedTokenTookEffect'
    BY <1>1 DEF IInv, UsedTokenTookEffect
  <2> QED BY <1>1, <2>3, <2>4, <2>5, <2>6, Step
<1> QED BY <1>3, <1>4, <1>5

(* A step that changes the flags of a reset token, its owner never.         *)
LEMMA ResetFlagsStep ==
  ASSUME IInv, NEW t \in ResetIds, resets[t] # NoToken, NEW d \in TokenDoc,
         d.user = resets[t].user, d.used => resets[t].used \/ resetWrites[t] > 0,
         resets' = [resets EXCEPT ![t] = d],
         UNCHANGED <<users, verifications, subs, sessions, adminEmails, sending, restarts,
                     failures, history>>,
         req' = req \/ \E w \in Requests : req' = [req EXCEPT ![w] = Idle]
  PROVE  IInv'
<1> USE DEF history
<1>1. /\ resets'[t] = d /\ d # NoToken
      /\ \A s \in ResetIds : s # t => resets'[s] = resets[s]
  BY AccountsAssumption DEF IInv, TypeOK, AccountsAssumption
<1>2. TypeOK'
  <2>1. req' \in [Requests -> Request]
    BY IdleFits DEF IInv, TypeOK
  <2>2. resets' \in [ResetIds -> TokenDoc \cup {NoToken}]
    BY DEF IInv, TypeOK
  <2> QED BY <2>1, <2>2 DEF IInv, TypeOK
<1>3. Grows
  BY <1>1 DEF Grows, Exists, IInv, TypeOK
<1>4. OwnersExist'
  <2>1. OwnersFound(ResetIds, resets, resets', NoToken)
    BY <1>1 DEF OwnersFound
  <2> QED BY <2>1, <1>3, SameOwners, OwnersGrow
<1>5. UsedTokenTookEffect'
  BY <1>1 DEF IInv, UsedTokenTookEffect
<1>6. ASSUME NEW v \in Requests PROVE req'[v] = req[v] \/ Fits(req[v])'
  <2>1. Fits(Idle)'
    BY DEF Fits, Idle, OpsAt
  <2>2. req'[v] = req[v] \/ req'[v] = Idle
    BY DEF IInv, TypeOK
  <2> QED BY <2>1, <2>2 DEF Fits
<1> QED BY <1>2, <1>3, <1>4, <1>5, <1>6, Step

LEMMA VerificationFlagsStep ==
  ASSUME IInv, NEW t \in VerifyIds, verifications[t] # NoToken, NEW d \in TokenDoc,
         d.user = verifications[t].user,
         verifications' = [verifications EXCEPT ![t] = d],
         UNCHANGED <<users, resets, subs, sessions, adminEmails, sending, restarts,
                     failures, history>>,
         req' = req \/ \E w \in Requests : req' = [req EXCEPT ![w] = Idle]
  PROVE  IInv'
<1> USE DEF history
<1>1. /\ verifications'[t] = d /\ d # NoToken
      /\ \A s \in VerifyIds : s # t => verifications'[s] = verifications[s]
  BY AccountsAssumption DEF IInv, TypeOK, AccountsAssumption
<1>2. TypeOK'
  <2>1. req' \in [Requests -> Request]
    BY IdleFits DEF IInv, TypeOK
  <2>2. verifications' \in [VerifyIds -> TokenDoc \cup {NoToken}]
    BY DEF IInv, TypeOK
  <2> QED BY <2>1, <2>2 DEF IInv, TypeOK
<1>3. Grows
  BY <1>1 DEF Grows, Exists, IInv, TypeOK
<1>4. OwnersExist'
  <2>1. OwnersFound(VerifyIds, verifications, verifications', NoToken)
    BY <1>1 DEF OwnersFound
  <2> QED BY <2>1, <1>3, SameOwners, OwnersGrow
<1>5. UsedTokenTookEffect'
  BY DEF IInv, UsedTokenTookEffect
<1>6. ASSUME NEW v \in Requests PROVE req'[v] = req[v] \/ Fits(req[v])'
  <2>1. Fits(Idle)'
    BY DEF Fits, Idle, OpsAt
  <2>2. req'[v] = req[v] \/ req'[v] = Idle
    BY DEF IInv, TypeOK
  <2> QED BY <2>1, <2>2 DEF Fits
<1> QED BY <1>2, <1>3, <1>4, <1>5, <1>6, Step

LEMMA MarkUsedStep ==
  ASSUME IInv, NEW w \in Requests, MarkUsed(w) PROVE IInv'
<1>1. PICK r \in Request : r = req[w] /\ Fits(r) /\ r.pc = "markUsed"
  BY DEF IInv, TypeOK, RequestsFit, MarkUsed, At
<1>2. /\ UNCHANGED <<users, subs, sessions, adminEmails, sending, restarts, failures, history>>
      /\ req' = [req EXCEPT ![w] = Idle]
  BY DEF MarkUsed, Finish
<1>3. CASE r.op = "reset"
  <2>1. r.t \in ResetIds /\ resets[r.t] # NoToken /\ resetWrites[r.t] > 0
    BY <1>1, <1>3 DEF Fits
  <2>2. resets[r.t] \in TokenDoc
    BY <2>1 DEF IInv, TypeOK
  <2>3. PICK d : d = [resets[r.t] EXCEPT !.used = TRUE]
    OBVIOUS
  <2>4. d \in TokenDoc /\ d.user = resets[r.t].user
    BY <2>2, <2>3 DEF TokenDoc
  <2>5. resets' = [resets EXCEPT ![r.t] = d] /\ UNCHANGED verifications
    BY <1>1, <1>3, <2>1, <2>3 DEF MarkUsed, IInv, TypeOK
  <2> QED BY <1>2, <2>1, <2>4, <2>5, ResetFlagsStep
<1>4. CASE r.op # "reset"
  <2>1. r.t \in VerifyIds /\ verifications[r.t] # NoToken
    BY <1>1, <1>4 DEF Fits, OpsAt
  <2>2. verifications[r.t] \in TokenDoc
    BY <2>1 DEF IInv, TypeOK
  <2>3. PICK d : d = [verifications[r.t] EXCEPT !.used = TRUE]
    OBVIOUS
  <2>4. d \in TokenDoc /\ d.user = verifications[r.t].user
    BY <2>2, <2>3 DEF TokenDoc
  <2>5. verifications' = [verifications EXCEPT ![r.t] = d] /\ UNCHANGED resets
    BY <1>1, <1>4, <2>1, <2>3 DEF MarkUsed, IInv, TypeOK
  <2> QED BY <1>2, <2>1, <2>4, <2>5, VerificationFlagsStep
<1> QED BY <1>3, <1>4

(* Tokens and sessions run out.                                             *)
LEMMA ExpirySteps ==
  ASSUME IInv
  PROVE  Expiry => IInv'
<1>1. ASSUME NEW s \in sessions, ExpireSession(s) PROVE IInv'
  <2> USE DEF database, history
  <2>1. /\ sessions' \subseteq sessions
        /\ UNCHANGED <<database, adminEmails, sending, req, restarts, failures, history>>
    BY <1>1 DEF ExpireSession
  <2>2. TypeOK' /\ Grows
    BY <2>1 DEF IInv, TypeOK, Grows, Exists
  <2>3. OwnersExist' /\ UsedTokenTookEffect'
    BY <2>1 DEF IInv, OwnersExist, Exists, UsedTokenTookEffect
  <2> QED BY <2>1, <2>2, <2>3, Step
<1>2. ASSUME NEW t \in ResetIds, ExpireReset(t) PROVE IInv'
  <2>1. resets[t] \in TokenDoc /\ resets[t] # NoToken
    BY <1>2 DEF IInv, TypeOK, ExpireReset
  <2>2. PICK d : d = [resets[t] EXCEPT !.expired = TRUE]
    OBVIOUS
  <2>3. d \in TokenDoc /\ d.user = resets[t].user /\ d.used = resets[t].used
    BY <2>1, <2>2 DEF TokenDoc
  <2>4. resets' = [resets EXCEPT ![t] = d]
    BY <1>2, <2>2 DEF ExpireReset, IInv, TypeOK
  <2> QED BY <1>2, <2>1, <2>3, <2>4, ResetFlagsStep DEF ExpireReset
<1>3. ASSUME NEW t \in VerifyIds, ExpireVerification(t) PROVE IInv'
  <2>1. verifications[t] \in TokenDoc /\ verifications[t] # NoToken
    BY <1>3 DEF IInv, TypeOK, ExpireVerification
  <2>2. PICK d : d = [verifications[t] EXCEPT !.expired = TRUE]
    OBVIOUS
  <2>3. d \in TokenDoc /\ d.user = verifications[t].user
    BY <2>1, <2>2 DEF TokenDoc
  <2>4. verifications' = [verifications EXCEPT ![t] = d]
    BY <1>3, <2>2 DEF ExpireVerification, IInv, TypeOK
  <2> QED BY <1>3, <2>1, <2>3, <2>4, VerificationFlagsStep DEF ExpireVerification
<1> QED BY <1>1, <1>2, <1>3 DEF Expiry

(* A step that writes one submission and moves its request to readUser      *)
LEMMA SubStep ==
  ASSUME IInv, NEW w \in Requests, NEW s \in SubIds, NEW d \in SubDoc, NEW r \in Request,
         subs[s] # NoSub => subs[s].user = d.user, Exists(d.user),
         subs' = [subs EXCEPT ![s] = d], req' = [req EXCEPT ![w] = r],
         approvals' = approvals \/ (subs[s] # NoSub /\ approvals' = approvals \cup {s}),
         r.pc = "readUser", r.op \in {"submit", "approve", "reject"}, r.u = d.user, r.t = s,
         r.op = "approve" => s \in approvals',
         UNCHANGED <<users, resets, verifications, sessions, adminEmails, sending, restarts,
                     failures, listed, resetWrites>>
  PROVE  IInv'
<1>1. /\ subs'[s] = d /\ d # NoSub /\ d.user \in Users
      /\ \A i \in SubIds : i # s => subs'[i] = subs[i]
  BY AccountsAssumption DEF IInv, TypeOK, SubDoc, AccountsAssumption
<1>2. TypeOK'
  <2>1. subs' \in [SubIds -> SubDoc \cup {NoSub}] /\ req' \in [Requests -> Request]
    BY DEF IInv, TypeOK
  <2> QED BY <2>1 DEF IInv, TypeOK
<1>3. Grows
  BY <1>1 DEF Grows, Exists, IInv, TypeOK
<1>4. OwnersExist'
  <2>1. OwnersFound(SubIds, subs, subs', NoSub)
    BY <1>1 DEF OwnersFound
  <2> QED BY <2>1, <1>3, SameOwners, OwnersGrow
<1>5. UsedTokenTookEffect'
  BY DEF IInv, UsedTokenTookEffect
<1>6. Fits(r)'
  BY <1>1 DEF Fits, OpsAt, Exists
<1>7. ASSUME NEW v \in Requests PROVE req'[v] = req[v] \/ Fits(req[v])'
  <2>1. req'[v] = req[v] \/ req'[v] = r
    BY DEF IInv, TypeOK
  <2> QED BY <1>6, <2>1 DEF Fits
<1> QED BY <1>2, <1>3, <1>4, <1>5, <1>7, Step

LEMMA SubmitStep ==
  ASSUME IInv, NEW w \in Requests, NEW u \in Users, Submit(w, u) PROVE IInv'
<1>1. PICK s \in FirstFree(SubIds, subs, NoSub) :
        /\ subs' = [subs EXCEPT ![s] = [user |-> u, status |-> "pending"]]
        /\ Start(w, "submit", "readUser", u, NoUser, s)
  BY DEF Submit
<1>2. s \in SubIds /\ subs[s] = NoSub
  BY <1>1, FirstFreeIsFree
<1>3. SignedIn(u)
  BY DEF Submit
<1>4. Exists(u)
  BY <1>3, SessionOwner
<1>5. PICK d \in SubDoc : d = [user |-> u, status |-> "pending"]
  BY DEF SubDoc
<1>6. PICK r \in Request : r = [pc |-> "readUser", op |-> "submit", u |-> u, doc |-> NoUser, t |-> s]
  <2>1. s \in Nat
    BY <1>2 DEF SubIds
  <2> QED BY <2>1 DEF Request, PCs, Ops
<1>7. /\ d.user = u /\ r.pc = "readUser" /\ r.op = "submit" /\ r.u = u /\ r.t = s
      /\ subs' = [subs EXCEPT ![s] = d] /\ req' = [req EXCEPT ![w] = r]
  BY <1>1, <1>5, <1>6 DEF Start
<1>8. UNCHANGED <<users, resets, verifications, sessions, adminEmails, sending, restarts,
                  failures, listed, approvals, resetWrites>>
  BY DEF Submit, history
<1> QED BY <1>2, <1>4, <1>7, <1>8, SubStep

LEMMA WriteSubStep ==
  ASSUME IInv, NEW w \in Requests, WriteSub(w) PROVE IInv'
<1>1. PICK r \in Request : r = req[w] /\ Fits(r) /\ r.pc = "writeSub"
  BY DEF IInv, TypeOK, RequestsFit, WriteSub, At
<1>2. /\ r.op \in {"approve", "reject"} /\ r.t \in SubIds /\ subs[r.t] # NoSub
      /\ subs[r.t].user = r.u /\ Exists(r.u)
  BY <1>1 DEF Fits, OpsAt
<1>3. PICK k \in {"verified", "rejected"} :
        /\ subs' = [subs EXCEPT ![r.t].status = k]
        /\ approvals' = IF r.op = "approve" THEN approvals \cup {r.t} ELSE approvals
        /\ req' = [req EXCEPT ![w].pc = "readUser"]
        /\ UNCHANGED <<users, resets, verifications, sessions, adminEmails, sending, restarts,
                       failures, listed, resetWrites>>
  BY <1>1 DEF WriteSub
<1>4. subs[r.t] \in SubDoc
  BY <1>2 DEF IInv, TypeOK
<1>5. PICK d : d = [subs[r.t] EXCEPT !.status = k]
  OBVIOUS
<1>6. d \in SubDoc /\ d.user = subs[r.t].user
  BY <1>4, <1>5 DEF SubDoc
<1>7. PICK c : c = [r EXCEPT !.pc = "readUser"]
  OBVIOUS
<1>8. c \in Request /\ c.pc = "readUser" /\ c.op = r.op /\ c.u = r.u /\ c.t = r.t
  BY <1>7 DEF Request, PCs
<1>9. subs' = [subs EXCEPT ![r.t] = d] /\ req' = [req EXCEPT ![w] = c]
  BY <1>1, <1>2, <1>3, <1>5, <1>7 DEF IInv, TypeOK
<1>10. /\ approvals' = approvals \/ (subs[r.t] # NoSub /\ approvals' = approvals \cup {r.t})
       /\ c.op = "approve" => r.t \in approvals'
  BY <1>2, <1>3, <1>8
<1>11. /\ Exists(d.user) /\ c.u = d.user /\ c.op \in {"submit", "approve", "reject"} /\ c.t = r.t
       /\ UNCHANGED <<users, resets, verifications, sessions, adminEmails, sending, restarts,
                      failures, listed, resetWrites>>
  BY <1>2, <1>3, <1>6, <1>8
<1> QED BY <1>2, <1>6, <1>8, <1>9, <1>10, <1>11, SubStep

LEMMA RestartStep ==
  ASSUME IInv, NEW emails \in SUBSET Users, Restart(emails) PROVE IInv'
<1> USE DEF database
<1>1. /\ adminEmails' = emails /\ listed' = listed \cup emails
      /\ req' = [w \in Requests |-> Idle] /\ sending' = [u \in Users |-> 0]
      /\ UNCHANGED <<users, resets, verifications, subs, sessions, failures, approvals, resetWrites>>
  BY DEF Restart
<1>2. TypeOK'
  <2>1. restarts' \in 0 .. MaxRestarts
    BY AccountsAssumption DEF Restart, IInv, TypeOK, AccountsAssumption
  <2>2. req' \in [Requests -> Request] /\ sending' \in [Users -> Nat]
    BY <1>1, IdleFits
  <2> QED BY <1>1, <2>1, <2>2 DEF IInv, TypeOK
<1>3. Grows
  BY <1>1 DEF Grows, Exists, IInv, TypeOK
<1>4. OwnersExist'
  BY <1>1 DEF IInv, OwnersExist, Exists
<1>5. UsedTokenTookEffect'
  BY <1>1 DEF IInv, UsedTokenTookEffect
<1>6. ASSUME NEW v \in Requests PROVE Fits(req[v])'
  <2>1. Fits(Idle)'
    BY DEF Fits, Idle, OpsAt
  <2> QED BY <1>1, <2>1 DEF Fits
<1> QED BY <1>1, <1>2, <1>3, <1>4, <1>5, <1>6, Step

-----------------------------------------------------------------------------
(* The account service *)

LEMMA InitIInv == Init => IInv
<1> SUFFICES ASSUME Init PROVE IInv
  OBVIOUS
<1>1. TypeOK
  BY IdleFits, AccountsAssumption DEF Init, TypeOK, AccountsAssumption
<1>2. UsersBacked /\ OwnersExist /\ UsedTokenTookEffect
  BY DEF Init, UsersBacked, OwnersExist, UsedTokenTookEffect, Exists
<1>3. RequestsFit
  BY IdleFits DEF Init, RequestsFit
<1> QED BY <1>1, <1>2, <1>3 DEF IInv

LEMMA NewRequestIInv ==
  ASSUME IInv, NEW w \in Requests, NewRequest(w) PROVE IInv'
<1>1. ASSUME NEW u \in Users,
             \/ Login(w, u) \/ RequestPasswordReset(w, u) \/ ResendVerification(w, u) \/ Submit(w, u)
             \/ \E p \in Profiles : Register(w, u, p) \/ UpdateProfile(w, u, p)
             \/ \E op \in {"disable", "enable"} : SetDisabled(w, u, op)
      PROVE  IInv'
  BY <1>1, LoginStep, RequestPasswordResetStep, ResendVerificationStep, SubmitStep, RegisterStep,
     UpdateProfileStep, SetDisabledStep
<1>2. ASSUME \/ \E s \in sessions : Refresh(w, s)
             \/ \E t \in ResetIds : ResetPassword(w, t)
             \/ \E t \in VerifyIds : VerifyEmail(w, t)
             \/ \E s \in SubIds, op \in {"approve", "reject"} : Review(w, s, op)
      PROVE  IInv'
  BY <1>2, RefreshStep, TokenSteps
<1> QED BY <1>1, <1>2 DEF NewRequest

(* Every step keeps the invariant, and so does a stutter.                   *)
LEMMA NextIInv == IInv /\ [Next]_vars => IInv'
<1> SUFFICES ASSUME IInv, [Next]_vars PROVE IInv'
  OBVIOUS
<1>1. ASSUME NEW w \in Requests, NewRequest(w) \/ Continue(w) \/ Fail(w) PROVE IInv'
  BY <1>1, NewRequestIInv, ReadUserStep, WriteUserStep, WriteSubStep, MarkUsedStep, FailStep
     DEF Continue
<1>2. ASSUME NEW u \in Users, SendVerificationEmail(u) PROVE IInv'
  BY <1>2, SendVerificationEmailStep
<1>3. ASSUME NEW emails \in SUBSET Users, Restart(emails) PROVE IInv'
  BY <1>3, RestartStep
<1>4. CASE Expiry
  BY <1>4, ExpirySteps
<1>5. CASE UNCHANGED vars
  <2>1. TypeOK' /\ Grows /\ OwnersExist' /\ UsedTokenTookEffect'
    BY <1>5 DEF vars, database, history, IInv, TypeOK, Grows, OwnersExist, Exists,
       UsedTokenTookEffect
  <2> QED BY <1>5, <2>1, Step DEF vars, database
<1> QED BY <1>1, <1>2, <1>3, <1>4, <1>5 DEF Next

(* In every reachable state each privilege, in a document, in a stale copy  *)
(* of one and in a token, was given to its holder.                          *)
THEOREM InductiveInvariant == Spec => []IInv
  BY InitIInv, NextIInv, PTL DEF Spec

(* Every variable keeps its type (Accounts.TypeOK).                         *)
THEOREM TypeCorrect == Spec => []TypeOK
<1>1. IInv => TypeOK
  BY DEF IInv
<1> QED BY <1>1, InductiveInvariant, PTL

(* The admin role, in an account or in a token, belongs to an email that    *)
(* has been in ADMIN_EMAILS, whatever overlaps or restarts.                 *)
THEOREM AdminsAreListed == Spec => []AdminIsListed
<1>1. IInv => AdminIsListed
  BY DEF IInv, AdminIsListed, UsersBacked, Backed, OwnersExist
<1> QED BY <1>1, InductiveInvariant, PTL

(* A verified KYC status goes back to an approval of an own submission, or  *)
(* to the admin role, through any number of stale copies.                   *)
THEOREM VerifiedKycWasApproved == Spec => []KycIsBacked
<1>1. IInv => KycIsBacked
  BY DEF IInv, KycIsBacked, UsersBacked, Backed
<1> QED BY <1>1, InductiveInvariant, PTL

(* A verified email goes back to a token issued to its owner, or to the     *)
(* admin role.                                                              *)
THEOREM VerifiedEmailWasAsked == Spec => []EmailIsBacked
<1>1. IInv => EmailIsBacked
  BY DEF IInv, EmailIsBacked, UsersBacked, Backed
<1> QED BY <1>1, InductiveInvariant, PTL

(* A password other than the first was set with a reset token of that user. *)
THEOREM PasswordsAreOwn == Spec => []PasswordIsOwn
<1>1. IInv => PasswordIsOwn
  BY DEF IInv, PasswordIsOwn, UsersBacked, Backed
<1> QED BY <1>1, InductiveInvariant, PTL

(* A reset token is marked used only after a password was written on its     *)
(* strength (ResetPassword's order of calls), whatever overlaps or fails.    *)
THEOREM UsedTokensTookEffect == Spec => []UsedTokenTookEffect
<1>1. IInv => UsedTokenTookEffect
  BY DEF IInv
<1> QED BY <1>1, InductiveInvariant, PTL

-----------------------------------------------------------------------------
(***************************************************************************)
(* Requests that do not overlap (Overlapping = FALSE), failures and        *)
(* restarts included.                                                      *)
(*                                                                         *)
(* The argument: the only request under way holds a copy that is still     *)
(* that of the database but for the field it patches (Serial), so what a   *)
(* token or a review did is never taken back by a stale copy.              *)
(***************************************************************************)

KycOps == {"submit", "approve", "reject"}
Verdict(op) == CASE op = "submit"  -> "pending"
                 [] op = "approve" -> "verified"
                 [] op = "reject"  -> "rejected"

OneAtATime == \A v, w \in Requests : req[v].pc # "idle" /\ req[w].pc # "idle" => v = w

(* What the only request under way relies on.                               *)
Serial(r) ==
  /\ r.op = "reset" => ~resets[r.t].used
  /\ r.pc = "writeUser" =>
       /\ users[r.u].emailVerified \/ r.op = "verify" => r.doc.emailVerified
       /\ users[r.u].password # 0 \/ r.op = "reset" => r.doc.password # 0
       /\ r.op = "login" => r.u \in listed
       /\ r.op \in KycOps => r.doc.kyc = Verdict(r.op)
       /\ r.op \notin KycOps \cup {"login"} => r.doc.kyc = users[r.u].kyc
  /\ r.pc = "markUsed" =>
       /\ r.op = "verify" => users[r.u].emailVerified
       /\ r.op = "reset" => users[r.u].password # 0
  /\ r.pc \in {"readUser", "writeUser"} /\ r.op \in KycOps =>
       subs[r.t] = [user |-> r.u, status |-> Verdict(r.op)]

RequestsSerial == \A w \in Requests : Serial(req[w])

Marking(w, t) == req[w].pc = "markUsed" /\ req[w].op = "reset" /\ req[w].t = t

(* A reset token has written once if it is used or about to be marked.      *)
WritesAreCounted ==
  \A t \in ResetIds :
    /\ resetWrites[t] \in {0, 1}
    /\ resetWrites[t] = 1 =>
         (resets[t] # NoToken /\ resets[t].used) \/ \E w \in Requests : Marking(w, t)

Matches(u) ==
  IF users[u].kyc = "unverified"
  THEN \A s \in SubIds : subs[s] # NoSub => subs[s].user # u
  ELSE \E s \in SubIds : subs[s] = [user |-> u, status |-> users[u].kyc]

(* A request that is about to bring the KYC status of u up to date          *)
Reviewing(w, u) ==
  req[w].u = u /\ req[w].pc \in {"readUser", "writeUser"} /\ req[w].op \in KycOps

KycAgrees ==
  \A u \in Users \ listed : Exists(u) => Matches(u) \/ \E w \in Requests : Reviewing(w, u)

SInv == /\ OneAtATime /\ SpentTokensStick /\ RequestsSerial
        /\ Undisturbed => WritesAreCounted /\ KycAgrees

-----------------------------------------------------------------------------
(* One request at a time *)

(* A goroutine that is idle relies on nothing.                              *)
LEMMA IdleSerial ==
  ASSUME NEW r \in Request, r.pc = "idle", r.op = ""
  PROVE  Serial(r) /\ Serial(r)'
  BY DEF Serial, KycOps

LEMMA IdleRequests ==
  ASSUME IInv, NEW w \in Requests, req[w].pc = "idle"
  PROVE  req[w] \in Request /\ req[w].op = ""
  BY DEF IInv, TypeOK, RequestsFit, Fits, OpsAt

(* A request starts when no other is under way, and then stays alone.       *)
LEMMA Alone ==
  ASSUME ~Overlapping, IInv, SInv, NEW w \in Requests, MayStart(w) \/ req[w].pc # "idle"
  PROVE  /\ \A v \in Requests : v # w => req[v].pc = "idle"
         /\ MayStart(w) => req[w].pc = "idle"
  BY DEF SInv, OneAtATime, MayStart

(* If only w moves, it is enough to look at what it does next.              *)
LEMMA OneMoves ==
  ASSUME IInv, NEW w \in Requests, NEW r \in Request, req' = [req EXCEPT ![w] = r],
         \A v \in Requests : v # w => req[v].pc = "idle", Serial(r)'
  PROVE  /\ OneAtATime' /\ RequestsSerial'
         /\ \A t : (\E v \in Requests : Marking(v, t)) => Marking(w, t)
         /\ \A u : (\E v \in Requests : Reviewing(v, u)) => Reviewing(w, u)
         /\ \A t : r.pc = "markUsed" /\ r.op = "reset" /\ r.t = t => Marking(w, t)'
         /\ \A u : r.u = u /\ r.pc \in {"readUser", "writeUser"} /\ r.op \in KycOps
                     => Reviewing(w, u)'
<1>1. req'[w] = r /\ \A v \in Requests : v # w => req'[v] = req[v]
  BY DEF IInv, TypeOK
<1>2. OneAtATime'
  BY <1>1 DEF OneAtATime
<1>3. ASSUME NEW v \in Requests PROVE Serial(req[v])'
  <2>1. CASE v = w
    BY <1>1, <2>1 DEF Serial
  <2>2. CASE v # w
    <3>1. PICK c \in Request : c = req[v] /\ c = req'[v]
      BY <1>1, <2>2 DEF IInv, TypeOK
    <3>2. c.pc = "idle" /\ c.op = ""
      BY <2>2, <3>1, IdleRequests
    <3>3. Serial(c)'
      BY <3>2, IdleSerial
    <3> QED BY <3>1, <3>3 DEF Serial
  <2> QED BY <2>1, <2>2
<1> QED BY <1>1, <1>2, <1>3 DEF RequestsSerial, Marking, Reviewing

(* Steps that leave the documents and the requests alone                    *)
LEMMA SameSerial ==
  ASSUME SInv, UNCHANGED <<users, subs, resets, verifications, req, restarts, listed, resetWrites>>,
         failures \in Nat, failures' \in Nat, failures <= failures'
  PROVE  SInv'
<1>1. OneAtATime' /\ SpentTokensStick' /\ RequestsSerial'
  BY DEF SInv, OneAtATime, SpentTokensStick, RequestsSerial, Serial
<1>2. ASSUME Undisturbed' PROVE WritesAreCounted' /\ KycAgrees'
  <2>1. Undisturbed
    BY <1>2 DEF Undisturbed
  <2> QED BY <2>1 DEF SInv, WritesAreCounted, Marking, KycAgrees, Matches, Reviewing, Exists
<1> QED BY <1>1, <1>2 DEF SInv

(* A request that begins, the documents unchanged                           *)
LEMMA SerialStart ==
  ASSUME ~Overlapping, IInv, SInv, NEW w \in Requests, MayStart(w),
         NEW r \in Request, req' = [req EXCEPT ![w] = r], Serial(r),
         UNCHANGED <<users, subs, resets, verifications, restarts, failures, listed, resetWrites>>
  PROVE  SInv'
<1>1. Serial(r)'
  BY DEF Serial
<1>2. (\A v \in Requests : v # w => req[v].pc = "idle") /\ req[w].pc = "idle"
  BY Alone
<1>3. OneAtATime' /\ RequestsSerial'
  BY <1>1, <1>2, OneMoves
<1>4. SpentTokensStick'
  BY DEF SInv, SpentTokensStick
<1>5. \A v \in Requests : req[v].pc = "idle"
  BY <1>2
<1>6. ASSUME Undisturbed' PROVE WritesAreCounted' /\ KycAgrees'
  <2>1. WritesAreCounted /\ KycAgrees
    BY <1>6 DEF Undisturbed, SInv
  <2>2. WritesAreCounted'
    BY <1>5, <2>1 DEF WritesAreCounted, Marking
  <2>3. KycAgrees'
    BY <1>5, <2>1 DEF KycAgrees, Reviewing, Exists, Matches
  <2> QED BY <2>2, <2>3
<1> QED BY <1>3, <1>4, <1>6 DEF SInv

(* The requests that begin with a copy of the document, or with a token     *)
LEMMA StartsSerial ==
  ASSUME ~Overlapping, IInv, SInv, NEW w \in Requests
  PROVE  /\ \A u \in Users : Login(w, u) => SInv'
         /\ \A u \in Users, p \in Profiles : UpdateProfile(w, u, p) => SInv'
         /\ \A u \in Users, op \in {"disable", "enable"} : SetDisabled(w, u, op) => SInv'
         /\ \A t \in ResetIds : ResetPassword(w, t) => SInv'
         /\ \A t \in VerifyIds : VerifyEmail(w, t) => SInv'
         /\ \A s \in SubIds, op \in {"approve", "reject"} : Review(w, s, op) => SInv'
<1> USE DEF database, history
<1>1. ASSUME NEW u \in Users, Login(w, u) PROVE SInv'
  <2>0. /\ MayStart(w) /\ Exists(u)
        /\ UNCHANGED <<database, adminEmails, sending, restarts, failures, history>>
    BY <1>1 DEF Login
  <2>1. CASE users[u].role = RoleFor(u)
    <3>1. UNCHANGED req /\ failures \in Nat
      BY <1>1, <2>1 DEF Login, IInv, TypeOK
    <3> QED BY <2>0, <3>1, SameSerial
  <2>2. CASE users[u].role # RoleFor(u)
    <3> DEFINE d == [users[u] EXCEPT !.role = RoleFor(u),
                                     !.kyc = IF RoleFor(u) = "admin" THEN "verified" ELSE @]
    <3>1. users[u] \in UserDoc /\ Backed(u, users[u])
      BY <2>0, ReadDoc
    <3>2. d \in UserDoc /\ d.emailVerified = users[u].emailVerified /\ d.password = users[u].password
      BY <3>1 DEF UserDoc, RoleFor, Roles, KYCStatuses
    <3>3. u \in listed
      BY <2>2, <3>1, SessionOwner DEF Backed, UserDoc, Roles, RoleFor
    <3>4. Start(w, "login", "writeUser", u, d, 0)
      BY <1>1, <2>2 DEF Login
    <3> HIDE DEF d
    <3>5. PICK r : r = [pc |-> "writeUser", op |-> "login", u |-> u, doc |-> d, t |-> 0]
      OBVIOUS
    <3>6. r \in Request /\ Serial(r)
      BY <3>2, <3>3, <3>5 DEF Request, PCs, Ops, Serial, KycOps
    <3> QED BY <2>0, <3>4, <3>5, <3>6, SerialStart DEF Start
  <2> QED BY <2>1, <2>2
<1>2. ASSUME NEW u \in Users, NEW p \in Profiles, UpdateProfile(w, u, p) PROVE SInv'
  <2> DEFINE d == [users[u] EXCEPT !.profile = p]
  <2>0. /\ MayStart(w) /\ SignedIn(u) /\ Start(w, "profile", "writeUser", u, d, 0)
        /\ UNCHANGED <<database, sessions, adminEmails, sending, restarts, failures, history>>
    BY <1>2 DEF UpdateProfile
  <2>1. Exists(u)
    BY <2>0, SessionOwner
  <2>2. users[u] \in UserDoc
    BY <2>1, ReadDoc
  <2>3. /\ d \in UserDoc /\ d.emailVerified = users[u].emailVerified /\ d.kyc = users[u].kyc
        /\ d.password = users[u].password
    BY <2>2 DEF UserDoc
  <2> HIDE DEF d
  <2>4. PICK r : r = [pc |-> "writeUser", op |-> "profile", u |-> u, doc |-> d, t |-> 0]
    OBVIOUS
  <2>5. r \in Request /\ Serial(r)
    BY <2>3, <2>4 DEF Request, PCs, Ops, Serial, KycOps
  <2> QED BY <2>0, <2>4, <2>5, SerialStart DEF Start
<1>3. ASSUME NEW u \in Users, NEW op \in {"disable", "enable"}, SetDisabled(w, u, op) PROVE SInv'
  <2> DEFINE d == Patched(users[u], op, 0)
  <2>0. /\ MayStart(w) /\ Exists(u) /\ Start(w, op, "writeUser", u, d, 0)
        /\ UNCHANGED <<database, sessions, adminEmails, sending, restarts, failures, history>>
    BY <1>3 DEF SetDisabled
  <2>1. users[u] \in UserDoc
    BY <2>0, ReadDoc
  <2>2. PICK b \in BOOLEAN : d = [users[u] EXCEPT !.disabled = b]
    BY DEF Patched
  <2> HIDE DEF d
  <2>3. /\ d \in UserDoc /\ d.emailVerified = users[u].emailVerified /\ d.kyc = users[u].kyc
        /\ d.password = users[u].password
    BY <2>1, <2>2 DEF UserDoc
  <2>4. PICK r : r = [pc |-> "writeUser", op |-> op, u |-> u, doc |-> d, t |-> 0]
    OBVIOUS
  <2>5. r \in Request /\ Serial(r)
    BY <2>3, <2>4 DEF Request, PCs, Ops, Serial, KycOps
  <2> QED BY <2>0, <2>4, <2>5, SerialStart DEF Start
<1>4. ASSUME NEW t \in ResetIds, ResetPassword(w, t) PROVE SInv'
  <2>0. /\ MayStart(w) /\ resets[t] # NoToken /\ Usable(resets[t]) /\ t \in Nat
        /\ UNCHANGED <<database, sessions, adminEmails, sending, restarts, failures, history>>
    BY <1>4 DEF ResetPassword, ResetIds
  <2>1. resets[t].user \in Users
    BY <2>0 DEF IInv, TypeOK, TokenDoc
  <2>2. PICK r : r = [pc |-> "readUser", op |-> "reset", u |-> resets[t].user, doc |-> NoUser, t |-> t]
    OBVIOUS
  <2>3. r \in Request /\ Serial(r)
    BY <2>0, <2>1, <2>2 DEF Request, PCs, Ops, Serial, KycOps, Usable
  <2> QED BY <1>4, <2>0, <2>2, <2>3, SerialStart DEF Start, ResetPassword
<1>5. ASSUME NEW t \in VerifyIds, VerifyEmail(w, t) PROVE SInv'
  <2>0. /\ MayStart(w) /\ verifications[t] # NoToken /\ t \in Nat
        /\ UNCHANGED <<database, sessions, adminEmails, sending, restarts, failures, history>>
    BY <1>5 DEF VerifyEmail, VerifyIds
  <2>1. verifications[t].user \in Users
    BY <2>0 DEF IInv, TypeOK, TokenDoc
  <2>2. PICK r : r = [pc |-> "readUser", op |-> "verify", u |-> verifications[t].user,
                      doc |-> NoUser, t |-> t]
    OBVIOUS
  <2>3. r \in Request /\ Serial(r)
    BY <2>0, <2>1, <2>2 DEF Request, PCs, Ops, Serial, KycOps
  <2> QED BY <1>5, <2>0, <2>2, <2>3, SerialStart DEF Start, VerifyEmail
<1>6. ASSUME NEW s \in SubIds, NEW op \in {"approve", "reject"}, Review(w, s, op) PROVE SInv'
  <2>0. /\ MayStart(w) /\ subs[s] # NoSub /\ s \in Nat
        /\ UNCHANGED <<database, sessions, adminEmails, sending, restarts, failures, history>>
    BY <1>6 DEF Review, SubIds
  <2>1. subs[s].user \in Users
    BY <2>0 DEF IInv, TypeOK, SubDoc
  <2>2. PICK r : r = [pc |-> "writeSub", op |-> op, u |-> subs[s].user, doc |-> NoUser, t |-> s]
    OBVIOUS
  <2>3. r \in Request /\ Serial(r)
    BY <2>0, <2>1, <2>2 DEF Request, PCs, Ops, Serial, KycOps
  <2> QED BY <1>6, <2>0, <2>2, <2>3, SerialStart DEF Start, Review
<1> QED BY <1>1, <1>2, <1>3, <1>4, <1>5, <1>6

-----------------------------------------------------------------------------
(* Requests under way *)

(* A handler patches its own field and no other.                            *)
LEMMA PatchedFields ==
  ASSUME NEW d \in UserDoc, NEW t \in Nat,
         NEW op \in {"verify", "reset", "submit", "approve", "reject"}
  PROVE  /\ d.emailVerified \/ op = "verify" => Patched(d, op, t).emailVerified
         /\ Patched(d, op, t).password = IF op = "reset" THEN t ELSE d.password
         /\ Patched(d, op, t).kyc = IF op \in KycOps THEN Verdict(op) ELSE d.kyc
<1>1. CASE op = "verify"
  <2>1. Patched(d, op, t) = [d EXCEPT !.emailVerified = TRUE]
    BY <1>1 DEF Patched
  <2>2. /\ [d EXCEPT !.emailVerified = TRUE].emailVerified = TRUE
        /\ [d EXCEPT !.emailVerified = TRUE].password = d.password
        /\ [d EXCEPT !.emailVerified = TRUE].kyc = d.kyc
    BY DEF UserDoc
  <2> QED BY <1>1, <2>1, <2>2 DEF KycOps
<1>2. CASE op = "reset"
  <2>1. Patched(d, op, t) = [d EXCEPT !.password = t]
    BY <1>2 DEF Patched
  <2>2. /\ [d EXCEPT !.password = t].emailVerified = d.emailVerified
        /\ [d EXCEPT !.password = t].password = t
        /\ [d EXCEPT !.password = t].kyc = d.kyc
    BY DEF UserDoc
  <2> QED BY <1>2, <2>1, <2>2 DEF KycOps
<1>3. ASSUME op \in KycOps
      PROVE  /\ Patched(d, op, t).emailVerified = d.emailVerified
             /\ Patched(d, op, t).password = d.password
             /\ Patched(d, op, t).kyc = Verdict(op)
  <2>1. Patched(d, op, t) = [d EXCEPT !.kyc = Verdict(op)]
    BY <1>3 DEF Patched, Verdict, KycOps
  <2> HIDE DEF Verdict
  <2>2. /\ [d EXCEPT !.kyc = Verdict(op)].emailVerified = d.emailVerified
        /\ [d EXCEPT !.kyc = Verdict(op)].password = d.password
        /\ [d EXCEPT !.kyc = Verdict(op)].kyc = Verdict(op)
    BY DEF UserDoc
  <2> QED BY <2>1, <2>2
<1> QED BY <1>1, <1>2, <1>3 DEF KycOps

LEMMA ReadUserSerial ==
  ASSUME ~Overlapping, IInv, SInv, NEW w \in Requests, ReadUser(w) PROVE SInv'
<1> USE DEF database, history
<1>1. PICK r \in Request : r = req[w] /\ Fits(r) /\ Serial(r) /\ r.pc = "readUser"
  BY DEF IInv, TypeOK, RequestsFit, SInv, RequestsSerial, ReadUser, At
<1>2. r.u \in Users /\ Exists(r.u) /\ r.op \in {"verify", "reset", "submit", "approve", "reject"}
  BY <1>1 DEF Fits, OpsAt
<1>3. users[r.u] \in UserDoc /\ r.t \in Nat
  BY <1>2, ReadDoc DEF Request
<1>4. PICK d \in UserDoc : d = Patched(users[r.u], r.op, r.t)
  <2>1. Backed(r.u, users[r.u])
    BY <1>2, ReadDoc
  <2> QED BY <1>1, <1>2, <1>3, <2>1, PatchBacked DEF Fits, Ops
<1>5. /\ users[r.u].emailVerified \/ r.op = "verify" => d.emailVerified
      /\ d.password = IF r.op = "reset" THEN r.t ELSE users[r.u].password
      /\ d.kyc = IF r.op \in KycOps THEN Verdict(r.op) ELSE users[r.u].kyc
  BY <1>2, <1>3, <1>4, PatchedFields
<1>6. PICK c \in Request :
        /\ req' = [req EXCEPT ![w] = c] /\ c.op = r.op /\ c.u = r.u /\ c.t = r.t
        /\ \/ c.pc = "markUsed" /\ r.op = "verify" /\ users[r.u].emailVerified
           \/ c.pc = "writeUser" /\ c.doc = d
  <2>1. CASE r.op = "verify" /\ users[r.u].emailVerified
    <3>1. PICK c : c = [r EXCEPT !.pc = "markUsed"]
      OBVIOUS
    <3>2. req' = [req EXCEPT ![w] = c]
      BY <1>1, <2>1, <3>1 DEF ReadUser, IInv, TypeOK
    <3>3. c \in Request /\ c.pc = "markUsed" /\ c.op = r.op /\ c.u = r.u /\ c.t = r.t
      BY <3>1 DEF Request, PCs
    <3> QED BY <2>1, <3>2, <3>3
  <2>2. CASE ~(r.op = "verify" /\ users[r.u].emailVerified)
    <3>1. PICK c : c = [r EXCEPT !.pc = "writeUser", !.doc = d]
      OBVIOUS
    <3>2. req' = [req EXCEPT ![w] = c]
      BY <1>1, <1>4, <2>2, <3>1 DEF ReadUser, IInv, TypeOK
    <3>3. /\ c \in Request /\ c.pc = "writeUser" /\ c.op = r.op /\ c.u = r.u /\ c.t = r.t
          /\ c.doc = d
      BY <3>1 DEF Request, PCs
    <3> QED BY <2>2, <3>2, <3>3
  <2> QED BY <2>1, <2>2
<1>7. Serial(c)
  <2>1. r.op = "reset" => r.t # 0
    BY <1>1 DEF Fits, ResetIds
  <2> QED BY <1>1, <1>2, <1>5, <1>6, <2>1 DEF Serial, KycOps
<1>8. UNCHANGED <<database, sessions, adminEmails, sending, restarts, failures, history>>
  BY DEF ReadUser
<1>9. Serial(c)'
  BY <1>7, <1>8 DEF Serial
<1>10. \A v \in Requests : v # w => req[v].pc = "idle"
  BY <1>1, Alone
<1>11. /\ OneAtATime' /\ RequestsSerial'
       /\ \A t : ~ \E v \in Requests : Marking(v, t)
       /\ \A u : (\E v \in Requests : Reviewing(v, u)) => Reviewing(w, u)'
  <2>1. \A t : (\E v \in Requests : Marking(v, t)) => Marking(w, t)
    BY <1>6, <1>9, <1>10, OneMoves
  <2>2. \A u : (\E v \in Requests : Reviewing(v, u)) => Reviewing(w, u)
    BY <1>6, <1>9, <1>10, OneMoves
  <2>3. \A u : c.u = u /\ c.pc \in {"readUser", "writeUser"} /\ c.op \in KycOps => Reviewing(w, u)'
    BY <1>6, <1>9, <1>10, OneMoves
  <2>4. OneAtATime' /\ RequestsSerial'
    BY <1>6, <1>9, <1>10, OneMoves
  <2> QED BY <1>1, <1>6, <2>1, <2>2, <2>3, <2>4 DEF Marking, Reviewing, KycOps
<1>12. SpentTokensStick'
  BY <1>8 DEF SInv, SpentTokensStick
<1>13. ASSUME Undisturbed' PROVE WritesAreCounted' /\ KycAgrees'
  <2>1. WritesAreCounted /\ KycAgrees
    BY <1>8, <1>13 DEF Undisturbed, SInv
  <2>2. WritesAreCounted'
    BY <1>8, <1>11, <2>1 DEF WritesAreCounted
  <2>3. KycAgrees'
    BY <1>8, <1>11, <2>1 DEF KycAgrees, Exists, Matches
  <2> QED BY <2>2, <2>3
<1> QED BY <1>11, <1>12, <1>13 DEF SInv

LEMMA WriteUserSerial ==
  ASSUME ~Overlapping, IInv, SInv, NEW w \in Requests, WriteUser(w) PROVE SInv'
<1>1. PICK r \in Request : r = req[w] /\ Fits(r) /\ Serial(r) /\ r.pc = "writeUser"
  BY DEF IInv, TypeOK, RequestsFit, SInv, RequestsSerial, WriteUser, At
<1>2. PICK u \in Users, d \in UserDoc : u = r.u /\ d = r.doc /\ Exists(u) /\ d # NoUser
  BY <1>1, AccountsAssumption DEF Fits, AccountsAssumption
<1>3. /\ users' = [users EXCEPT ![u] = d]
      /\ resetWrites' = IF r.op = "reset" THEN [resetWrites EXCEPT ![r.t] = @ + 1] ELSE resetWrites
      /\ UNCHANGED <<resets, verifications, subs, adminEmails, sending, restarts, failures,
                     listed, approvals>>
  BY <1>1, <1>2 DEF WriteUser
<1>4. users'[u] = d /\ \A v \in Users : v # u => users'[v] = users[v]
  BY <1>3 DEF IInv, TypeOK
<1>5. /\ users[u].emailVerified \/ r.op = "verify" => d.emailVerified
      /\ users[u].password # 0 \/ r.op = "reset" => d.password # 0
      /\ r.op = "login" => u \in listed
      /\ r.op \in KycOps => d.kyc = Verdict(r.op) /\ subs[r.t] = [user |-> u, status |-> Verdict(r.op)]
      /\ r.op \notin KycOps \cup {"login"} => d.kyc = users[u].kyc
  BY <1>1, <1>2 DEF Serial
<1>6. PICK c \in Request :
        /\ req' = [req EXCEPT ![w] = c]
        /\ \/ c = Idle /\ r.op \notin {"verify", "reset"}
           \/ c.pc = "markUsed" /\ c.op = r.op /\ c.u = u /\ c.t = r.t /\ r.op \in {"verify", "reset"}
  <2>1. CASE r.op \in {"verify", "reset"}
    <3>1. PICK c : c = [r EXCEPT !.pc = "markUsed"]
      OBVIOUS
    <3>2. req' = [req EXCEPT ![w] = c]
      BY <1>1, <2>1, <3>1 DEF WriteUser, IInv, TypeOK
    <3>3. c \in Request /\ c.pc = "markUsed" /\ c.op = r.op /\ c.u = r.u /\ c.t = r.t
      BY <3>1 DEF Request, PCs
    <3> QED BY <1>2, <2>1, <3>2, <3>3
  <2>2. CASE r.op \notin {"verify", "reset"}
    <3>1. req' = [req EXCEPT ![w] = Idle]
      BY <1>1, <2>2 DEF WriteUser, Finish
    <3> QED BY <2>2, <3>1, IdleFits
  <2> QED BY <2>1, <2>2
<1>7. Serial(c)'
  <2>1. CASE c = Idle
    <3>1. c.pc = "idle" /\ c.op = ""
      BY <2>1 DEF Idle
    <3> QED BY <3>1, IdleSerial
  <2>2. CASE c.pc = "markUsed" /\ c.op = r.op /\ c.u = u /\ c.t = r.t
    BY <1>1, <1>3, <1>4, <1>5, <2>2 DEF Serial
  <2> QED BY <1>6, <2>1, <2>2
<1>8. \A v \in Requests : v # w => req[v].pc = "idle"
  BY <1>1, Alone
<1>9. OneAtATime' /\ RequestsSerial'
  BY <1>6, <1>7, <1>8, OneMoves
<1>10. SpentTokensStick'
  <2>1. ASSUME NEW t \in VerifyIds, verifications[t] # NoToken, verifications[t].used
        PROVE  users'[verifications[t].user].emailVerified
    <3>1. /\ verifications[t].user \in Users
          /\ users[verifications[t].user].emailVerified
      BY <2>1 DEF SInv, SpentTokensStick, IInv, TypeOK, TokenDoc
    <3> QED BY <1>4, <1>5, <3>1
  <2>2. ASSUME NEW t \in ResetIds, resets[t] # NoToken, resets[t].used
        PROVE  users'[resets[t].user].password # 0
    <3>1. /\ resets[t].user \in Users
          /\ users[resets[t].user].password # 0
      BY <2>2 DEF SInv, SpentTokensStick, IInv, TypeOK, TokenDoc
    <3> QED BY <1>4, <1>5, <3>1
  <2> QED BY <1>3, <2>1, <2>2 DEF SpentTokensStick
<1>11. ASSUME Undisturbed' PROVE WritesAreCounted' /\ KycAgrees'
  <2>1. WritesAreCounted /\ KycAgrees
    BY <1>3, <1>11 DEF Undisturbed, SInv
  <2>2. \A t : ~ \E v \in Requests : Marking(v, t)
    BY <1>1, <1>8 DEF Marking
  <2>3. WritesAreCounted'
    <3> SUFFICES ASSUME NEW t \in ResetIds
                 PROVE  /\ resetWrites'[t] \in {0, 1}
                        /\ resetWrites'[t] = 1 => \/ resets[t] # NoToken /\ resets[t].used
                                                  \/ \E v \in Requests : Marking(v, t)'
      BY <1>3 DEF WritesAreCounted
    <3>1. /\ resetWrites[t] \in {0, 1}
          /\ resetWrites[t] = 1 => resets[t] # NoToken /\ resets[t].used
      BY <2>1, <2>2 DEF WritesAreCounted
    <3>2. CASE r.op = "reset" /\ t = r.t
      <4>1. resetWrites[t] = 0
        BY <1>1, <3>1, <3>2 DEF Serial
      <4>2. resetWrites'[t] = 1
        BY <1>3, <3>2, <4>1 DEF IInv, TypeOK
      <4>3. c.pc = "markUsed" /\ c.op = "reset" /\ c.t = t
        BY <1>6, <3>2
      <4>4. Marking(w, t)'
        BY <1>6, <1>7, <1>8, <4>3, OneMoves
      <4> QED BY <4>2, <4>4
    <3>3. CASE ~(r.op = "reset" /\ t = r.t)
      <4>1. resetWrites'[t] = resetWrites[t]
        BY <1>3, <3>3 DEF IInv, TypeOK
      <4> QED BY <3>1, <4>1
    <3> QED BY <3>2, <3>3
  <2>4. KycAgrees'
    <3> SUFFICES ASSUME NEW v \in Users \ listed, Exists(v)' PROVE Matches(v)'
      BY <1>3 DEF KycAgrees
    <3>1. Exists(v)
      BY <1>2, <1>4 DEF Exists
    <3>2. CASE v # u
      <4>1. ~ \E x \in Requests : Reviewing(x, v)
        BY <1>1, <1>2, <1>8, <3>2 DEF Reviewing
      <4>2. Matches(v)
        BY <2>1, <3>1, <4>1 DEF KycAgrees
      <4> QED BY <1>3, <1>4, <3>2, <4>2 DEF Matches
    <3>3. CASE v = u /\ r.op \in KycOps
      <4>1. /\ Verdict(r.op) \in {"pending", "verified", "rejected"} /\ r.t \in SubIds
        BY <1>1, <3>3 DEF Verdict, KycOps, Fits
      <4>2. users'[v].kyc = Verdict(r.op) /\ subs'[r.t] = [user |-> v, status |-> Verdict(r.op)]
        BY <1>3, <1>4, <1>5, <3>3
      <4> QED BY <4>1, <4>2 DEF Matches
    <3>4. CASE v = u /\ r.op \notin KycOps
      <4>1. users'[v].kyc = users[v].kyc
        BY <1>4, <1>5, <3>4
      <4>2. ~ \E x \in Requests : Reviewing(x, v)
        BY <1>1, <1>8, <3>4 DEF Reviewing
      <4>3. Matches(v)
        BY <2>1, <3>1, <4>2 DEF KycAgrees
      <4> QED BY <1>3, <4>1, <4>3 DEF Matches
    <3> QED BY <3>2, <3>3, <3>4
  <2> QED BY <2>3, <2>4
<1> QED BY <1>9, <1>10, <1>11 DEF SInv

LEMMA MarkUsedSerial ==
  ASSUME ~Overlapping, IInv, SInv, NEW w \in Requests, MarkUsed(w) PROVE SInv'
<1>1. PICK r \in Request : r = req[w] /\ Fits(r) /\ Serial(r) /\ r.pc = "markUsed"
  BY DEF IInv, TypeOK, RequestsFit, SInv, RequestsSerial, MarkUsed, At
<1>2. /\ UNCHANGED <<users, subs, sessions, adminEmails, sending, restarts, failures, history>>
      /\ req' = [req EXCEPT ![w] = Idle]
  BY DEF MarkUsed, Finish
<1>3. \/ /\ r.op = "reset" /\ UNCHANGED verifications
         /\ resets' = [resets EXCEPT ![r.t].used = TRUE]
      \/ /\ r.op = "verify" /\ UNCHANGED resets
         /\ verifications' = [verifications EXCEPT ![r.t].used = TRUE]
  BY <1>1 DEF MarkUsed, Fits, OpsAt
<1>4. \A t \in ResetIds :
        IF r.op = "reset" /\ t = r.t
        THEN resets[t] # NoToken /\ resets'[t] # NoToken /\ resets'[t].user = r.u /\ resets'[t].used
        ELSE resets'[t] = resets[t]
  <2>1. CASE r.op = "reset"
    <3>1. r.t \in ResetIds /\ resets[r.t] # NoToken /\ resets[r.t].user = r.u
      BY <1>1, <2>1 DEF Fits
    <3>2. resets[r.t] \in TokenDoc
      BY <3>1 DEF IInv, TypeOK
    <3>3. PICK d : d = [resets[r.t] EXCEPT !.used = TRUE]
      OBVIOUS
    <3>4. d \in TokenDoc /\ d.user = r.u /\ d.used = TRUE
      BY <3>1, <3>2, <3>3 DEF TokenDoc
    <3>5. resets'[r.t] = d /\ \A t \in ResetIds : t # r.t => resets'[t] = resets[t]
      BY <1>3, <2>1, <3>1, <3>3 DEF IInv, TypeOK
    <3> QED BY <2>1, <3>1, <3>4, <3>5, AccountsAssumption DEF AccountsAssumption
  <2> QED BY <1>3, <2>1
<1>5. \A t \in VerifyIds :
        \/ verifications'[t] = verifications[t]
        \/ r.op = "verify" /\ verifications'[t].user = r.u
  <2>1. CASE r.op = "verify"
    <3>1. r.t \in VerifyIds /\ verifications[r.t] # NoToken /\ verifications[r.t].user = r.u
      BY <1>1, <2>1 DEF Fits
    <3>2. verifications[r.t] \in TokenDoc
      BY <3>1 DEF IInv, TypeOK
    <3>3. PICK d : d = [verifications[r.t] EXCEPT !.used = TRUE]
      OBVIOUS
    <3>4. d.user = r.u
      BY <3>1, <3>2, <3>3 DEF TokenDoc
    <3>5. /\ verifications'[r.t] = d
          /\ \A t \in VerifyIds : t # r.t => verifications'[t] = verifications[t]
      BY <1>3, <2>1, <3>1, <3>3 DEF IInv, TypeOK
    <3> QED BY <2>1, <3>4, <3>5
  <2> QED BY <1>3, <2>1
<1>6. SpentTokensStick'
  <2>1. \A t \in VerifyIds : verifications'[t] # NoToken /\ verifications'[t].used =>
          users[verifications'[t].user].emailVerified
    BY <1>1, <1>5 DEF SInv, SpentTokensStick, Serial
  <2>2. \A t \in ResetIds : resets'[t] # NoToken /\ resets'[t].used =>
          users[resets'[t].user].password # 0
    BY <1>1, <1>4 DEF SInv, SpentTokensStick, Serial
  <2> QED BY <1>2, <2>1, <2>2 DEF SpentTokensStick
<1>7. \A v \in Requests : v # w => req[v].pc = "idle"
  BY <1>1, Alone
<1>8. Serial(Idle)'
  BY IdleFits, IdleSerial DEF Idle
<1>9. OneAtATime' /\ RequestsSerial'
  BY <1>2, <1>7, <1>8, IdleFits, OneMoves
<1>10. ASSUME Undisturbed' PROVE WritesAreCounted' /\ KycAgrees'
  <2>1. WritesAreCounted /\ KycAgrees
    BY <1>2, <1>10 DEF Undisturbed, SInv
  <2>2. \A t \in ResetIds : (\E v \in Requests : Marking(v, t)) => r.op = "reset" /\ t = r.t
    BY <1>1, <1>7 DEF Marking
  <2>3. WritesAreCounted'
    <3> SUFFICES ASSUME NEW t \in ResetIds
                 PROVE  /\ resetWrites[t] \in {0, 1}
                        /\ resetWrites[t] = 1 => resets'[t] # NoToken /\ resets'[t].used
      BY <1>2 DEF WritesAreCounted, history
    <3> QED BY <1>4, <2>1, <2>2 DEF WritesAreCounted
  <2>4. KycAgrees'
    <3>1. \A u : ~ \E v \in Requests : Reviewing(v, u)
      BY <1>1, <1>7 DEF Reviewing
    <3> QED BY <1>2, <2>1, <3>1 DEF KycAgrees, Exists, Matches, history
  <2> QED BY <2>3, <2>4
<1> QED BY <1>6, <1>9, <1>10 DEF SInv

(* Submit and Review write submission s of user u and go on to readUser.    *)
LEMMA SubSerial ==
  ASSUME ~Overlapping, IInv, SInv, NEW w \in Requests, MayStart(w) \/ req[w].pc = "writeSub",
         NEW s \in SubIds, NEW d \in SubDoc, subs[s] # NoSub => subs[s].user = d.user,
         NEW r \in Request, subs' = [subs EXCEPT ![s] = d], req' = [req EXCEPT ![w] = r],
         r.pc = "readUser", r.op \in KycOps, r.u = d.user, r.t = s, d.status = Verdict(r.op),
         UNCHANGED <<users, resets, verifications, restarts, failures, listed, resetWrites>>
  PROVE  SInv'
<1>1. /\ \A v \in Requests : v # w => req[v].pc = "idle"
      /\ req[w].pc \in {"idle", "writeSub"}
  BY Alone
<1>2. subs'[s] = d /\ \A i \in SubIds : i # s => subs'[i] = subs[i]
  BY DEF IInv, TypeOK
<1>3. Serial(r)'
  <2>1. d = [user |-> r.u, status |-> Verdict(r.op)]
    BY DEF SubDoc
  <2> QED BY <1>2, <2>1 DEF Serial, KycOps
<1>4. OneAtATime' /\ RequestsSerial'
  BY <1>1, <1>3, OneMoves
<1>5. SpentTokensStick'
  BY DEF SInv, SpentTokensStick
<1>6. ASSUME Undisturbed' PROVE WritesAreCounted' /\ KycAgrees'
  <2>1. WritesAreCounted /\ KycAgrees
    BY <1>6 DEF Undisturbed, SInv
  <2>2. WritesAreCounted'
    BY <1>1, <2>1 DEF WritesAreCounted, Marking
  <2>3. KycAgrees'
    <3> SUFFICES ASSUME NEW u \in Users \ listed, Exists(u)
                 PROVE  Matches(u)' \/ \E v \in Requests : Reviewing(v, u)'
      BY DEF KycAgrees, Exists
    <3>1. CASE u = d.user
      <4>1. Reviewing(w, u)'
        BY <1>1, <1>3, <3>1, OneMoves
      <4> QED BY <4>1
    <3>2. CASE u # d.user
      <4>1. Matches(u)
        BY <1>1, <2>1 DEF KycAgrees, Reviewing
      <4>2. \A i \in SubIds : subs[i] # NoSub /\ subs[i].user = u => i # s
        BY <3>2
      <4>3. CASE users[u].kyc = "unverified"
        <5>1. \A i \in SubIds : subs'[i] # NoSub => subs'[i].user # u
          BY <1>2, <3>2, <4>1, <4>3 DEF Matches
        <5> QED BY <4>3, <5>1 DEF Matches
      <4>4. CASE users[u].kyc # "unverified"
        <5>1. PICK i \in SubIds : subs[i] = [user |-> u, status |-> users[u].kyc]
          BY <4>1, <4>4 DEF Matches
        <5>2. subs[i] # NoSub
          <6>1. users[u].kyc \in {"pending", "verified", "rejected"}
            BY <4>4, ReadDoc DEF UserDoc, KYCStatuses
          <6> QED BY <5>1, <6>1, AccountsAssumption DEF AccountsAssumption, SubDoc
        <5>3. subs[i].user = u
          BY <5>1
        <5>4. subs'[i] = subs[i]
          BY <1>2, <4>2, <5>2, <5>3
        <5> QED BY <4>4, <5>1, <5>4 DEF Matches
      <4> QED BY <4>3, <4>4
    <3> QED BY <3>1, <3>2
  <2> QED BY <2>2, <2>3
<1> QED BY <1>4, <1>5, <1>6 DEF SInv

LEMMA SubmitSerial ==
  ASSUME ~Overlapping, IInv, SInv, NEW w \in Requests, NEW u \in Users, Submit(w, u) PROVE SInv'
<1>1. PICK s \in FirstFree(SubIds, subs, NoSub) :
        /\ subs' = [subs EXCEPT ![s] = [user |-> u, status |-> "pending"]]
        /\ Start(w, "submit", "readUser", u, NoUser, s)
  BY DEF Submit
<1>2. s \in SubIds /\ subs[s] = NoSub
  BY <1>1, FirstFreeIsFree
<1>3. PICK d \in SubDoc : d = [user |-> u, status |-> "pending"]
  BY DEF SubDoc
<1>4. PICK r \in Request : r = [pc |-> "readUser", op |-> "submit", u |-> u, doc |-> NoUser, t |-> s]
  <2>1. s \in Nat
    BY <1>2 DEF SubIds
  <2> QED BY <2>1 DEF Request, PCs, Ops
<1>5. /\ d.user = u /\ d.status = Verdict(r.op)
      /\ r.pc = "readUser" /\ r.op \in KycOps /\ r.u = u /\ r.t = s
      /\ subs' = [subs EXCEPT ![s] = d] /\ req' = [req EXCEPT ![w] = r]
  BY <1>1, <1>3, <1>4 DEF Start, KycOps, Verdict
<1>6. /\ MayStart(w)
      /\ UNCHANGED <<users, resets, verifications, restarts, failures, listed, resetWrites>>
  BY DEF Submit, history
<1> QED BY <1>2, <1>5, <1>6, SubSerial

LEMMA WriteSubSerial ==
  ASSUME ~Overlapping, IInv, SInv, NEW w \in Requests, WriteSub(w) PROVE SInv'
<1>1. PICK r \in Request : r = req[w] /\ Fits(r) /\ r.pc = "writeSub"
  BY DEF IInv, TypeOK, RequestsFit, WriteSub, At
<1>2. /\ r.op \in {"approve", "reject"} /\ r.t \in SubIds /\ subs[r.t] # NoSub
      /\ subs[r.t].user = r.u
  BY <1>1 DEF Fits, OpsAt
<1>3. /\ subs' = [subs EXCEPT ![r.t].status = Verdict(r.op)]
      /\ req' = [req EXCEPT ![w].pc = "readUser"]
      /\ UNCHANGED <<users, resets, verifications, restarts, failures, listed, resetWrites>>
  BY <1>1, <1>2 DEF WriteSub, Verdict
<1>4. subs[r.t] \in SubDoc /\ Verdict(r.op) \in {"verified", "rejected"}
  BY <1>2 DEF IInv, TypeOK, Verdict
<1>5. PICK d : d = [subs[r.t] EXCEPT !.status = Verdict(r.op)]
  OBVIOUS
<1>6. d \in SubDoc /\ d.user = subs[r.t].user /\ d.status = Verdict(r.op)
  BY <1>4, <1>5 DEF SubDoc
<1>7. PICK c : c = [r EXCEPT !.pc = "readUser"]
  OBVIOUS
<1>8. c \in Request /\ c.pc = "readUser" /\ c.op = r.op /\ c.u = r.u /\ c.t = r.t
  BY <1>7 DEF Request, PCs
<1>9. subs' = [subs EXCEPT ![r.t] = d] /\ req' = [req EXCEPT ![w] = c]
  BY <1>1, <1>2, <1>3, <1>5, <1>7 DEF IInv, TypeOK
<1>10. c.op \in KycOps /\ d.status = Verdict(c.op) /\ c.u = d.user /\ req[w].pc = "writeSub"
  BY <1>1, <1>2, <1>6, <1>8 DEF KycOps
<1> QED BY <1>2, <1>3, <1>6, <1>8, <1>9, <1>10, SubSerial

-----------------------------------------------------------------------------
(* Accounts and tokens that are added, and tokens that run out *)

(* A new account has no token and no submission yet.                        *)
LEMMA RegisterSerial ==
  ASSUME ~Overlapping, IInv, SInv, NEW w \in Requests, NEW u \in Users, NEW p \in Profiles,
         Register(w, u, p)
  PROVE  SInv'
<1>1. /\ MayStart(w) /\ ~Exists(u)
      /\ UNCHANGED <<resets, verifications, subs, adminEmails, req, restarts, failures,
                     listed, resetWrites>>
  BY DEF Register, history
<1>2. \A v \in Users : v # u => users'[v] = users[v]
  BY DEF Register, IInv, TypeOK
<1>3. u \notin listed => users'[u].kyc = "unverified"
  <2>1. RoleFor(u) = "admin" => u \in listed
    BY SessionOwner
  <2> DEFINE d == [role |-> RoleFor(u),
                   kyc |-> IF RoleFor(u) = "admin" THEN "verified" ELSE "unverified",
                   disabled |-> FALSE, emailVerified |-> RoleFor(u) = "admin", password |-> 0,
                   profile |-> p]
  <2>2. users' = [users EXCEPT ![u] = d]
    BY DEF Register, NewUser
  <2>3. RoleFor(u) # "admin" => d.kyc = "unverified"
    OBVIOUS
  <2> HIDE DEF d
  <2> QED BY <2>1, <2>2, <2>3 DEF IInv, TypeOK
<1>4. \A v \in Requests : req[v].pc = "idle"
  BY <1>1, Alone
<1>5. OneAtATime' /\ RequestsSerial'
  <2>1. OneAtATime'
    BY <1>1 DEF SInv, OneAtATime
  <2>2. ASSUME NEW v \in Requests PROVE Serial(req[v])'
    <3>1. PICK c \in Request : c = req[v] /\ c = req'[v] /\ c.pc = "idle" /\ c.op = ""
      BY <1>1, <1>4, IdleRequests DEF IInv, TypeOK
    <3>2. Serial(c)'
      BY <3>1, IdleSerial
    <3> QED BY <3>1, <3>2 DEF Serial
  <2> QED BY <2>1, <2>2 DEF RequestsSerial
<1>6. SpentTokensStick'
  <2>1. \A t \in VerifyIds : verifications[t] # NoToken =>
          verifications[t].user \in Users /\ verifications[t].user # u
    BY <1>1 DEF IInv, TypeOK, TokenDoc, OwnersExist
  <2>2. \A t \in ResetIds : resets[t] # NoToken => resets[t].user \in Users /\ resets[t].user # u
    BY <1>1 DEF IInv, TypeOK, TokenDoc, OwnersExist
  <2> QED BY <1>1, <1>2, <2>1, <2>2 DEF SInv, SpentTokensStick
<1>7. ASSUME Undisturbed' PROVE WritesAreCounted' /\ KycAgrees'
  <2>1. WritesAreCounted /\ KycAgrees
    BY <1>1, <1>7 DEF Undisturbed, SInv
  <2>2. WritesAreCounted'
    BY <1>1, <1>4, <2>1 DEF WritesAreCounted, Marking
  <2>3. KycAgrees'
    <3> SUFFICES ASSUME NEW v \in Users \ listed, Exists(v)' PROVE Matches(v)'
      BY <1>1 DEF KycAgrees
    <3>1. CASE v = u
      <4>1. \A s \in SubIds : subs[s] # NoSub => subs[s].user # u
        BY <1>1 DEF IInv, OwnersExist
      <4> QED BY <1>1, <1>3, <3>1, <4>1 DEF Matches
    <3>2. CASE v # u
      <4>1. Exists(v)
        BY <1>2, <3>2 DEF Exists
      <4>2. Matches(v)
        BY <1>4, <2>1, <4>1 DEF KycAgrees, Reviewing
      <4> QED BY <1>1, <1>2, <3>2, <4>2 DEF Matches
    <3> QED BY <3>1, <3>2
  <2> QED BY <2>2, <2>3
<1> QED BY <1>5, <1>6, <1>7 DEF SInv

(* Steps that issue a token, or let one run out, set no used flag.          *)
LEMMA TokensSerial ==
  ASSUME IInv, SInv, UNCHANGED <<users, subs, req, restarts, listed, resetWrites>>,
         failures' \in Nat, failures \in Nat, failures <= failures',
         \A t \in ResetIds : \/ resets'[t] = resets[t]
                             \/ resets[t] = NoToken /\ ~resets'[t].used
                             \/ /\ resets'[t].user = resets[t].user
                                /\ resets'[t].used = resets[t].used
                                /\ resets[t] # NoToken /\ resets'[t] # NoToken,
         \A t \in VerifyIds : \/ verifications'[t] = verifications[t]
                              \/ verifications[t] = NoToken /\ ~verifications'[t].used
                              \/ /\ verifications'[t].user = verifications[t].user
                                 /\ verifications'[t].used = verifications[t].used
                                 /\ verifications[t] # NoToken
  PROVE  SInv'
<1>1. OneAtATime' /\ SpentTokensStick'
  BY DEF SInv, OneAtATime, SpentTokensStick
<1>2. ASSUME NEW v \in Requests PROVE Serial(req[v])'
  <2>1. PICK r \in Request : r = req[v] /\ r = req'[v] /\ Serial(r) /\ Fits(r)
    BY DEF IInv, TypeOK, SInv, RequestsSerial, RequestsFit
  <2>2. r.op = "reset" => ~resets'[r.t].used
    BY <2>1 DEF Serial, Fits
  <2>3. Serial(r)'
    BY <2>1, <2>2 DEF Serial
  <2> QED BY <2>1, <2>3 DEF Serial
<1>3. ASSUME Undisturbed' PROVE WritesAreCounted' /\ KycAgrees'
  <2>1. WritesAreCounted /\ KycAgrees
    BY <1>3 DEF Undisturbed, SInv
  <2>2. WritesAreCounted'
    BY <2>1 DEF WritesAreCounted, Marking
  <2>3. KycAgrees'
    BY <2>1 DEF KycAgrees, Exists, Matches, Reviewing
  <2> QED BY <2>2, <2>3
<1> QED BY <1>1, <1>2, <1>3 DEF SInv, RequestsSerial

LEMMA TokenStepsSerial ==
  ASSUME IInv, SInv, IInv'
  PROVE  /\ \A w \in Requests, u \in Users : RequestPasswordReset(w, u) => SInv'
         /\ \A u \in Users : SendVerificationEmail(u) => SInv'
         /\ \A t \in ResetIds : ExpireReset(t) => SInv'
         /\ \A t \in VerifyIds : ExpireVerification(t) => SInv'
<1> USE DEF history
<1>0. failures \in Nat /\ failures' \in Nat
  BY DEF IInv, TypeOK
<1>1. ASSUME NEW w \in Requests, NEW u \in Users, RequestPasswordReset(w, u) PROVE SInv'
  <2>1. PICK t \in FirstFree(ResetIds, resets, NoToken) : resets' = [resets EXCEPT ![t] = NewToken(u)]
    BY <1>1 DEF RequestPasswordReset
  <2>2. t \in ResetIds /\ resets[t] = NoToken
    BY <2>1, FirstFreeIsFree
  <2>3. \A s \in ResetIds : \/ resets'[s] = resets[s]
                            \/ resets[s] = NoToken /\ ~resets'[s].used
    BY <2>1, <2>2, NewTokenDoc DEF IInv, TypeOK
  <2>4. UNCHANGED <<users, subs, verifications, req, restarts, failures, listed, resetWrites>>
    BY <1>1 DEF RequestPasswordReset
  <2> QED BY <1>0, <2>3, <2>4, TokensSerial
<1>2. ASSUME NEW u \in Users, SendVerificationEmail(u) PROVE SInv'
  <2>1. /\ UNCHANGED <<users, subs, resets, req, restarts, listed, resetWrites>>
        /\ failures <= failures'
    BY <1>0, <1>2 DEF SendVerificationEmail
  <2>2. \A s \in VerifyIds : \/ verifications'[s] = verifications[s]
                             \/ verifications[s] = NoToken /\ ~verifications'[s].used
    <3>1. CASE UNCHANGED verifications
      BY <3>1
    <3>2. ASSUME NEW t \in FirstFree(VerifyIds, verifications, NoToken),
                 verifications' = [verifications EXCEPT ![t] = NewToken(u)]
          PROVE  \A s \in VerifyIds : \/ verifications'[s] = verifications[s]
                                      \/ verifications[s] = NoToken /\ ~verifications'[s].used
      <4>1. t \in VerifyIds /\ verifications[t] = NoToken
        BY FirstFreeIsFree
      <4> QED BY <3>2, <4>1, NewTokenDoc DEF IInv, TypeOK
    <3> QED BY <1>2, <3>1, <3>2 DEF SendVerificationEmail
  <2> QED BY <1>0, <2>1, <2>2, TokensSerial
<1>3. ASSUME NEW t \in ResetIds, ExpireReset(t) PROVE SInv'
  <2>1. resets[t] \in TokenDoc /\ resets[t] # NoToken
    BY <1>3 DEF IInv, TypeOK, ExpireReset
  <2>2. PICK d : d = [resets[t] EXCEPT !.expired = TRUE]
    OBVIOUS
  <2>3. d \in TokenDoc /\ d.user = resets[t].user /\ d.used = resets[t].used /\ d # NoToken
    BY <2>1, <2>2, AccountsAssumption DEF TokenDoc, AccountsAssumption
  <2>4. resets'[t] = d /\ \A s \in ResetIds : s # t => resets'[s] = resets[s]
    BY <1>3, <2>2 DEF ExpireReset, IInv, TypeOK
  <2>5. \A s \in ResetIds : \/ resets'[s] = resets[s]
                            \/ /\ resets'[s].user = resets[s].user
                               /\ resets'[s].used = resets[s].used
                               /\ resets[s] # NoToken /\ resets'[s] # NoToken
    BY <2>1, <2>3, <2>4
  <2>6. UNCHANGED <<users, subs, verifications, req, restarts, failures, listed, resetWrites>>
    BY <1>3 DEF ExpireReset
  <2> QED BY <1>0, <2>5, <2>6, TokensSerial
<1>4. ASSUME NEW t \in VerifyIds, ExpireVerification(t) PROVE SInv'
  <2>1. verifications[t] \in TokenDoc /\ verifications[t] # NoToken
    BY <1>4 DEF IInv, TypeOK, ExpireVerification
  <2>2. PICK d : d = [verifications[t] EXCEPT !.expired = TRUE]
    OBVIOUS
  <2>3. d.user = verifications[t].user /\ d.used = verifications[t].used
    BY <2>1, <2>2 DEF TokenDoc
  <2>4. /\ verifications'[t] = d
        /\ \A s \in VerifyIds : s # t => verifications'[s] = verifications[s]
    BY <1>4, <2>2 DEF ExpireVerification, IInv, TypeOK
  <2>5. \A s \in VerifyIds : \/ verifications'[s] = verifications[s]
                             \/ /\ verifications'[s].user = verifications[s].user
                                /\ verifications'[s].used = verifications[s].used
                                /\ verifications[s] # NoToken
    BY <2>1, <2>3, <2>4
  <2>6. UNCHANGED <<users, subs, resets, req, restarts, failures, listed, resetWrites>>
    BY <1>4 DEF ExpireVerification
  <2> QED BY <1>0, <2>5, <2>6, TokensSerial
<1> QED BY <1>1, <1>2, <1>3, <1>4

(* A failure or a restart leaves the documents as they are, and the rest is *)
(* promised only while neither has happened.                                *)
LEMMA CutShortSerial ==
  ASSUME ~Overlapping, IInv, SInv
  PROVE  /\ \A w \in Requests : Fail(w) => SInv'
         /\ \A emails \in SUBSET Users : Restart(emails) => SInv'
<1> USE DEF database
<1>1. ASSUME NEW w \in Requests, Fail(w) PROVE SInv'
  <2>1. /\ UNCHANGED database /\ req' = [req EXCEPT ![w] = Idle]
        /\ req[w].pc # "idle" /\ failures' = failures + 1
    BY <1>1 DEF Fail, Finish, At
  <2>2. \A v \in Requests : v # w => req[v].pc = "idle"
    BY <2>1, Alone
  <2>3. Serial(Idle)'
    BY IdleFits, IdleSerial DEF Idle
  <2>4. OneAtATime' /\ RequestsSerial'
    BY <2>1, <2>2, <2>3, IdleFits, OneMoves
  <2>5. SpentTokensStick'
    BY <2>1 DEF SInv, SpentTokensStick
  <2>6. ~Undisturbed'
    BY <2>1 DEF Undisturbed, IInv, TypeOK
  <2> QED BY <2>4, <2>5, <2>6 DEF SInv
<1>2. ASSUME NEW emails \in SUBSET Users, Restart(emails) PROVE SInv'
  <2>1. /\ UNCHANGED database /\ req' = [v \in Requests |-> Idle] /\ restarts' = restarts + 1
    BY <1>2 DEF Restart
  <2>2. Serial(Idle)'
    BY IdleFits, IdleSerial DEF Idle
  <2>3. OneAtATime' /\ RequestsSerial'
    BY <2>1, <2>2 DEF OneAtATime, RequestsSerial, Serial, Idle
  <2>4. SpentTokensStick'
    BY <2>1 DEF SInv, SpentTokensStick
  <2>5. ~Undisturbed'
    BY <2>1 DEF Undisturbed, IInv, TypeOK
  <2> QED BY <2>3, <2>4, <2>5 DEF SInv
<1> QED BY <1>1, <1>2

-----------------------------------------------------------------------------
(* The account service, one request at a time *)

LEMMA InitSInv == Init => SInv
<1> SUFFICES ASSUME Init PROVE SInv
  OBVIOUS
<1>1. Serial(Idle)
  BY IdleFits, IdleSerial DEF Idle
<1>2. OneAtATime /\ RequestsSerial
  BY <1>1 DEF Init, OneAtATime, RequestsSerial, Idle
<1>3. SpentTokensStick /\ WritesAreCounted /\ KycAgrees
  BY DEF Init, SpentTokensStick, WritesAreCounted, KycAgrees, Exists
<1> QED BY <1>2, <1>3 DEF SInv

LEMMA NextSInv ==
  ASSUME ~Overlapping, IInv, IInv', SInv, [Next]_vars
  PROVE  SInv'
<1> USE DEF database, history
<1>0. failures \in Nat /\ failures' \in Nat
  BY DEF IInv, TypeOK
<1>1. ASSUME NEW w \in Requests, NewRequest(w) PROVE SInv'
  <2>1. ASSUME NEW u \in Users,
               \/ Login(w, u) \/ RequestPasswordReset(w, u) \/ Submit(w, u)
               \/ \E p \in Profiles : Register(w, u, p) \/ UpdateProfile(w, u, p)
               \/ \E op \in {"disable", "enable"} : SetDisabled(w, u, op)
        PROVE  SInv'
    BY <2>1, StartsSerial, TokenStepsSerial, SubmitSerial, RegisterSerial
  <2>2. ASSUME NEW u \in Users, ResendVerification(w, u) PROVE SInv'
    BY <1>0, <2>2, SameSerial DEF ResendVerification
  <2>3. ASSUME NEW s \in sessions, Refresh(w, s) PROVE SInv'
    BY <1>0, <2>3, SameSerial DEF Refresh
  <2>4. ASSUME \/ \E t \in ResetIds : ResetPassword(w, t)
               \/ \E t \in VerifyIds : VerifyEmail(w, t)
               \/ \E s \in SubIds, op \in {"approve", "reject"} : Review(w, s, op)
        PROVE  SInv'
    BY <2>4, StartsSerial
  <2> QED BY <1>1, <2>1, <2>2, <2>3, <2>4 DEF NewRequest
<1>2. ASSUME NEW w \in Requests, Continue(w) \/ Fail(w) PROVE SInv'
  BY <1>2, ReadUserSerial, WriteUserSerial, WriteSubSerial, MarkUsedSerial, CutShortSerial
     DEF Continue
<1>3. ASSUME NEW u \in Users, SendVerificationEmail(u) PROVE SInv'
  BY <1>3, TokenStepsSerial
<1>4. ASSUME NEW emails \in SUBSET Users, Restart(emails) PROVE SInv'
  BY <1>4, CutShortSerial
<1>5. CASE Expiry
  <2>1. ASSUME NEW s \in sessions, ExpireSession(s) PROVE SInv'
    BY <1>0, <2>1, SameSerial DEF ExpireSession
  <2> QED BY <1>5, <2>1, TokenStepsSerial DEF Expiry
<1>6. CASE UNCHANGED vars
  BY <1>0, <1>6, SameSerial DEF vars
<1> QED BY <1>1, <1>2, <1>3, <1>4, <1>5, <1>6 DEF Next

(* The invariant of requests that do not overlap.                           *)
THEOREM SerialInvariant == ASSUME ~Overlapping PROVE Spec => []SInv
<1>1. Init => SInv
  BY InitSInv
<1>2. IInv /\ IInv' /\ SInv /\ [Next]_vars => SInv'
  BY NextSInv
<1> QED BY <1>1, <1>2, InductiveInvariant, PTL DEF Spec

(* What a spent token did stays done while requests do not overlap: a used  *)
(* verification token's owner is verified, a used reset token's owner has a *)
(* password other than the first, failures and restarts included.           *)
THEOREM SpentTokensStickSerially == ASSUME ~Overlapping PROVE Spec => []SpentTokensStick
<1>1. SInv => SpentTokensStick
  BY DEF SInv
<1> QED BY <1>1, SerialInvariant, PTL

(* A reset token sets one password while requests do not overlap and none   *)
(* is cut short (user.go's "single-use").                                   *)
THEOREM ResetTokensAreSingleUse == ASSUME ~Overlapping PROVE Spec => []ResetTokenIsSingleUse
<1>1. SInv => ResetTokenIsSingleUse
  BY DEF SInv, ResetTokenIsSingleUse, WritesAreCounted
<1> QED BY <1>1, SerialInvariant, PTL

(* Between requests that do not overlap and were not cut short, a user's    *)
(* KYC status is that of one of the user's submissions.                     *)
THEOREM KycMatchesSubmissions == ASSUME ~Overlapping PROVE Spec => []KycMatchesASubmission
<1>1. SInv => KycMatchesASubmission
  BY DEF SInv, KycMatchesASubmission, KycAgrees, Matches, Reviewing, Quiet
<1> QED BY <1>1, SerialInvariant, PTL
=============================================================================
