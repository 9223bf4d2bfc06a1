--------------------------- MODULE AccountsProperties ---------------------------
(***************************************************************************)
(* What the account handlers must guarantee.                               *)
(***************************************************************************)
EXTENDS Accounts

Quiet == \A w \in Requests : req[w].pc = "idle"
Undisturbed == failures = 0 /\ restarts = 0

-----------------------------------------------------------------------------
(* Whatever overlaps, fails or restarts: nobody comes by a privilege that   *)
(* was never given, neither in the database nor in a copy nor in a token    *)

(* The admin role, in an account or in a token, belongs to an email that has *)
(* been in ADMIN_EMAILS (roleFor).                                           *)
AdminIsListed ==
  /\ \A u \in Users : Exists(u) /\ users[u].role = "admin" => u \in listed
  /\ \A s \in sessions : s.role = "admin" => s.user \in listed

(* A verified KYC status was granted by an admin's approval of one of the    *)
(* user's own submissions, or with the admin role (Register, Login); a stale *)
(* copy can bring an old status back but cannot invent one.                  *)
KycIsBacked ==
  \A u \in Users : Exists(u) /\ users[u].kyc = "verified" =>
    u \in listed \/ \E s \in approvals : subs[s].user = u

(* An email counts as verified only for an admin or for a user to whom a     *)
(* verification token was issued.                                            *)
EmailIsBacked ==
  \A u \in Users : Exists(u) /\ users[u].emailVerified =>
    u \in listed \/ \E t \in VerifyIds : verifications[t] # NoToken /\ verifications[t].user = u

(* A password is the one chosen at registration or was set with a reset      *)
(* token of that very user.                                                  *)
PasswordIsOwn ==
  \A u \in Users : Exists(u) /\ users[u].password # 0 =>
    resets[users[u].password] # NoToken /\ resets[users[u].password].user = u

(* A reset token is marked used only after a password was written on its     *)
(* strength (ResetPassword's order of calls).  A stale copy that another     *)
(* handler writes in between may still take that password back.              *)
UsedTokenTookEffect ==
  \A t \in ResetIds : resets[t] # NoToken /\ resets[t].used => resetWrites[t] > 0

-----------------------------------------------------------------------------
(* When requests do not overlap *)

(* What a spent token did stays done: a used verification token's owner is   *)
(* verified, a used reset token's owner no longer has the password of the    *)
(* registration, failures and restarts included.                             *)
SpentTokensStick ==
  /\ \A t \in VerifyIds : verifications[t] # NoToken /\ verifications[t].used =>
       users[verifications[t].user].emailVerified
  /\ \A t \in ResetIds : resets[t] # NoToken /\ resets[t].used =>
       users[resets[t].user].password # 0

(* user.go:98: a PasswordResetToken "is single-use": while no request is cut *)
(* short, it sets one password.                                              *)
ResetTokenIsSingleUse == Undisturbed => \A t \in ResetIds : resetWrites[t] <= 1

(* Between requests, none of them cut short, the KYC status of a user  *)
(* who never was an admin agrees with one of the user's submissions: Submit  *)
(* and Review keep the two collections together.                             *)
KycMatchesASubmission ==
  Quiet /\ Undisturbed => \A u \in Users \ listed : Exists(u) =>
    IF users[u].kyc = "unverified"
    THEN \A s \in SubIds : subs[s] # NoSub => subs[s].user # u
    ELSE \E s \in SubIds : subs[s] = [user |-> u, status |-> users[u].kyc]

-----------------------------------------------------------------------------
(* A user who is disabled for good ends up without any token: Login and      *)
(* Refresh refuse, and the tokens out there expire.                          *)
DisabledLosesAccess ==
  \A u \in Users : (<>[](Exists(u) /\ users[u].disabled)) =>
                     <>[](\A s \in sessions : s.user # u)
=============================================================================
