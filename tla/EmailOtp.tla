------------------------------ MODULE EmailOtp ------------------------------
(***************************************************************************)
(* Sign-in (pipeline/auth/email_otp.py): one-time codes by e-mail, the     *)
(* bridge from a right code to a Keycloak session, the exchange of an SSO  *)
(* code and the renewal of a session.  A request runs in a thread of its   *)
(* own; the table email_otps is read once and written later, by address    *)
(* and not by code.                                                        *)
(***************************************************************************)
EXTENDS Keycloak

CONSTANTS
  SignIns,                       \* requests, each used once
  OTP_TTL_SECONDS, OTP_RESEND_COOLDOWN_SECONDS, OTP_MAX_ATTEMPTS,
  MaxTime                        \* bound: the clock stops there

ASSUME OtpAssumption ==
  /\ OTP_RESEND_COOLDOWN_SECONDS \in Nat \ {0} /\ OTP_TTL_SECONDS \in Nat
  /\ OTP_RESEND_COOLDOWN_SECONDS < OTP_TTL_SECONDS
  /\ OTP_MAX_ATTEMPTS \in Nat \ {0}
  /\ MaxTime \in Nat

VARIABLES
  now,         \* the clock
  email_otps,  \* the row of each address
  inbox,       \* the codes that were mailed to it
  sign,        \* the progress of the requests
  spent        \* the passwords a grant was asked with

otpVars == <<now, email_otps, inbox, sign, spent>>

\* A code is the request that made it; NoCode is the hash nobody's code has,
\* stored for addresses without an account, Mistyped what is nobody's code.
NoCode == "none"
Mistyped == "mistyped"

ASSUME CodesAssumption == {NoCode, Mistyped} \cap SignIns = {}

NoRow == [code |-> NoCode, expires |-> 0, attempts |-> 0, sent |-> 0, present |-> FALSE]
NoToken == claims_to_user({}, {}, {})

IdleSignIn ==
  [op |-> "send", user |-> CHOOSE u \in Users : TRUE, step |-> "idle", at |-> 0,
   code |-> NoCode, row |-> NoRow, secret |-> NoPassword, token |-> NoToken,
   granted |-> FALSE, alone |-> TRUE]

OtpInit ==
  /\ now = 0
  /\ email_otps = [u \in Users |-> NoRow]
  /\ inbox = [u \in Users |-> {}]
  /\ sign = [q \in SignIns |-> IdleSignIn]
  /\ spent = {}

SignedOff == {"ok", "refused", "error"}
Signing(q) == sign[q].step \notin SignedOff \cup {"idle"}
SigningBeside(q, u) == {p \in SignIns \ {q} : sign[p].user = u /\ Signing(p)}

Moves(q, step) == sign' = [sign EXCEPT ![q].step = step]

\* Request q begins for user u.  `alone` is remembered for the properties: it
\* had no other request of the user beside it.
Begins(q, u, fields) ==
  sign' = [p \in SignIns |->
             IF p = q
             THEN [fields EXCEPT !.user = u, !.at = now,
                                 !.alone = IF SigningBeside(q, u) = {} THEN @ ELSE FALSE]
             ELSE IF p \in SigningBeside(q, u) THEN [sign[p] EXCEPT !.alone = FALSE]
             ELSE sign[p]]

Tick ==
  /\ now < MaxTime
  /\ now' = now + 1
  /\ UNCHANGED <<email_otps, inbox, sign, spent, keycloakVars>>

(***************************************************************************)
(* send_otp: answers the same whatever happens.                            *)
(***************************************************************************)
Cooling(row) == row.present /\ now - row.sent < OTP_RESEND_COOLDOWN_SECONDS

RequestCode(q) ==
  /\ sign[q].step = "idle"
  /\ \E u \in Users :
       Begins(q, u, [IdleSignIn EXCEPT !.step = IF Cooling(email_otps[u]) THEN "ok"
                                                ELSE "lookup"])
  /\ UNCHANGED <<now, email_otps, inbox, spent, keycloakVars>>

LookupUser(q) ==
  /\ sign[q].step = "lookup"
  /\ sign' = [sign EXCEPT ![q].step = "store",
                          ![q].code = IF exists[sign[q].user] THEN q ELSE NoCode]
  /\ UNCHANGED <<now, email_otps, inbox, spent, keycloakVars>>

\* One code per address: whatever was there is overwritten.
NewRow(q) ==
  [code |-> sign[q].code, expires |-> sign[q].at + OTP_TTL_SECONDS, attempts |-> 0,
   sent |-> sign[q].at, present |-> TRUE]

\* (defect) a resend keeps the expiry of the row it overwrites
StoreCode_oldExpiry(q) ==
  LET u == sign[q].user IN
  /\ sign[q].step = "store"
  /\ email_otps' = [email_otps EXCEPT ![u] =
       IF @.present THEN [NewRow(q) EXCEPT !.expires = email_otps[u].expires] ELSE NewRow(q)]
  /\ Moves(q, IF sign[q].code = NoCode THEN "ok" ELSE "mail")
  /\ UNCHANGED <<now, inbox, spent, keycloakVars>>

StoreCode(q) ==
  /\ sign[q].step = "store"
  /\ email_otps' = [email_otps EXCEPT ![sign[q].user] = NewRow(q)]
  /\ Moves(q, IF sign[q].code = NoCode THEN "ok" ELSE "mail")
  /\ UNCHANGED <<now, inbox, spent, keycloakVars>>

Mail(q) ==
  /\ sign[q].step = "mail"
  /\ inbox' = [inbox EXCEPT ![sign[q].user] = @ \cup {sign[q].code}]
  /\ Moves(q, "ok")
  /\ UNCHANGED <<now, email_otps, spent, keycloakVars>>

\* The mail server's failure is swallowed; the code nobody knows stays.
MailFails(q) ==
  /\ sign[q].step = "mail"
  /\ Fault
  /\ Moves(q, "ok")
  /\ UNCHANGED <<now, email_otps, inbox, spent, realmVars, accountVars, password>>

(***************************************************************************)
(* verify_otp: decides by the row it reads, and then writes.  People type  *)
(* a code they were mailed, the latest or an older one, or mistype it.     *)
(***************************************************************************)
Verdict(row, code) ==
  IF ~row.present THEN "refused"
  ELSE IF now > row.expires \/ row.attempts >= OTP_MAX_ATTEMPTS THEN "drop"
  ELSE IF row.code # code THEN "count"
  ELSE "spend"

TypeCode(q) ==
  /\ sign[q].step = "idle"
  /\ \E u \in Users : \E code \in inbox[u] \cup {Mistyped} :
       Begins(q, u, [IdleSignIn EXCEPT !.op = "verify", !.code = code,
                                       !.row = email_otps[u],
                                       !.step = Verdict(email_otps[u], code)])
  /\ UNCHANGED <<now, email_otps, inbox, spent, keycloakVars>>

\* delete_email_otp and increment_email_otp_attempts go by the address.
DropRow(q) ==
  /\ sign[q].step = "drop"
  /\ email_otps' = [email_otps EXCEPT ![sign[q].user] = NoRow]
  /\ Moves(q, "refused")
  /\ UNCHANGED <<now, inbox, spent, keycloakVars>>

CountAttempt(q) ==
  LET u == sign[q].user IN
  /\ sign[q].step = "count"
  /\ email_otps' = IF email_otps[u].present THEN [email_otps EXCEPT ![u].attempts = @ + 1]
                   ELSE email_otps
  /\ Moves(q, "refused")
  /\ UNCHANGED <<now, inbox, spent, keycloakVars>>

\* (defect) the code stays until it expires
SpendCode_keeping(q) ==
  /\ sign[q].step = "spend"
  /\ Moves(q, "find")
  /\ UNCHANGED <<now, email_otps, inbox, spent, keycloakVars>>

SpendCode(q) ==
  /\ sign[q].step = "spend"
  /\ email_otps' = [email_otps EXCEPT ![sign[q].user] = NoRow]
  /\ Moves(q, "find")
  /\ UNCHANGED <<now, inbox, spent, keycloakVars>>

(***************************************************************************)
(* _mint_tokens_for_verified_email: set a random password, sign in with    *)
(* it, set another.                                                        *)
(***************************************************************************)
FindUser(q) ==
  /\ sign[q].step = "find"
  /\ Moves(q, IF exists[sign[q].user] THEN "rotate" ELSE "refused")
  /\ UNCHANGED <<now, email_otps, inbox, spent, keycloakVars>>

Rotate(q) ==
  /\ sign[q].step = "rotate"
  /\ password' = [password EXCEPT ![sign[q].user] = <<q, 1>>]
  /\ sign' = [sign EXCEPT ![q].step = "grant", ![q].secret = <<q, 1>>]
  /\ UNCHANGED <<now, email_otps, inbox, spent, realmVars, accountVars, faults>>

Accepted(q) ==
  LET u == sign[q].user IN exists[u] /\ enabled[u] /\ password[u] = sign[q].secret

Grant(q) ==
  /\ sign[q].step = "grant"
  /\ spent' = spent \cup {sign[q].secret}
  /\ sign' = [sign EXCEPT ![q].step = "again", ![q].granted = Accepted(q),
                          ![q].token = IF Accepted(q) THEN Claims(sign[q].user) ELSE NoToken]
  /\ UNCHANGED <<now, email_otps, inbox, keycloakVars>>

Answered(q) == IF sign[q].granted THEN "ok" ELSE "error"

\* (defect) no second rotation when the grant was refused
RotateAgain_granted(q) ==
  /\ sign[q].step = "again"
  /\ password' = [password EXCEPT ![sign[q].user] = IF sign[q].granted THEN <<q, 2>> ELSE @]
  /\ Moves(q, Answered(q))
  /\ UNCHANGED <<now, email_otps, inbox, spent, realmVars, accountVars, faults>>

RotateAgain(q) ==
  /\ sign[q].step = "again"
  /\ password' = [password EXCEPT ![sign[q].user] = <<q, 2>>]
  /\ Moves(q, Answered(q))
  /\ UNCHANGED <<now, email_otps, inbox, spent, realmVars, accountVars, faults>>

\* A failure of the second rotation is logged; the session is kept.
RotationFails(q) ==
  /\ sign[q].step = "again"
  /\ Fault
  /\ Moves(q, Answered(q))
  /\ UNCHANGED <<now, email_otps, inbox, spent, realmVars, accountVars, password>>

SignInFails(q) ==
  /\ sign[q].step \in {"lookup", "store", "drop", "count", "spend", "find", "rotate", "grant"}
  /\ Fault
  /\ Moves(q, "error")
  /\ UNCHANGED <<now, email_otps, inbox, spent, realmVars, accountVars, password>>

(***************************************************************************)
(* exchange_authorization_code and refresh_tokens: one call to the token   *)
(* endpoint.  A code that was used before is refused, and so is a session  *)
(* whose account was disabled.                                             *)
(***************************************************************************)
Session(q, u, op) ==
  LET fields == [IdleSignIn EXCEPT !.op = op] IN
  IF exists[u] /\ enabled[u]
  THEN Begins(q, u, [fields EXCEPT !.step = "ok", !.granted = TRUE, !.token = Claims(u)])
  ELSE Begins(q, u, [fields EXCEPT !.step = "refused"])

ExchangeCode(q) ==
  /\ sign[q].step = "idle"
  /\ \E u \in Users : Session(q, u, "sso")
  /\ UNCHANGED <<now, email_otps, inbox, spent, keycloakVars>>

Refresh(q) ==
  /\ sign[q].step = "idle"
  /\ \E p \in SignIns : sign[p].step = "ok" /\ sign[p].granted /\ Session(q, sign[p].user, "refresh")
  /\ UNCHANGED <<now, email_otps, inbox, spent, keycloakVars>>

SignInStep(q) ==
  \/ RequestCode(q) \/ LookupUser(q) \/ StoreCode(q) \/ Mail(q) \/ MailFails(q)
  \/ TypeCode(q) \/ DropRow(q) \/ CountAttempt(q) \/ SpendCode(q)
  \/ FindUser(q) \/ Rotate(q) \/ Grant(q) \/ RotateAgain(q) \/ RotationFails(q)
  \/ SignInFails(q) \/ ExchangeCode(q) \/ Refresh(q)

-----------------------------------------------------------------------------
(***************************************************************************)
(* Properties.                                                             *)
(***************************************************************************)
OtpTypeOK ==
  /\ now \in 0..MaxTime
  /\ \A u \in Users :
       /\ email_otps[u].attempts \in Nat
       /\ email_otps[u].expires \in 0..MaxTime + OTP_TTL_SECONDS
       /\ inbox[u] \subseteq SignIns
       /\ password[u] \in {NoPassword} \cup (SignIns \X {1, 2})
  /\ \A q \in SignIns :
       /\ sign[q].user \in Users
       /\ sign[q].at \in 0..now
       /\ sign[q].granted => sign[q].token.roles \subseteq Roles

\* The requests of a user came one after the other, and all are done.
OneByOne(u) ==
  \A q \in SignIns : sign[q].user = u => sign[q].alone /\ ~Signing(q)

Typed(v, code) == sign[v].op = "verify" /\ sign[v].code = code
Wrongs(code) ==
  {v \in SignIns : sign[v].op = "verify" /\ sign[v].row.code = code /\ sign[v].code # code}

\* The last code a person was mailed signs in: nothing that came after it, a
\* request within the cooldown, a failed mail or a mistyped code, an older
\* code or an older row, has made it invalid before its time.
LatestCodeCounts ==
  \A u \in Users : OneByOne(u) =>
    \A q \in inbox[u] :
      /\ now =< sign[q].at + OTP_TTL_SECONDS
      /\ ~\E v \in SignIns : Typed(v, q)
      /\ Cardinality(Wrongs(q)) < OTP_MAX_ATTEMPTS
      /\ ~\E p \in SignIns : sign[p].user = u /\ sign[p].op = "send"
                               /\ sign[p].code # NoCode /\ sign[p].at > sign[q].at
      => Verdict(email_otps[u], q) = "spend"

\* A code signs in once: a second session with it takes a request that was
\* beside the first one and had read the row already.
CodeSignsInOnce ==
  \A v, w \in SignIns :
    /\ v # w /\ sign[v].op = "verify" /\ sign[w].op = "verify"
    /\ sign[v].granted /\ sign[w].granted /\ sign[v].code = sign[w].code
    => ~(sign[v].alone /\ sign[w].alone)

\* "The just-used password must not remain a live credential either way":
\* when nobody is signing in, no account has a password a grant was asked
\* with, however the requests overtook each other, unless a call failed.
SpentPasswordIsDead ==
  faults = 0 =>
    \A u \in Users :
      (\A q \in SignIns : sign[q].user = u => ~Signing(q)) => password[u] \notin spent

-----------------------------------------------------------------------------
(***************************************************************************)
(* Why the latest code counts.                                             *)
(***************************************************************************)
\* The codes a person was mailed or is about to be.
Sent(u) == inbox[u] \cup {q \in SignIns : sign[q].step = "mail" /\ sign[q].user = u}

\* Reasons for a code not to count any more: once there is one it stays.
Over(q) ==
  \/ now > sign[q].at + OTP_TTL_SECONDS
  \/ \E v \in SignIns : Typed(v, q)
  \/ Cardinality(Wrongs(q)) >= OTP_MAX_ATTEMPTS
  \/ \E p \in SignIns : sign[p].user = sign[q].user /\ sign[p].op = "send"
                          /\ sign[p].code # NoCode /\ sign[p].at > sign[q].at

\* The row is the one that was stored for this code.
RowOf(u, q) ==
  LET row == email_otps[u] IN
  /\ row.present /\ row.code = q
  /\ row.expires = sign[q].at + OTP_TTL_SECONDS /\ row.sent = sign[q].at

\* What a request of user u that is alone knows of the row, at each call.
InLine(u, v) ==
  LET r == sign[v]
      row == email_otps[u]
  IN
  /\ r.step \in {"drop", "count", "spend"} => r.row = row
  /\ r.step = "drop" => now > row.expires \/ row.attempts >= OTP_MAX_ATTEMPTS
  /\ r.step = "count" => row.code # r.code /\ row.attempts < Cardinality(Wrongs(row.code))
  /\ r.step = "spend" => row.code = r.code
  /\ r.step = "lookup" => \A q \in Sent(u) : Over(q) \/ r.at > sign[q].at
  /\ r.step = "store" => \A q \in Sent(u) : Over(q)

LatestInv ==
  \A u \in Users :
    /\ Sent(u) # {} => exists[u]
    /\ (\A q \in SignIns : sign[q].user = u /\ sign[q].step # "idle" => sign[q].alone) =>
         /\ \A q \in Sent(u) : Over(q) \/ RowOf(u, q)
         /\ email_otps[u].attempts =< Cardinality(Wrongs(email_otps[u].code))
         /\ \A v \in SignIns : sign[v].user = u => InLine(u, v)
=============================================================================
