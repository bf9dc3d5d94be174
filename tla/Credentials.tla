---------------------------- MODULE Credentials ----------------------------
(***************************************************************************)
(* One account's credentials: browser and mobile sessions, API tokens,     *)
(* pairing codes, OAuth codes and grants, and two-factor authentication    *)
(* (auth.ts, mfa.ts, oauth.ts, api-tokens.ts, credential-authorization.ts).*)
(*                                                                         *)
(* A request authenticates first and acts later: every await between the   *)
(* two is a step, so that a password reset, a disconnect or a change of    *)
(* the second factor may come in between.  A D1 batch is one step.         *)
(***************************************************************************)
EXTENDS Naturals, Sequences

CONSTANTS
  Requests,        \* requests served at the same time
  Clients,         \* OAuth clients
  CodesPerClient,  \* bound: authorization codes a client gets
  MaxPassword,     \* bound: password changes
  MaxSession,      \* bound: sessions
  MaxEnrollment,   \* bound: two-factor enrolments
  MaxRecovery,     \* bound: recovery codes
  MaxRotation,     \* bound: rows of a grant's family
  MaxStep          \* bound: 30-second steps the authenticator goes through

\* An authorization code; the grants descending from it are a family.
Codes == Clients \X (1..CodesPerClient)
ClientOf(c) == c[1]

ASSUME CredentialsAssumption ==
  /\ Requests # {} /\ Codes # {}
  /\ {CodesPerClient, MaxPassword, MaxSession, MaxEnrollment, MaxRecovery, MaxRotation,
      MaxStep} \subseteq Nat

VARIABLES
  password,    \* password_hash: how many times it was changed
  temporary,   \* must_change_password
  mfa,         \* user_mfa; gen stands for generation and secret, used for last_used_step
  recovery,    \* mfa_recovery_codes
  enrollment,  \* mfa_enrollments: at most one row a user
  sessions,
  tickets,     \* pairing_codes and api_tokens
  codes,       \* oauth_codes
  grants,      \* oauth_grants: the rows of every family, oldest first
  req,         \* the requests
  issued,      \* how many sessions, enrolments and recovery codes were ever made
  authority,   \* history: the password a code was asked for under
  spent,       \* history: proofs accepted
  respent,     \* history: proofs accepted again
  ended        \* history: families replayed, revoked or disconnected

account == <<password, temporary>>
factor == <<mfa, recovery, enrollment>>
external == <<tickets, codes, grants>>
history == <<authority, spent, respent, ended>>
vars == <<account, factor, sessions, external, req, issued, history>>

MfaOff == [on |-> FALSE, gen |-> 0, used |-> 0]
NoEnrollment == [id |-> 0, by |-> 0, under |-> 0]
TicketRow == [kind : {"pairing", "token"}, under : Nat]
\* mobile: device_platform; verified: mfa_verified; under: the password it rests on (history).
SessionRow == [id : Nat, mobile : BOOLEAN, verified : BOOLEAN, under : Nat]
GrantState == {"live", "revoked", "expired"}
Proof == [kind : {"step", "recovery"}, gen : Nat, n : Nat]
Steps == {"idle", "mfa", "session", "login", "in", "actor", "start", "enable",
          "disable", "regenerate", "setup", "exchange", "rotate", "revoke"}
\* What a request remembers of what it read.
Request == [pc : Steps, sid : Nat, temp : BOOLEAN, pw : Nat, used : Nat, proof : Proof,
            fam : Codes, row : Nat]
Nothing == [pc |-> "idle", sid |-> 0, temp |-> FALSE, pw |-> 0, used |-> 0,
            proof |-> [kind |-> "step", gen |-> 0, n |-> 0],
            fam |-> CHOOSE c \in Codes : TRUE, row |-> 0]

TypeOK ==
  /\ password \in Nat /\ temporary \in BOOLEAN
  /\ mfa \in [on : BOOLEAN, gen : Nat, used : Nat]
  /\ recovery \subseteq Nat
  /\ enrollment \in [id : Nat, by : Nat, under : Nat]
  /\ sessions \subseteq SessionRow
  /\ tickets \subseteq TicketRow
  /\ codes \in [Codes -> {"none", "issued", "gone"}]
  /\ grants \in [Codes -> Seq(GrantState)]
  /\ req \in [Requests -> Request]
  /\ issued \in [session : Nat, enrollment : Nat, recovery : Nat]
  /\ authority \in [Codes -> Nat]
  /\ spent \subseteq Proof /\ respent \subseteq Proof
  /\ ended \subseteq Codes

Init ==
  /\ password = 0 /\ temporary \in BOOLEAN
  /\ mfa = MfaOff /\ recovery = {} /\ enrollment = NoEnrollment
  /\ sessions = {} /\ tickets = {}
  /\ codes = [c \in Codes |-> "none"] /\ grants = [c \in Codes |-> <<>>]
  /\ req = [r \in Requests |-> Nothing]
  /\ issued = [session |-> 0, enrollment |-> 0, recovery |-> 0]
  /\ authority = [c \in Codes |-> 0]
  /\ spent = {} /\ respent = {} /\ ended = {}

-----------------------------------------------------------------------------
(* Rows and guards *)

At(r, step) == req[r].pc = step
Goto(r, step) == req' = [req EXCEPT ![r].pc = step]
Done(r) == req' = [req EXCEPT ![r] = Nothing]
Sid(r) == req[r].sid
Pw(r) == req[r].pw
Fam(r) == req[r].fam

Alive(id) == \E s \in sessions : s.id = id
UnderOf(id) == (CHOOSE s \in sessions : s.id = id).under

\* LIVE_CREDENTIAL_SESSION
LiveSession(id) ==
  /\ \E s \in sessions : s.id = id /\ ~s.mobile
  /\ ~temporary /\ ~mfa.on

\* actorGuard: the session and the password confirmed are still those of the account.
Actor(r) == Alive(Sid(r)) /\ password = Pw(r) /\ ~temporary

\* getUserByOAuthToken, getUserByApiToken and the guards of issueGrant and refreshGrant.
ClientsAllowed == ~temporary /\ ~mfa.on

\* getAuthenticatedSession
Authenticates(s) ==
  /\ mfa.on => s.verified /\ ~s.mobile
  /\ ~(temporary /\ s.mobile)

NewSession(mobile, verified, under) ==
  /\ issued.session < MaxSession
  /\ issued' = [issued EXCEPT !.session = @ + 1]
  /\ sessions' = sessions \cup {[id |-> issued.session + 1, mobile |-> mobile,
                                 verified |-> verified, under |-> under]}

\* The DELETEs of a password change; mfa.ts adds the enrolment to them.
EndCredentials ==
  /\ sessions' = {} /\ tickets' = {}
  /\ codes' = [c \in Codes |-> IF codes[c] = "issued" THEN "gone" ELSE codes[c]]
  /\ grants' = [c \in Codes |-> <<>>]

Revoke(rows) == [i \in DOMAIN rows |-> "revoked"]
HasLive(rows) == \E i \in DOMAIN rows : rows[i] = "live"

-----------------------------------------------------------------------------
(* login *)

\* Reads the row and checks the password against it.
BeginLogin(r) ==
  /\ At(r, "idle")
  /\ req' = [req EXCEPT ![r].pc = "mfa", ![r].pw = password]
  /\ UNCHANGED <<account, factor, sessions, external, issued, history>>

\* matchingStep tries the steps around now; which ones those are is left open.
Around == 0..MaxStep

\* A code the user enters: from the authenticator, unless its step was used by the time
\* user_mfa was read, or a recovery code, which only the batch looks up.
Offered ==
  [kind : {"step"}, gen : {mfa.gen}, n : {n \in Around : n > mfa.used}]
    \cup [kind : {"recovery"}, gen : {mfa.gen}, n : 1..issued.recovery]

\* getMfa, then mfaProof up to its statements.
ReadMfa(r, next) ==
  \E p \in Offered :
    req' = [req EXCEPT ![r].pc = next, ![r].used = mfa.used, ![r].proof = p]

LoginMfa(r) ==
  /\ At(r, "mfa")
  /\ \/ ~mfa.on /\ Goto(r, "session")
     \/ mfa.on /\ ReadMfa(r, "login")
     \/ mfa.on /\ Done(r)   \* MfaRequired
  /\ UNCHANGED <<account, factor, sessions, external, issued, history>>

\* Wrong on purpose: the INSERT does not compare the password hash.
IssueStale(r) ==
  /\ At(r, "session")
  /\ ~mfa.on /\ NewSession(FALSE, FALSE, Pw(r))
  /\ Done(r)
  /\ UNCHANGED <<account, factor, external, history>>

IssueSession(r) ==
  /\ At(r, "session")
  /\ IF password = Pw(r) /\ ~mfa.on
     THEN NewSession(FALSE, FALSE, Pw(r))
     ELSE UNCHANGED <<sessions, issued>>
  /\ Done(r)
  /\ UNCHANGED <<account, factor, external, history>>

\* The conditions of mfaProof's UPDATE.
Valid(r) ==
  LET p == req[r].proof IN
    /\ mfa.on /\ mfa.gen = p.gen
    /\ \/ p.kind = "step" /\ mfa.used < p.n
       \/ p.kind = "recovery" /\ p.n \in recovery
    /\ password = Pw(r)

Highest(m, n) == IF m < n THEN n ELSE m

\* What the UPDATE and the DELETE of a recovery code leave behind.
UsedAfter(r) ==
  LET p == req[r].proof IN
    Highest(mfa.used, IF p.kind = "step" THEN p.n ELSE req[r].used)
RecoveryAfter(r) ==
  IF req[r].proof.kind = "recovery" THEN recovery \ {req[r].proof.n} ELSE recovery

Spend(p) ==
  /\ spent' = spent \cup {p}
  /\ respent' = IF p \in spent THEN respent \cup {p} ELSE respent

\* Wrong on purpose: the UPDATE does not compare last_used_step.
ProveAgain(r) ==
  /\ At(r, "login")
  /\ mfa.on /\ mfa.gen = req[r].proof.gen /\ password = Pw(r)
  /\ NewSession(FALSE, TRUE, Pw(r))
  /\ mfa' = [mfa EXCEPT !.used = UsedAfter(r)]
  /\ recovery' = RecoveryAfter(r)
  /\ Spend(req[r].proof)
  /\ Done(r)
  /\ UNCHANGED <<account, enrollment, external, authority, ended>>

\* The batch: the session only if this transaction consumed the proof.
ProveLogin(r) ==
  /\ At(r, "login")
  /\ IF Valid(r)
     THEN /\ NewSession(FALSE, TRUE, Pw(r))
          /\ mfa' = [mfa EXCEPT !.used = UsedAfter(r)]
          /\ recovery' = RecoveryAfter(r)
          /\ Spend(req[r].proof)
     ELSE UNCHANGED <<sessions, issued, mfa, recovery, spent, respent>>
  /\ Done(r)
  /\ UNCHANGED <<account, enrollment, external, authority, ended>>

-----------------------------------------------------------------------------
(* Requests on a session *)

\* hooks.server.ts: what the routes see of the user is what was read here.
Authenticate(r, s) ==
  /\ At(r, "idle")
  /\ Authenticates(s)
  /\ req' = [req EXCEPT ![r].pc = "in", ![r].sid = s.id, ![r].temp = temporary]
  /\ UNCHANGED <<account, factor, sessions, external, issued, history>>

\* createPairingCode, createApiToken
MintTicket(r, kind) ==
  /\ At(r, "in") /\ ~req[r].temp
  /\ tickets' = IF LiveSession(Sid(r))
                THEN tickets \cup {[kind |-> kind, under |-> UnderOf(Sid(r))]}
                ELSE tickets
  /\ Done(r)
  /\ UNCHANGED <<account, factor, sessions, codes, grants, issued, history>>

\* issueAuthorizationCode
Approve(r, c) ==
  /\ At(r, "in") /\ ~req[r].temp
  /\ codes[c] = "none"
  /\ IF LiveSession(Sid(r))
     THEN /\ codes' = [codes EXCEPT ![c] = "issued"]
          /\ authority' = [authority EXCEPT ![c] = UnderOf(Sid(r))]
     ELSE UNCHANGED <<codes, authority>>
  /\ Done(r)
  /\ UNCHANGED <<account, factor, sessions, tickets, grants, issued, spent, respent, ended>>

\* revokeApiToken, deleteExpiredPairingCodes
DropTicket(t) ==
  /\ tickets' = tickets \ {t}
  /\ UNCHANGED <<account, factor, sessions, codes, grants, req, issued, history>>

\* Wrong on purpose: codes the client has not exchanged yet survive the disconnect.
DisconnectGrants(r, client) ==
  /\ At(r, "in") /\ ~req[r].temp
  /\ LET theirs == {c \in Codes : ClientOf(c) = client} IN
       /\ grants' = [c \in Codes |-> IF c \in theirs THEN Revoke(grants[c]) ELSE grants[c]]
       /\ ended' = ended \cup {c \in theirs : codes[c] # "none"}
  /\ Done(r)
  /\ UNCHANGED <<account, factor, sessions, codes, tickets, issued, authority, spent, respent>>

\* revokeClientForUser
Disconnect(r, client) ==
  /\ At(r, "in") /\ ~req[r].temp
  /\ LET theirs == {c \in Codes : ClientOf(c) = client} IN
       /\ grants' = [c \in Codes |-> IF c \in theirs THEN Revoke(grants[c]) ELSE grants[c]]
       /\ codes' = [c \in Codes |->
            IF c \in theirs /\ codes[c] = "issued" THEN "gone" ELSE codes[c]]
       /\ ended' = ended \cup {c \in theirs : codes[c] # "none"}
  /\ Done(r)
  /\ UNCHANGED <<account, factor, sessions, tickets, issued, authority, spent, respent>>

\* logout, revokeSession, or the session's time is over.
EndSession(s) ==
  /\ sessions' = sessions \ {s}
  /\ UNCHANGED <<account, factor, external, req, issued, history>>

-----------------------------------------------------------------------------
(* Passwords *)

\* setUserPassword, by an administrator: the second factor stays.
ResetPassword ==
  /\ password < MaxPassword
  /\ password' = password + 1
  /\ EndCredentials
  /\ enrollment' = NoEnrollment
  /\ UNCHANGED <<temporary, mfa, recovery, req, issued, history>>

\* completeFirstLogin: reads the temporary password, then commits if it is still temporary.
ReadTemporary(r) ==
  /\ At(r, "in") /\ req[r].temp
  /\ IF temporary THEN Goto(r, "setup") ELSE Done(r)
  /\ UNCHANGED <<account, factor, sessions, external, issued, history>>
CompleteSetup(r) ==
  /\ At(r, "setup")
  /\ IF temporary
     THEN /\ password < MaxPassword
          /\ password' = password + 1 /\ temporary' = FALSE
          /\ EndCredentials
     ELSE UNCHANGED <<account, sessions, external>>
  /\ Done(r)
  /\ UNCHANGED <<factor, issued, history>>

-----------------------------------------------------------------------------
(* Two-factor settings *)

\* confirmMfaActor
ConfirmActor(r) ==
  /\ At(r, "in") /\ ~req[r].temp
  /\ IF Alive(Sid(r)) /\ ~temporary
     THEN req' = [req EXCEPT ![r].pc = "actor", ![r].pw = password]
     ELSE Done(r)
  /\ UNCHANGED <<account, factor, sessions, external, issued, history>>

\* startMfaEnrollment: a later start replaces the earlier one's row.
StartEnrollment(r) ==
  /\ At(r, "actor")
  /\ issued.enrollment < MaxEnrollment
  /\ IF Actor(r) /\ ~mfa.on
     THEN /\ issued' = [issued EXCEPT !.enrollment = @ + 1]
          /\ enrollment' = [id |-> issued.enrollment + 1, by |-> Sid(r), under |-> Pw(r)]
     ELSE UNCHANGED <<issued, enrollment>>
  /\ Done(r)
  /\ UNCHANGED <<account, mfa, recovery, sessions, external, history>>

Enrolled(r) == enrollment.by = Sid(r) /\ enrollment.under = Pw(r) /\ enrollment.id > 0

\* enableMfa up to its batch; the code is one of the new secret's.
ReadEnrollment(r) ==
  /\ At(r, "actor")
  /\ Enrolled(r)
  /\ \E n \in Around :
       req' = [req EXCEPT ![r].pc = "enable",
                          ![r].proof = [kind |-> "step", gen |-> enrollment.id, n |-> n]]
  /\ UNCHANGED <<account, factor, sessions, external, issued, history>>

NewRecovery ==
  /\ issued.recovery < MaxRecovery
  /\ issued' = [issued EXCEPT !.recovery = @ + 1]
  /\ recovery' = {issued.recovery + 1}

\* Wrong on purpose: what was issued before stays.
EnableOnly(r) ==
  /\ At(r, "enable")
  /\ Enrolled(r) /\ enrollment.id = req[r].proof.gen /\ Actor(r) /\ ~mfa.on
  /\ mfa' = [on |-> TRUE, gen |-> req[r].proof.gen, used |-> req[r].proof.n]
  /\ NewRecovery
  /\ enrollment' = NoEnrollment
  /\ Spend(req[r].proof)
  /\ Done(r)
  /\ UNCHANGED <<account, sessions, external, authority, ended>>

EnableMfa(r) ==
  /\ At(r, "enable")
  /\ IF Enrolled(r) /\ enrollment.id = req[r].proof.gen /\ Actor(r) /\ ~mfa.on
     THEN /\ mfa' = [on |-> TRUE, gen |-> req[r].proof.gen, used |-> req[r].proof.n]
          /\ NewRecovery
          /\ EndCredentials /\ enrollment' = NoEnrollment
          /\ Spend(req[r].proof)
     ELSE UNCHANGED <<factor, sessions, external, issued, spent, respent>>
  /\ Done(r)
  /\ UNCHANGED <<account, authority, ended>>

\* changeMfa: getMfa and mfaProof, then the batch.
ReadFactor(r) ==
  /\ At(r, "actor")
  /\ \/ mfa.on /\ \E next \in {"disable", "regenerate"} : ReadMfa(r, next)
     \/ ~mfa.on /\ Done(r)
  /\ UNCHANGED <<account, factor, sessions, external, issued, history>>

Disable(r) ==
  /\ At(r, "disable")
  /\ IF Valid(r) /\ Alive(Sid(r))
     THEN /\ mfa' = MfaOff /\ recovery' = {} /\ enrollment' = NoEnrollment
          /\ EndCredentials
          /\ Spend(req[r].proof)
     ELSE UNCHANGED <<factor, sessions, external, spent, respent>>
  /\ Done(r)
  /\ UNCHANGED <<account, issued, authority, ended>>

Regenerate(r) ==
  /\ At(r, "regenerate")
  /\ IF Valid(r) /\ Alive(Sid(r))
     THEN /\ mfa' = [mfa EXCEPT !.used = UsedAfter(r)]
          /\ NewRecovery /\ enrollment' = NoEnrollment
          /\ EndCredentials
          /\ Spend(req[r].proof)
     ELSE UNCHANGED <<factor, sessions, external, issued, spent, respent>>
  /\ Done(r)
  /\ UNCHANGED <<account, authority, ended>>

-----------------------------------------------------------------------------
(* Devices and OAuth clients *)

\* redeemPairingCode: one batch; the code goes if its session came.
RedeemPairing(t) ==
  /\ t.kind = "pairing" /\ ~mfa.on
  /\ NewSession(TRUE, FALSE, t.under)
  /\ tickets' = tickets \ {t}
  /\ UNCHANGED <<account, factor, codes, grants, req, history>>

\* readAuthorizationCode, then issueGrant.
ReadCode(r, c) ==
  /\ At(r, "idle")
  /\ codes[c] = "issued"
  /\ req' = [req EXCEPT ![r].pc = "exchange", ![r].fam = c]
  /\ UNCHANGED <<account, factor, sessions, external, issued, history>>

IssueGrant(r) ==
  /\ At(r, "exchange")
  /\ LET c == Fam(r) IN
       IF codes[c] = "issued" /\ ClientsAllowed
       THEN /\ grants' = [grants EXCEPT ![c] = Append(@, "live")]
            /\ codes' = [codes EXCEPT ![c] = "gone"]
       ELSE UNCHANGED <<grants, codes>>
  /\ Done(r)
  /\ UNCHANGED <<account, factor, sessions, tickets, issued, history>>

\* refreshGrant: the row of the refresh token presented; an expired one is refused.
ReadGrant(r, c, i) ==
  /\ At(r, "idle")
  /\ grants[c][i] # "expired"
  /\ req' = [req EXCEPT ![r].pc = IF grants[c][i] = "live" THEN "rotate" ELSE "revoke",
                        ![r].fam = c, ![r].row = i]
  /\ UNCHANGED <<account, factor, sessions, external, issued, history>>

\* Wrong on purpose: the successor does not depend on the parent still being live.
RotateOnRead(r) ==
  /\ At(r, "rotate")
  /\ LET c == Fam(r) IN
       /\ Len(grants[c]) < MaxRotation /\ req[r].row \in DOMAIN grants[c]
       /\ ClientsAllowed
       /\ grants' = [grants EXCEPT ![c] = Append([@ EXCEPT ![req[r].row] = "revoked"], "live")]
  /\ Done(r)
  /\ UNCHANGED <<account, factor, sessions, codes, tickets, issued, history>>

\* The batch: a successor from a live parent, or the family goes.
Rotate(r) ==
  /\ At(r, "rotate")
  /\ LET c == Fam(r)
         i == req[r].row
     IN IF i \in DOMAIN grants[c] /\ grants[c][i] = "live" /\ ClientsAllowed
        THEN /\ Len(grants[c]) < MaxRotation
             /\ grants' = [grants EXCEPT ![c] = Append([@ EXCEPT ![i] = "revoked"], "live")]
             /\ Done(r)
        ELSE Goto(r, "revoke") /\ UNCHANGED grants
  /\ UNCHANGED <<account, factor, sessions, codes, tickets, issued, history>>

\* revokeToken reads the family of either token.
ReadToken(r, c) ==
  /\ At(r, "idle")
  /\ grants[c] # <<>>
  /\ req' = [req EXCEPT ![r].pc = "revoke", ![r].fam = c]
  /\ UNCHANGED <<account, factor, sessions, external, issued, history>>

RevokeFamily(r) ==
  /\ At(r, "revoke")
  /\ grants' = [grants EXCEPT ![Fam(r)] = Revoke(@)]
  /\ ended' = ended \cup {Fam(r)}
  /\ Done(r)
  /\ UNCHANGED <<account, factor, sessions, codes, tickets, issued, authority, spent, respent>>

-----------------------------------------------------------------------------
(* Time *)

\* Wrong on purpose: a status of its own.
ExpireCodeAnew(c) ==
  /\ codes[c] = "issued"
  /\ codes' = [codes EXCEPT ![c] = "expired"]
  /\ UNCHANGED <<account, factor, sessions, grants, tickets, req, issued, history>>

ExpireCode(c) ==
  /\ codes[c] = "issued"
  /\ codes' = [codes EXCEPT ![c] = "gone"]
  /\ UNCHANGED <<account, factor, sessions, grants, tickets, req, issued, history>>
ExpireGrant(c, i) ==
  /\ grants[c][i] = "live"
  /\ grants' = [grants EXCEPT ![c][i] = "expired"]
  /\ UNCHANGED <<account, factor, sessions, codes, tickets, req, issued, history>>
ExpireEnrollment ==
  /\ enrollment # NoEnrollment
  /\ enrollment' = NoEnrollment
  /\ UNCHANGED <<account, mfa, recovery, sessions, external, req, issued, history>>

Login(r) == BeginLogin(r) \/ LoginMfa(r) \/ IssueSession(r) \/ ProveLogin(r)
Settings(r) ==
  \/ ReadTemporary(r) \/ CompleteSetup(r)
  \/ ConfirmActor(r) \/ StartEnrollment(r) \/ ReadEnrollment(r) \/ EnableMfa(r)
  \/ ReadFactor(r) \/ Disable(r) \/ Regenerate(r)
Browser(r) ==
  \/ \E s \in sessions : Authenticate(r, s)
  \/ \E kind \in {"pairing", "token"} : MintTicket(r, kind)
  \/ \E c \in Codes : Approve(r, c)
  \/ \E client \in Clients : Disconnect(r, client)
Client(r) ==
  \/ \E c \in Codes : ReadCode(r, c) \/ ReadToken(r, c) \/ \E i \in DOMAIN grants[c] : ReadGrant(r, c, i)
  \/ IssueGrant(r) \/ Rotate(r) \/ RevokeFamily(r)
Elsewhere ==
  \/ \E s \in sessions : EndSession(s)
  \/ \E t \in tickets : DropTicket(t) \/ RedeemPairing(t)
  \/ ResetPassword
  \/ \E c \in Codes : ExpireCode(c) \/ \E i \in DOMAIN grants[c] : ExpireGrant(c, i)
  \/ ExpireEnrollment

Next == Elsewhere \/ \E r \in Requests : Login(r) \/ Settings(r) \/ Browser(r) \/ Client(r)

Spec == Init /\ [][Next]_vars

-----------------------------------------------------------------------------
(* Properties *)

\* A password change leaves nothing behind that rests on an earlier password, and no request
\* that was already under way brings anything of it back.
ResetEndsAll ==
  /\ \A s \in sessions : s.under = password
  /\ \A t \in tickets : t.under = password
  /\ \A c \in Codes : (codes[c] = "issued" \/ grants[c] # <<>>) => authority[c] = password
  /\ enrollment # NoEnrollment => enrollment.under = password

\* While two-factor authentication is on there are no external credentials, no enrolment and
\* no session that did not pass it.
SecondFactorIsExclusive ==
  mfa.on =>
    /\ tickets = {} /\ enrollment = NoEnrollment
    /\ \A c \in Codes : codes[c] # "issued" /\ grants[c] = <<>>
    /\ \A s \in sessions : s.verified /\ ~s.mobile

\* An authenticator code and a recovery code count once, however many requests present them.
ProofsCountOnce == respent = {}

\* However many clients rotate at once, a family has at most one live row, its last.
OneLiveGrant ==
  \A c \in Codes : \A i \in DOMAIN grants[c] : grants[c][i] = "live" => i = Len(grants[c])

\* A family that was replayed, revoked or disconnected stays dead, whatever was in flight.
EndedStaysEnded ==
  \A c \in ended : codes[c] # "issued" /\ ~HasLive(grants[c])

\* The account implements what it promises its owner: every session is born of a fresh proof
\* and the present password, a family of grants never comes back, and changes of the password
\* or the second factor end everything in one step, whatever requests are under way.
Family(c) ==
  IF codes[c] = "gone" THEN IF HasLive(grants[c]) THEN "live" ELSE "over" ELSE codes[c]
Access == INSTANCE AccessPromise
  WITH Families <- Codes,
       strict <- mfa.on,
       born <- issued.session,
       family <- [c \in Codes |-> Family(c)]
AccessKept == Access!Spec

=============================================================================
