------------------------- MODULE CredentialsProofs -------------------------
(***************************************************************************)
(* Theorems about an account's credentials, for every number of requests,  *)
(* clients, codes, password changes, sessions and enrolments; the last one *)
(* shows that the account implements AccessPromise.                        *)
(***************************************************************************)
EXTENDS Credentials, SequenceTheorems, TLAPS

-----------------------------------------------------------------------------
(* Types *)

\* Revoking a family keeps its rows and leaves none of them live.
LEMMA RevokeRows ==
  ASSUME NEW rows \in Seq(GrantState)
  PROVE  /\ Revoke(rows) \in Seq(GrantState)
         /\ DOMAIN Revoke(rows) = DOMAIN rows
         /\ ~HasLive(Revoke(rows))
         /\ rows = <<>> => Revoke(rows) = <<>>
<1>1. Len(rows) \in Nat /\ DOMAIN rows = 1..Len(rows)
  OBVIOUS
<1>2. Revoke(rows) = [i \in 1..Len(rows) |-> "revoked"]
  BY <1>1 DEF Revoke
<1>3. Revoke(rows) \in Seq(GrantState) /\ Len(Revoke(rows)) = Len(rows)
  BY <1>1, <1>2 DEF GrantState
<1>4. rows = <<>> => Revoke(rows) = <<>>
  BY <1>3, EmptySeq
<1>5. ~HasLive(Revoke(rows))
  BY <1>2 DEF HasLive
<1> QED BY <1>1, <1>2, <1>3, <1>4, <1>5

\* A new row at the end of a family.
LEMMA AppendRow ==
  ASSUME NEW rows \in Seq(GrantState), NEW state \in GrantState
  PROVE  /\ Append(rows, state) \in Seq(GrantState)
         /\ Len(Append(rows, state)) = Len(rows) + 1
         /\ Append(rows, state)[Len(rows) + 1] = state
         /\ \A i \in 1..Len(rows) : Append(rows, state)[i] = rows[i]
OBVIOUS

\* A row that changes state.
LEMMA ChangeRow ==
  ASSUME NEW rows \in Seq(GrantState), NEW i \in DOMAIN rows, NEW state \in GrantState
  PROVE  /\ [rows EXCEPT ![i] = state] \in Seq(GrantState)
         /\ Len([rows EXCEPT ![i] = state]) = Len(rows)
OBVIOUS

\* A request at rest.
LEMMA NothingType == Nothing \in Request
BY CredentialsAssumption DEF Nothing, Request, Steps, Proof

\* What EndCredentials leaves.
LEMMA EndCredentialsType ==
  ASSUME TypeOK, EndCredentials
  PROVE  /\ sessions' \subseteq SessionRow /\ tickets' \subseteq TicketRow
         /\ codes' \in [Codes -> {"none", "issued", "gone"}]
         /\ grants' \in [Codes -> Seq(GrantState)]
BY DEF TypeOK, EndCredentials

\* The columns by themselves.
LEMMA Columns ==
  ASSUME TypeOK
  PROVE  /\ req \in [Requests -> Request]
         /\ issued \in [session : Nat, enrollment : Nat, recovery : Nat]
         /\ mfa \in [on : BOOLEAN, gen : Nat, used : Nat]
         /\ enrollment \in [id : Nat, by : Nat, under : Nat]
BY DEF TypeOK

\* A session is well typed if the password it rests on is.
LEMMA NewSessionType ==
  ASSUME TypeOK, NEW mobile \in BOOLEAN, NEW verified \in BOOLEAN, NEW under \in Nat,
         NewSession(mobile, verified, under)
  PROVE  /\ sessions' \subseteq SessionRow
         /\ issued' \in [session : Nat, enrollment : Nat, recovery : Nat]
<1>1. issued.session \in Nat
  BY Columns
<1>2. [id |-> issued.session + 1, mobile |-> mobile, verified |-> verified, under |-> under]
        \in SessionRow
  BY <1>1 DEF SessionRow
<1>3. sessions' \subseteq SessionRow
  BY <1>2 DEF TypeOK, NewSession
<1>4. issued' \in [session : Nat, enrollment : Nat, recovery : Nat]
  BY <1>1, Columns DEF NewSession
<1> QED BY <1>3, <1>4

\* Requests stay well typed when one of them moves on or is done.
LEMMA MovesType ==
  ASSUME TypeOK, NEW r \in Requests
  PROVE  /\ Done(r) => req' \in [Requests -> Request]
         /\ \A step \in Steps : Goto(r, step) => req' \in [Requests -> Request]
         /\ req[r].pw \in Nat /\ req[r].sid \in Nat /\ req[r].used \in Nat
         /\ req[r].row \in Nat /\ req[r].proof \in Proof /\ req[r].fam \in Codes
<1>1. Done(r) => req' \in [Requests -> Request]
  BY NothingType DEF TypeOK, Done
<1>2. ASSUME NEW step \in Steps, Goto(r, step) PROVE req' \in [Requests -> Request]
  BY <1>2, Columns DEF Goto, Request
<1> QED BY <1>1, <1>2 DEF TypeOK, Request

\* A request is well typed whatever it does.
LEMMA Pending ==
  ASSUME TypeOK, NEW r \in Requests
  PROVE  req[r] \in Request /\ {"in", "mfa", "enable", "exchange", "revoke"} \subseteq Steps
BY Columns DEF Steps

\* What mfaProof reads.
LEMMA ReadMfaType ==
  ASSUME TypeOK, NEW r \in Requests, NEW next \in Steps, ReadMfa(r, next)
  PROVE  req' \in [Requests -> Request]
<1>1. \A p \in Offered : p \in Proof
  <2>1. mfa.gen \in Nat /\ issued.recovery \in Nat /\ MaxStep \in Nat
    BY CredentialsAssumption, Columns
  <2> QED BY <2>1 DEF Offered, Around, Proof
<1>2. mfa.used \in Nat
  BY Columns
<1>3. PICK p \in Offered :
        req' = [req EXCEPT ![r].pc = next, ![r].used = mfa.used, ![r].proof = p]
  BY DEF ReadMfa
<1>4. [req[r] EXCEPT !.pc = next, !.used = mfa.used, !.proof = p] \in Request
  BY <1>1, <1>2, Columns DEF Request
<1> QED BY <1>3, <1>4, Columns

\* What a proof leaves of the factor.
LEMMA ProofType ==
  ASSUME TypeOK, NEW r \in Requests
  PROVE  /\ UsedAfter(r) \in Nat /\ mfa.used <= UsedAfter(r)
         /\ req[r].proof.kind = "step" => req[r].proof.n <= UsedAfter(r)
         /\ RecoveryAfter(r) \subseteq recovery
         /\ Spend(req[r].proof) => spent' \subseteq Proof /\ respent' \subseteq Proof
<1>1. req[r].proof \in Proof /\ req[r].used \in Nat /\ mfa.used \in Nat
  BY MovesType DEF TypeOK
<1>2. \A m, n \in Nat : Highest(m, n) \in Nat /\ m <= Highest(m, n) /\ n <= Highest(m, n)
  BY DEF Highest
<1>3. req[r].proof.n \in Nat
  BY <1>1 DEF Proof
<1>4. Spend(req[r].proof) => spent' \subseteq Proof /\ respent' \subseteq Proof
  BY <1>1 DEF TypeOK, Spend
<1> QED BY <1>1, <1>2, <1>3, <1>4 DEF UsedAfter, RecoveryAfter

\* Logins keep the types.
LEMMA LoginTyped == ASSUME TypeOK, NEW r \in Requests, Login(r) PROVE TypeOK'
<1> USE DEF At, account, factor, external, history
<1>1. CASE BeginLogin(r)
  <2>1. password \in Nat
    BY DEF TypeOK
  <2>2. [req[r] EXCEPT !.pc = "mfa", !.pw = password] \in Request
    BY <2>1, Pending DEF Request
  <2>3. req' \in [Requests -> Request]
    BY <1>1, <2>2, Columns DEF BeginLogin
  <2> QED BY <1>1, <2>3 DEF BeginLogin, TypeOK
<1>2. CASE LoginMfa(r)
  <2>1. req' \in [Requests -> Request]
    BY <1>2, MovesType, ReadMfaType DEF LoginMfa, Steps
  <2> QED BY <1>2, <2>1 DEF LoginMfa, TypeOK
<1>3. CASE IssueSession(r)
  <2>1. sessions' \subseteq SessionRow /\ issued' \in [session : Nat, enrollment : Nat, recovery : Nat]
    BY <1>3, MovesType, NewSessionType DEF IssueSession, Pw, TypeOK
  <2> QED BY <1>3, <2>1, MovesType DEF IssueSession, TypeOK
<1>4. CASE ProveLogin(r)
  <2>1. sessions' \subseteq SessionRow /\ issued' \in [session : Nat, enrollment : Nat, recovery : Nat]
    BY <1>4, MovesType, NewSessionType DEF ProveLogin, Pw, TypeOK
  <2>2. mfa' \in [on : BOOLEAN, gen : Nat, used : Nat]
    BY <1>4, ProofType, Columns DEF ProveLogin
  <2>3. recovery' \subseteq Nat /\ spent' \subseteq Proof /\ respent' \subseteq Proof
    <3>1. recovery \subseteq Nat /\ spent \subseteq Proof /\ respent \subseteq Proof
      BY DEF TypeOK
    <3>2. CASE Valid(r)
      BY <1>4, <3>1, <3>2, ProofType DEF ProveLogin
    <3>3. CASE ~Valid(r)
      BY <1>4, <3>1, <3>3 DEF ProveLogin
    <3> QED BY <3>2, <3>3
  <2> QED BY <1>4, <2>1, <2>2, <2>3, MovesType DEF ProveLogin, TypeOK
<1> QED BY <1>1, <1>2, <1>3, <1>4 DEF Login

\* Settings of the account keep the types.
LEMMA SettingsTyped == ASSUME TypeOK, NEW r \in Requests, Settings(r) PROVE TypeOK'
<1> USE DEF At, account, factor, external, history
<1> DEFINE Factors == /\ mfa' \in [on : BOOLEAN, gen : Nat, used : Nat] /\ recovery' \subseteq Nat
                      /\ enrollment' \in [id : Nat, by : Nat, under : Nat]
                      /\ issued' \in [session : Nat, enrollment : Nat, recovery : Nat]
                      /\ spent' \subseteq Proof /\ respent' \subseteq Proof
           Rows == /\ sessions' \subseteq SessionRow /\ tickets' \subseteq TicketRow
                   /\ codes' \in [Codes -> {"none", "issued", "gone"}]
                   /\ grants' \in [Codes -> Seq(GrantState)]
           Reqs == req' \in [Requests -> Request]
<1>0. /\ NoEnrollment \in [id : Nat, by : Nat, under : Nat]
      /\ MfaOff \in [on : BOOLEAN, gen : Nat, used : Nat]
  BY DEF NoEnrollment, MfaOff
<1>1. CASE ReadTemporary(r)
  BY <1>1, MovesType DEF ReadTemporary, TypeOK, Steps
<1>2. CASE CompleteSetup(r)
  <2>1. Rows
    BY <1>2, EndCredentialsType DEF CompleteSetup, TypeOK
  <2>2. password' \in Nat /\ temporary' \in BOOLEAN
    <3>1. password \in Nat /\ temporary \in BOOLEAN
      BY DEF TypeOK
    <3>2. CASE temporary
      <4>1. password' = password + 1 /\ temporary' = FALSE
        BY <1>2, <3>2 DEF CompleteSetup
      <4>2. password' \in Nat
        BY <3>1, <4>1
      <4>3. temporary' \in BOOLEAN
        BY <4>1
      <4> QED BY <4>2, <4>3
    <3>3. CASE ~temporary
      BY <1>2, <3>1, <3>3 DEF CompleteSetup
    <3> QED BY <3>2, <3>3
  <2>3. req' \in [Requests -> Request]
    BY <1>2, MovesType DEF CompleteSetup
  <2> QED BY <1>2, <2>1, <2>2, <2>3 DEF CompleteSetup, TypeOK
<1>3. CASE ConfirmActor(r)
  <2>1. Reqs
    <3>1. password \in Nat
      BY DEF TypeOK
    <3> QED BY <1>3, <3>1, MovesType, Columns DEF ConfirmActor, Request, Steps
  <2> QED BY <1>3, <2>1 DEF ConfirmActor, TypeOK
<1>4. CASE StartEnrollment(r)
  <2>1. enrollment' \in [id : Nat, by : Nat, under : Nat]
    <3>1. Sid(r) \in Nat /\ Pw(r) \in Nat /\ issued.enrollment \in Nat
      BY MovesType, Columns DEF Sid, Pw
    <3> QED BY <1>4, <3>1, Columns DEF StartEnrollment
  <2>2. issued' \in [session : Nat, enrollment : Nat, recovery : Nat]
    BY <1>4, Columns DEF StartEnrollment
  <2> QED BY <1>4, <2>1, <2>2, MovesType DEF StartEnrollment, TypeOK
<1>5. CASE ReadEnrollment(r)
  <2>1. Reqs
    <3>1. Around \subseteq Nat
      BY CredentialsAssumption DEF Around
    <3>2. \A n \in Around : [kind |-> "step", gen |-> enrollment.id, n |-> n] \in Proof
      BY <3>1, Columns DEF Proof
    <3>3. PICK n \in Around :
            req' = [req EXCEPT ![r].pc = "enable",
                               ![r].proof = [kind |-> "step", gen |-> enrollment.id, n |-> n]]
      BY <1>5 DEF ReadEnrollment
    <3>4. [req[r] EXCEPT !.pc = "enable",
                         !.proof = [kind |-> "step", gen |-> enrollment.id, n |-> n]] \in Request
      BY <3>2, Pending DEF Request
    <3> QED BY <3>3, <3>4, Columns
  <2> QED BY <1>5, <2>1 DEF ReadEnrollment, TypeOK
<1>6. CASE EnableMfa(r)
  <2>1. Rows
    BY <1>6, EndCredentialsType DEF EnableMfa, TypeOK
  <2>2. req[r].proof.gen \in Nat /\ req[r].proof.n \in Nat
    BY MovesType DEF Proof
  <2>3. Factors
    <3>1. issued' \in [session : Nat, enrollment : Nat, recovery : Nat]
      BY <1>6, Columns DEF EnableMfa, NewRecovery
    <3>2. recovery' \subseteq Nat /\ spent' \subseteq Proof /\ respent' \subseteq Proof
      <4>1. issued.recovery + 1 \in Nat /\ recovery \subseteq Nat
        <5>1. issued.recovery \in Nat /\ recovery \subseteq Nat
          BY Columns DEF TypeOK
        <5> QED BY <5>1
      <4>2. recovery' = {issued.recovery + 1} \/ recovery' = recovery
        BY <1>6 DEF EnableMfa, NewRecovery
      <4>3. Spend(req[r].proof) \/ UNCHANGED <<spent, respent>>
        BY <1>6 DEF EnableMfa
      <4>4. recovery' \subseteq Nat
        BY Zenon, <4>1, <4>2
      <4>5. spent' \subseteq Proof /\ respent' \subseteq Proof
        BY <4>3, ProofType DEF TypeOK
      <4> QED BY <4>4, <4>5
    <3>3. mfa' \in [on : BOOLEAN, gen : Nat, used : Nat]
      <4>1. \/ mfa' = [on |-> TRUE, gen |-> req[r].proof.gen, used |-> req[r].proof.n]
            \/ mfa' = mfa
        BY <1>6 DEF EnableMfa
      <4>2. [on |-> TRUE, gen |-> req[r].proof.gen, used |-> req[r].proof.n]
              \in [on : BOOLEAN, gen : Nat, used : Nat]
        BY <2>2
      <4>3. mfa \in [on : BOOLEAN, gen : Nat, used : Nat]
        BY Columns
      <4> QED BY <4>1, <4>2, <4>3
    <3>4. enrollment' \in [id : Nat, by : Nat, under : Nat]
      BY <1>6, <1>0, Columns DEF EnableMfa
    <3> QED BY <3>1, <3>2, <3>3, <3>4
  <2> QED BY <1>6, <2>1, <2>3, MovesType DEF EnableMfa, TypeOK
<1>7. CASE ReadFactor(r)
  <2>1. Reqs
    BY <1>7, MovesType, ReadMfaType DEF ReadFactor, Steps
  <2> QED BY <1>7, <2>1 DEF ReadFactor, TypeOK
<1>8. CASE Disable(r)
  <2>1. Rows
    BY <1>8, EndCredentialsType DEF Disable, TypeOK
  <2>2. Factors
    BY <1>8, <1>0, ProofType DEF Disable, TypeOK
  <2> QED BY <1>8, <2>1, <2>2, MovesType DEF Disable, TypeOK
<1>9. CASE Regenerate(r)
  <2>1. Rows
    BY <1>9, EndCredentialsType DEF Regenerate, TypeOK
  <2>2. Factors
    <3>1. issued' \in [session : Nat, enrollment : Nat, recovery : Nat]
      BY <1>9, Columns DEF Regenerate, NewRecovery
    <3>2. recovery' \subseteq Nat /\ spent' \subseteq Proof /\ respent' \subseteq Proof
      <4>1. issued.recovery + 1 \in Nat /\ recovery \subseteq Nat
        <5>1. issued.recovery \in Nat /\ recovery \subseteq Nat
          BY Columns DEF TypeOK
        <5> QED BY <5>1
      <4>2. recovery' = {issued.recovery + 1} \/ recovery' = recovery
        BY <1>9 DEF Regenerate, NewRecovery
      <4>3. Spend(req[r].proof) \/ UNCHANGED <<spent, respent>>
        BY <1>9 DEF Regenerate
      <4>4. recovery' \subseteq Nat
        BY Zenon, <4>1, <4>2
      <4>5. spent' \subseteq Proof /\ respent' \subseteq Proof
        BY <4>3, ProofType DEF TypeOK
      <4> QED BY <4>4, <4>5
    <3>3. mfa' \in [on : BOOLEAN, gen : Nat, used : Nat]
      <4>1. UsedAfter(r) \in Nat
        BY ProofType
      <4> QED BY <1>9, <4>1, Columns DEF Regenerate
    <3>4. enrollment' \in [id : Nat, by : Nat, under : Nat]
      BY <1>9, <1>0, Columns DEF Regenerate
    <3> QED BY <3>1, <3>2, <3>3, <3>4
  <2> QED BY <1>9, <2>1, <2>2, MovesType DEF Regenerate, TypeOK
<1> QED BY <1>1, <1>2, <1>3, <1>4, <1>5, <1>6, <1>7, <1>8, <1>9 DEF Settings

\* Requests on a session keep the types.
LEMMA BrowserTyped == ASSUME TypeOK, NEW r \in Requests, Browser(r) PROVE TypeOK'
<1> USE DEF account, factor, external, history
<1>0. req' \in [Requests -> Request]
  <2>1. ASSUME NEW s \in sessions, Authenticate(r, s) PROVE req' \in [Requests -> Request]
    <3>1. s.id \in Nat /\ temporary \in BOOLEAN
      BY DEF TypeOK, SessionRow
    <3>2. req[r] \in Request /\ "in" \in Steps
      BY Columns DEF Steps
    <3>3. [req[r] EXCEPT !.pc = "in", !.sid = s.id, !.temp = temporary] \in Request
      BY <3>1, <3>2 DEF Request
    <3> QED BY <2>1, <3>3, Columns DEF Authenticate
  <2> QED BY <2>1, MovesType DEF Browser, MintTicket, Approve, Disconnect
<1>1. ASSUME NEW s \in sessions, Authenticate(r, s) PROVE TypeOK'
  BY <1>0, <1>1 DEF Authenticate, TypeOK
<1>2. ASSUME Alive(Sid(r)) PROVE UnderOf(Sid(r)) \in Nat
  BY <1>2 DEF Alive, UnderOf, TypeOK, SessionRow
<1>3. LiveSession(Sid(r)) => Alive(Sid(r))
  BY DEF LiveSession, Alive
<1>4. ASSUME NEW k \in {"pairing", "token"}, MintTicket(r, k) PROVE TypeOK'
  <2>1. LiveSession(Sid(r)) => [kind |-> k, under |-> UnderOf(Sid(r))] \in TicketRow
    BY <1>2, <1>3 DEF TicketRow
  <2>2. tickets' \subseteq TicketRow
    BY <1>4, <2>1 DEF MintTicket, TypeOK
  <2> QED BY <1>0, <1>4, <2>2 DEF MintTicket, TypeOK
<1>5. ASSUME NEW c \in Codes, Approve(r, c) PROVE TypeOK'
  <2>1. codes' \in [Codes -> {"none", "issued", "gone"}]
    <3>1. codes \in [Codes -> {"none", "issued", "gone"}]
      BY DEF TypeOK
    <3>2. codes' = [codes EXCEPT ![c] = "issued"] \/ codes' = codes
      BY <1>5 DEF Approve
    <3> QED BY <3>1, <3>2
  <2>2. authority' \in [Codes -> Nat]
    BY <1>2, <1>3, <1>5 DEF Approve, TypeOK
  <2> QED BY <1>0, <1>5, <2>1, <2>2 DEF Approve, TypeOK
<1>6. ASSUME NEW client \in Clients, Disconnect(r, client) PROVE TypeOK'
  <2>1. grants' \in [Codes -> Seq(GrantState)]
    BY <1>6, RevokeRows DEF Disconnect, TypeOK
  <2>2. codes' \in [Codes -> {"none", "issued", "gone"}] /\ ended' \subseteq Codes
    BY <1>6 DEF Disconnect, TypeOK
  <2> QED BY <1>0, <1>6, <2>1, <2>2 DEF Disconnect, TypeOK
<1> QED BY <1>1, <1>4, <1>5, <1>6 DEF Browser

\* OAuth clients keep the types.
LEMMA ClientTyped == ASSUME TypeOK, NEW r \in Requests, Client(r) PROVE TypeOK'
<1> USE DEF account, factor, external, history
<1>1. Fam(r) \in Codes /\ grants[Fam(r)] \in Seq(GrantState)
  BY MovesType DEF Fam, TypeOK
<1>2. ASSUME NEW c \in Codes, ReadCode(r, c) PROVE TypeOK'
  <2>1. [req[r] EXCEPT !.pc = "exchange", !.fam = c] \in Request
    BY Pending DEF Request
  <2> QED BY <1>2, <2>1 DEF ReadCode, TypeOK
<1>3. ASSUME NEW c \in Codes, ReadToken(r, c) PROVE TypeOK'
  <2>1. [req[r] EXCEPT !.pc = "revoke", !.fam = c] \in Request
    BY Pending DEF Request
  <2> QED BY <1>3, <2>1 DEF ReadToken, TypeOK
<1>4. ASSUME NEW c \in Codes, NEW i \in DOMAIN grants[c], ReadGrant(r, c, i) PROVE TypeOK'
  <2> DEFINE step == IF grants[c][i] = "live" THEN "rotate" ELSE "revoke"
  <2>1. i \in Nat
    BY DEF TypeOK
  <2>2. [req[r] EXCEPT !.pc = step, !.fam = c, !.row = i] \in Request
    <3>1. step \in Steps
      BY DEF Steps
    <3>2. req[r] \in Request
      BY Columns
    <3> QED BY <2>1, <3>1, <3>2 DEF Request
  <2>3. req' = [req EXCEPT ![r] = [req[r] EXCEPT !.pc = step, !.fam = c, !.row = i]]
    BY <1>4, Columns DEF ReadGrant
  <2>4. req' \in [Requests -> Request]
    BY <2>2, <2>3, Columns
  <2> QED BY <1>4, <2>4 DEF ReadGrant, TypeOK
<1>5. CASE IssueGrant(r)
  <2>1. grants' \in [Codes -> Seq(GrantState)]
    <3>1. Append(grants[Fam(r)], "live") \in Seq(GrantState)
      BY <1>1, AppendRow DEF GrantState
    <3>2. grants \in [Codes -> Seq(GrantState)]
      BY DEF TypeOK
    <3>3. grants' = [grants EXCEPT ![Fam(r)] = Append(grants[Fam(r)], "live")] \/ grants' = grants
      BY <1>5 DEF IssueGrant
    <3> QED BY <1>1, <3>1, <3>2, <3>3
  <2> QED BY <1>1, <1>5, <2>1, MovesType DEF IssueGrant, TypeOK
<1>6. CASE Rotate(r)
  <2>1. ASSUME NEW i \in DOMAIN grants[Fam(r)]
        PROVE  Append([grants[Fam(r)] EXCEPT ![i] = "revoked"], "live") \in Seq(GrantState)
    <3>1. [grants[Fam(r)] EXCEPT ![i] = "revoked"] \in Seq(GrantState)
      BY <1>1, ChangeRow DEF GrantState
    <3> QED BY <3>1, AppendRow DEF GrantState
  <2>2. grants' \in [Codes -> Seq(GrantState)]
    <3>1. grants \in [Codes -> Seq(GrantState)]
      BY DEF TypeOK
    <3>2. \/ grants' = grants
          \/ \E i \in DOMAIN grants[Fam(r)] :
               grants' = [grants EXCEPT ![Fam(r)] =
                            Append([grants[Fam(r)] EXCEPT ![i] = "revoked"], "live")]
      BY <1>6 DEF Rotate
    <3> QED BY <1>1, <2>1, <3>1, <3>2
  <2>3. req' \in [Requests -> Request]
    BY <1>6, MovesType DEF Rotate, Steps
  <2> QED BY <1>6, <2>2, <2>3 DEF Rotate, TypeOK
<1>7. CASE RevokeFamily(r)
  <2>1. grants' \in [Codes -> Seq(GrantState)]
    BY <1>1, <1>7, RevokeRows DEF RevokeFamily, TypeOK
  <2> QED BY <1>1, <1>7, <2>1, MovesType DEF RevokeFamily, TypeOK
<1> QED BY <1>2, <1>3, <1>4, <1>5, <1>6, <1>7 DEF Client

\* What comes from elsewhere keeps the types.
LEMMA ElsewhereTyped == ASSUME TypeOK, Elsewhere PROVE TypeOK'
<1> USE DEF account, factor, external, history
<1>1. ASSUME NEW s \in sessions, EndSession(s) PROVE TypeOK'
  BY <1>1 DEF EndSession, TypeOK
<1>2. ASSUME NEW t \in tickets, DropTicket(t) PROVE TypeOK'
  BY <1>2 DEF DropTicket, TypeOK
<1>3. ASSUME NEW t \in tickets, RedeemPairing(t) PROVE TypeOK'
  <2>1. t.under \in Nat
    BY DEF TypeOK, TicketRow
  <2>2. sessions' \subseteq SessionRow /\ issued' \in [session : Nat, enrollment : Nat, recovery : Nat]
    BY <1>3, <2>1, NewSessionType DEF RedeemPairing
  <2> QED BY <1>3, <2>2 DEF RedeemPairing, TypeOK
<1>4. CASE ResetPassword
  <2>1. NoEnrollment \in [id : Nat, by : Nat, under : Nat]
    BY DEF NoEnrollment
  <2>2. password' \in Nat
    BY <1>4 DEF ResetPassword, TypeOK
  <2>3. /\ sessions' \subseteq SessionRow /\ tickets' \subseteq TicketRow
        /\ codes' \in [Codes -> {"none", "issued", "gone"}]
        /\ grants' \in [Codes -> Seq(GrantState)]
    BY <1>4, EndCredentialsType DEF ResetPassword
  <2> QED BY <1>4, <2>1, <2>2, <2>3 DEF ResetPassword, TypeOK
<1>5. ASSUME NEW c \in Codes, ExpireCode(c) PROVE TypeOK'
  BY <1>5 DEF ExpireCode, TypeOK
<1>6. ASSUME NEW c \in Codes, NEW i \in DOMAIN grants[c], ExpireGrant(c, i) PROVE TypeOK'
  <2>1. [grants[c] EXCEPT ![i] = "expired"] \in Seq(GrantState)
    BY ChangeRow DEF TypeOK, GrantState
  <2>2. grants' = [grants EXCEPT ![c] = [grants[c] EXCEPT ![i] = "expired"]]
    BY <1>6 DEF ExpireGrant, TypeOK
  <2>3. grants' \in [Codes -> Seq(GrantState)]
    BY <2>1, <2>2 DEF TypeOK
  <2> QED BY <1>6, <2>3 DEF ExpireGrant, TypeOK
<1>7. CASE ExpireEnrollment
  BY <1>7 DEF ExpireEnrollment, NoEnrollment, TypeOK
<1> QED BY <1>1, <1>2, <1>3, <1>4, <1>5, <1>6, <1>7 DEF Elsewhere

\* Every step keeps the types.
LEMMA TypeStep == TypeOK /\ [Next]_vars => TypeOK'
<1> SUFFICES ASSUME TypeOK, [Next]_vars PROVE TypeOK'
  OBVIOUS
<1>1. CASE UNCHANGED vars
  BY <1>1 DEF vars, account, factor, external, history, TypeOK
<1> QED BY <1>1, LoginTyped, SettingsTyped, BrowserTyped, ClientTyped, ElsewhereTyped DEF Next

\* The initial states are well typed.
LEMMA InitTyped == Init => TypeOK
<1> SUFFICES ASSUME Init PROVE TypeOK
  OBVIOUS
<1>1. <<>> \in Seq(GrantState)
  BY EmptySeq
<1> QED BY <1>1, NothingType DEF Init, TypeOK, MfaOff, NoEnrollment

\* Every reachable state is well typed.
THEOREM TypeCorrect == Spec => []TypeOK
BY InitTyped, TypeStep, PTL DEF Spec

-----------------------------------------------------------------------------
(* What a password change and the second factor leave behind *)

\* A temporary password is the first one, and nobody who has it starts an enrolment.  Without
\* this the end of the first login, which leaves mfa_enrollments alone, could leave one behind.
TemporaryAlone == temporary => enrollment = NoEnrollment
AccountInv == ResetEndsAll /\ SecondFactorIsExclusive /\ TemporaryAlone

\* When every credential and the enrolment are gone, nothing rests on an earlier password.
LEMMA NothingLeft ==
  ASSUME TypeOK, EndCredentials, enrollment' = NoEnrollment
  PROVE  AccountInv'
<1>1. \A c \in Codes : codes'[c] # "issued" /\ grants'[c] = <<>>
  BY DEF EndCredentials, TypeOK
<1>2. sessions' = {} /\ tickets' = {}
  BY DEF EndCredentials
<1> QED BY <1>1, <1>2
    DEF AccountInv, ResetEndsAll, SecondFactorIsExclusive, TemporaryAlone

\* A session that rests on the password it is inserted under, and has passed the second factor
\* if there is one, disturbs nothing.
LEMMA SessionAdded ==
  ASSUME TypeOK, AccountInv, NEW mobile \in BOOLEAN, NEW verified \in BOOLEAN,
         NewSession(mobile, verified, password), mfa.on => verified /\ ~mobile,
         mfa'.on = mfa.on, UNCHANGED <<account, enrollment, codes, grants, authority>>,
         tickets' \subseteq tickets
  PROVE  AccountInv'
<1> DEFINE s == [id |-> issued.session + 1, mobile |-> mobile, verified |-> verified,
                 under |-> password]
<1>1. sessions' = sessions \cup {s}
  BY DEF NewSession
<1>2. s.under = password /\ s.verified = verified /\ s.mobile = mobile
  OBVIOUS
<1>3. \A x \in sessions' : x.under = password
  BY <1>1, <1>2 DEF AccountInv, ResetEndsAll
<1>4. mfa'.on => \A x \in sessions' : x.verified /\ ~x.mobile
  <2>1. mfa.on => \A x \in sessions : x.verified /\ ~x.mobile
    BY DEF AccountInv, SecondFactorIsExclusive
  <2> QED BY <1>1, <1>2, <2>1
<1>5. ResetEndsAll'
  BY <1>3 DEF AccountInv, ResetEndsAll, account
<1>6. SecondFactorIsExclusive'
  BY <1>4 DEF AccountInv, SecondFactorIsExclusive, account
<1> QED BY <1>5, <1>6 DEF AccountInv, TemporaryAlone, account

\* What a live session rests on is the password.
LEMMA LiveRests ==
  ASSUME AccountInv, NEW id, LiveSession(id)
  PROVE  UnderOf(id) = password /\ ~temporary /\ ~mfa.on
BY DEF LiveSession, UnderOf, AccountInv, ResetEndsAll

\* The families that there are remain those there were, with nothing issued anew.
LEMMA FamiliesShrink ==
  ASSUME AccountInv, UNCHANGED <<account, mfa, authority>>,
         enrollment' = enrollment \/ enrollment' = NoEnrollment,
         sessions' \subseteq sessions, tickets' \subseteq tickets,
         \A c \in Codes : codes'[c] = "issued" => codes[c] = "issued",
         \A c \in Codes : grants[c] = <<>> => grants'[c] = <<>>
  PROVE  AccountInv'
<1>1. ResetEndsAll'
  BY DEF AccountInv, ResetEndsAll, account
<1>2. SecondFactorIsExclusive'
  BY DEF AccountInv, SecondFactorIsExclusive
<1> QED BY <1>1, <1>2 DEF AccountInv, TemporaryAlone, account

\* Logins: a session comes only under the password it was asked for with.
LEMMA LoginRests ==
  ASSUME TypeOK, AccountInv, NEW r \in Requests, Login(r) PROVE AccountInv'
<1> USE DEF account, factor, external, history
<1>1. CASE BeginLogin(r) \/ LoginMfa(r)
  BY <1>1, FamiliesShrink DEF BeginLogin, LoginMfa
<1>2. CASE IssueSession(r)
  BY <1>2, SessionAdded, FamiliesShrink DEF IssueSession
<1>3. CASE ProveLogin(r)
  <2>1. CASE Valid(r)
    <3>1. NewSession(FALSE, TRUE, password)
      BY <1>3, <2>1 DEF ProveLogin, Valid
    <3>2. mfa'.on = mfa.on
      BY <1>3, <2>1, Columns DEF ProveLogin
    <3> QED BY <1>3, <3>1, <3>2, SessionAdded DEF ProveLogin
  <2> QED BY <1>3, <2>1, FamiliesShrink DEF ProveLogin
<1> QED BY <1>1, <1>2, <1>3 DEF Login

\* Settings: every change of the password or of the factor ends the credentials.
LEMMA SettingsRest ==
  ASSUME TypeOK, AccountInv, NEW r \in Requests, Settings(r) PROVE AccountInv'
<1> USE DEF account, factor, external, history
<1>1. CASE ReadTemporary(r) \/ ConfirmActor(r) \/ ReadEnrollment(r) \/ ReadFactor(r)
  BY <1>1, FamiliesShrink DEF ReadTemporary, ConfirmActor, ReadEnrollment, ReadFactor
<1>2. CASE CompleteSetup(r)
  <2>1. CASE temporary
    <3>1. enrollment' = NoEnrollment
      BY <1>2, <2>1 DEF CompleteSetup, AccountInv, TemporaryAlone
    <3> QED BY <1>2, <2>1, <3>1, NothingLeft DEF CompleteSetup
  <2> QED BY <1>2, <2>1, FamiliesShrink DEF CompleteSetup
<1>3. CASE StartEnrollment(r)
  <2>1. CASE Actor(r) /\ ~mfa.on
    <3>1. enrollment'.under = password /\ ~temporary
      BY <1>3, <2>1 DEF StartEnrollment, Actor
    <3>2. ResetEndsAll'
      BY <1>3, <3>1 DEF StartEnrollment, AccountInv, ResetEndsAll
    <3> QED BY <1>3, <2>1, <3>1, <3>2
        DEF StartEnrollment, AccountInv, SecondFactorIsExclusive, TemporaryAlone
  <2> QED BY <1>3, <2>1, FamiliesShrink DEF StartEnrollment
<1>4. CASE EnableMfa(r)
  BY <1>4, NothingLeft, FamiliesShrink DEF EnableMfa
<1>5. CASE Disable(r)
  BY <1>5, NothingLeft, FamiliesShrink DEF Disable
<1>6. CASE Regenerate(r)
  BY <1>6, NothingLeft, FamiliesShrink DEF Regenerate
<1> QED BY <1>1, <1>2, <1>3, <1>4, <1>5, <1>6 DEF Settings

\* Requests on a session: what they make rests on the password their session rests on.
LEMMA BrowserRests ==
  ASSUME TypeOK, AccountInv, NEW r \in Requests, Browser(r) PROVE AccountInv'
<1> USE DEF account, factor, external, history
<1>1. ASSUME NEW s \in sessions, Authenticate(r, s) PROVE AccountInv'
  BY <1>1, FamiliesShrink DEF Authenticate
<1>2. ASSUME NEW k \in {"pairing", "token"}, MintTicket(r, k) PROVE AccountInv'
  <2>1. CASE LiveSession(Sid(r))
    <3> DEFINE t == [kind |-> k, under |-> UnderOf(Sid(r))]
    <3>1. tickets' = tickets \cup {t} /\ t.under = password /\ ~mfa.on
      BY <1>2, <2>1, LiveRests DEF MintTicket
    <3>2. ResetEndsAll'
      BY <1>2, <3>1 DEF MintTicket, AccountInv, ResetEndsAll
    <3> QED BY <1>2, <3>1, <3>2
        DEF MintTicket, AccountInv, SecondFactorIsExclusive, TemporaryAlone
  <2> QED BY <1>2, <2>1, FamiliesShrink DEF MintTicket
<1>3. ASSUME NEW c \in Codes, Approve(r, c) PROVE AccountInv'
  <2>1. CASE LiveSession(Sid(r))
    <3>1. authority' = [authority EXCEPT ![c] = password] /\ ~mfa.on
      BY <1>3, <2>1, LiveRests DEF Approve
    <3>2. codes' = [codes EXCEPT ![c] = "issued"]
      BY <1>3, <2>1 DEF Approve
    <3>3. \A d \in Codes : (codes'[d] = "issued" \/ grants'[d] # <<>>) => authority'[d] = password
      BY <1>3, <3>1, <3>2 DEF Approve, AccountInv, ResetEndsAll, TypeOK
    <3>4. ResetEndsAll'
      BY <1>3, <3>3 DEF Approve, AccountInv, ResetEndsAll
    <3> QED BY <1>3, <3>1, <3>4
        DEF Approve, AccountInv, SecondFactorIsExclusive, TemporaryAlone
  <2> QED BY <1>3, <2>1, FamiliesShrink DEF Approve
<1>4. ASSUME NEW client \in Clients, Disconnect(r, client) PROVE AccountInv'
  <2>1. \A c \in Codes : codes'[c] = "issued" => codes[c] = "issued"
    BY <1>4 DEF Disconnect
  <2>2. \A c \in Codes : grants[c] = <<>> => grants'[c] = <<>>
    BY <1>4, RevokeRows DEF Disconnect, TypeOK
  <2> QED BY <1>4, <2>1, <2>2, FamiliesShrink DEF Disconnect
<1> QED BY <1>1, <1>2, <1>3, <1>4 DEF Browser

\* OAuth clients: a family descends from a code, and a row from the row before it.
LEMMA ClientRests ==
  ASSUME TypeOK, AccountInv, NEW r \in Requests, Client(r) PROVE AccountInv'
<1> USE DEF account, factor, external, history
<1>1. Fam(r) \in Codes
  BY MovesType DEF Fam
<1>2. CASE \/ \E c \in Codes : ReadCode(r, c) \/ ReadToken(r, c)
           \/ \E c \in Codes : \E i \in DOMAIN grants[c] : ReadGrant(r, c, i)
  BY <1>2, FamiliesShrink DEF ReadCode, ReadToken, ReadGrant
<1>3. ASSUME NEW c \in Codes, NEW rows, ~mfa.on, grants' = [grants EXCEPT ![c] = rows],
             codes[c] = "issued" \/ grants[c] # <<>>,
             \A d \in Codes : codes'[d] = "issued" => codes[d] = "issued",
             UNCHANGED <<account, factor, sessions, tickets, authority>>
      PROVE  AccountInv'
  <2>1. \A d \in Codes : grants'[d] # <<>> => codes[d] = "issued" \/ grants[d] # <<>>
    BY <1>3 DEF TypeOK
  <2>2. ResetEndsAll'
    BY <1>3, <2>1 DEF AccountInv, ResetEndsAll
  <2> QED BY <1>3, <2>2 DEF AccountInv, SecondFactorIsExclusive, TemporaryAlone
<1>4. CASE IssueGrant(r)
  <2>1. CASE codes[Fam(r)] = "issued" /\ ClientsAllowed
    <3>1. \A d \in Codes : codes'[d] = "issued" => codes[d] = "issued"
      BY <1>1, <1>4, <2>1 DEF IssueGrant, TypeOK
    <3> QED BY <1>1, <1>3, <1>4, <2>1, <3>1 DEF IssueGrant, ClientsAllowed
  <2> QED BY <1>4, <2>1, FamiliesShrink DEF IssueGrant
<1>5. CASE Rotate(r)
  <2> DEFINE rotates == /\ req[r].row \in DOMAIN grants[Fam(r)]
                        /\ grants[Fam(r)][req[r].row] = "live" /\ ClientsAllowed
  <2>1. CASE rotates
    <3>1. grants[Fam(r)] # <<>>
      BY <2>1
    <3> QED BY <1>1, <1>3, <1>5, <2>1, <3>1 DEF Rotate, ClientsAllowed
  <2> QED BY <1>5, <2>1, FamiliesShrink DEF Rotate
<1>6. CASE RevokeFamily(r)
  <2>1. \A c \in Codes : grants[c] = <<>> => grants'[c] = <<>>
    BY <1>1, <1>6, RevokeRows DEF RevokeFamily, TypeOK
  <2> QED BY <1>6, <2>1, FamiliesShrink DEF RevokeFamily
<1> QED BY <1>2, <1>4, <1>5, <1>6 DEF Client

\* Devices, administrators and the time.
LEMMA ElsewhereRests == ASSUME TypeOK, AccountInv, Elsewhere PROVE AccountInv'
<1> USE DEF account, factor, external, history
<1>1. CASE (\E s \in sessions : EndSession(s)) \/ (\E t \in tickets : DropTicket(t)) \/ ExpireEnrollment
  BY <1>1, FamiliesShrink DEF EndSession, DropTicket, ExpireEnrollment
<1>2. ASSUME NEW t \in tickets, RedeemPairing(t) PROVE AccountInv'
  <2>1. t.under = password
    BY DEF AccountInv, ResetEndsAll
  <2> QED BY <1>2, <2>1, SessionAdded DEF RedeemPairing
<1>3. CASE ResetPassword
  BY <1>3, NothingLeft DEF ResetPassword
<1>4. ASSUME NEW c \in Codes, ExpireCode(c) PROVE AccountInv'
  <2>1. \A d \in Codes : codes'[d] = "issued" => codes[d] = "issued"
    BY <1>4 DEF ExpireCode, TypeOK
  <2> QED BY <1>4, <2>1, FamiliesShrink DEF ExpireCode
<1>5. ASSUME NEW c \in Codes, NEW i \in DOMAIN grants[c], ExpireGrant(c, i) PROVE AccountInv'
  <2>1. \A d \in Codes : grants[d] = <<>> => grants'[d] = <<>>
    BY <1>5 DEF ExpireGrant, TypeOK
  <2> QED BY <1>5, <2>1, FamiliesShrink DEF ExpireGrant
<1> QED BY <1>1, <1>2, <1>3, <1>4, <1>5 DEF Elsewhere

\* Every step keeps what a password change and the second factor promise.
LEMMA AccountStep == TypeOK /\ AccountInv /\ [Next]_vars => AccountInv'
<1> SUFFICES ASSUME TypeOK, AccountInv, [Next]_vars PROVE AccountInv'
  OBVIOUS
<1>1. CASE UNCHANGED vars
  BY <1>1, FamiliesShrink DEF vars, account, factor, external, history
<1> QED BY <1>1, LoginRests, SettingsRest, BrowserRests, ClientRests, ElsewhereRests DEF Next

\* The invariant holds of every reachable state.
LEMMA AccountInvariant == Spec => [](TypeOK /\ AccountInv)
<1>1. Init => AccountInv
  BY DEF Init, AccountInv, ResetEndsAll, SecondFactorIsExclusive, TemporaryAlone, MfaOff
<1> QED BY <1>1, InitTyped, TypeStep, AccountStep, PTL DEF Spec

\* Nothing of an account outlives a change of its password: neither a session, a pairing code,
\* an API token, an authorization code, a grant nor an enrolment rests on an earlier one, and no
\* request under way when it changed brings any of them back.
THEOREM ResetIsComplete == Spec => []ResetEndsAll
BY AccountInvariant, PTL DEF AccountInv

\* While the second factor is on, nothing opens the account that did not pass it.
THEOREM SecondFactorHolds == Spec => []SecondFactorIsExclusive
BY AccountInvariant, PTL DEF AccountInv

-----------------------------------------------------------------------------
(* Families of grants *)

\* A family has rows only after its code was exchanged, and a code that was exchanged, or whose
\* family ended, is never issued again; hence what a request took for a family stays one.
FromCodes ==
  /\ \A c \in Codes : codes[c] # "gone" => grants[c] = <<>>
  /\ \A c \in ended : codes[c] = "gone"
  /\ \A r \in Requests : req[r].pc \in {"rotate", "revoke"} => codes[Fam(r)] = "gone"
FamilyInv == FromCodes /\ OneLiveGrant /\ EndedStaysEnded

\* A request that moves on takes up no family, or does not come to enable the second factor.
TakesNone ==
  \A r \in Requests : req'[r].pc \in {"rotate", "revoke"} => req'[r] = req[r]
EnablesNone ==
  \A r \in Requests : req'[r].pc = "enable" => req'[r] = req[r]

\* One request moves on to a step that is neither.
LEMMA MovesAside ==
  ASSUME TypeOK, NEW r \in Requests, NEW q, req' = [req EXCEPT ![r] = q]
  PROVE  /\ q.pc \notin {"rotate", "revoke"} => TakesNone
         /\ q.pc # "enable" => EnablesNone
BY DEF TypeOK, TakesNone, EnablesNone

\* One request is done, or goes to a step that is neither.
LEMMA StepsAside ==
  ASSUME TypeOK, NEW r \in Requests
  PROVE  /\ Done(r) => TakesNone /\ EnablesNone
         /\ \A step \in Steps : Goto(r, step) =>
              /\ step \notin {"rotate", "revoke"} => TakesNone
              /\ step # "enable" => EnablesNone
<1>1. Done(r) => TakesNone /\ EnablesNone
  <2>1. Nothing.pc = "idle"
    BY DEF Nothing
  <2> QED BY <2>1, MovesAside DEF Done
<1>2. ASSUME NEW step \in Steps, Goto(r, step)
      PROVE  /\ step \notin {"rotate", "revoke"} => TakesNone
             /\ step # "enable" => EnablesNone
  <2>1. req' = [req EXCEPT ![r] = [req[r] EXCEPT !.pc = step]]
    BY <1>2 DEF Goto
  <2>2. [req[r] EXCEPT !.pc = step].pc = step
    BY Columns DEF Request
  <2> QED BY <2>1, <2>2, MovesAside
<1> QED BY <1>1, <1>2

\* What mfaProof reads is of no family.
LEMMA ReadMfaAside ==
  ASSUME TypeOK, NEW r \in Requests, NEW step \in {"login", "disable", "regenerate"},
         ReadMfa(r, step)
  PROVE  TakesNone /\ EnablesNone
<1>1. PICK p \in Offered :
        req' = [req EXCEPT ![r].pc = step, ![r].used = mfa.used, ![r].proof = p]
  BY DEF ReadMfa
<1>2. req' = [req EXCEPT ![r] = [req[r] EXCEPT !.pc = step, !.used = mfa.used, !.proof = p]]
  BY <1>1, Columns
<1>3. [req[r] EXCEPT !.pc = step, !.used = mfa.used, !.proof = p].pc = step
  BY Columns DEF Request
<1> QED BY <1>2, <1>3, MovesAside

\* Requests that read what no family and no enrolment depends on.
LEMMA ReadsAside ==
  ASSUME TypeOK, NEW r \in Requests
  PROVE  /\ BeginLogin(r) \/ LoginMfa(r) \/ ReadTemporary(r) \/ ConfirmActor(r) \/ ReadFactor(r)
              => TakesNone /\ EnablesNone
         /\ \A s \in sessions : Authenticate(r, s) => TakesNone /\ EnablesNone
<1>1. ASSUME BeginLogin(r) PROVE TakesNone /\ EnablesNone
  <2> DEFINE q == [req[r] EXCEPT !.pc = "mfa", !.pw = password]
  <2>1. req' = [req EXCEPT ![r] = q]
    BY <1>1, Columns DEF BeginLogin
  <2>2. q.pc = "mfa"
    BY Columns DEF Request
  <2> QED BY <2>1, <2>2, MovesAside
<1>2. ASSUME LoginMfa(r) PROVE TakesNone /\ EnablesNone
  BY <1>2, ReadMfaAside, StepsAside DEF LoginMfa, Steps
<1>3. ASSUME ReadTemporary(r) PROVE TakesNone /\ EnablesNone
  BY <1>3, StepsAside DEF ReadTemporary, Steps
<1>4. ASSUME ConfirmActor(r) PROVE TakesNone /\ EnablesNone
  <2> DEFINE q == [req[r] EXCEPT !.pc = "actor", !.pw = password]
  <2>1. req' = [req EXCEPT ![r] = q] \/ Done(r)
    BY <1>4, Columns DEF ConfirmActor
  <2>2. q.pc = "actor"
    BY Columns DEF Request
  <2> QED BY <2>1, <2>2, MovesAside, StepsAside
<1>5. ASSUME ReadFactor(r) PROVE TakesNone /\ EnablesNone
  BY <1>5, ReadMfaAside, StepsAside DEF ReadFactor
<1>6. ASSUME NEW s \in sessions, Authenticate(r, s) PROVE TakesNone /\ EnablesNone
  <2> DEFINE q == [req[r] EXCEPT !.pc = "in", !.sid = s.id, !.temp = temporary]
  <2>1. q.pc = "in"
    BY Columns DEF Request
  <2>2. req' = [req EXCEPT ![r] = q]
    BY <1>6, Columns DEF Authenticate
  <2> QED BY <2>1, <2>2, MovesAside
<1> QED BY <1>1, <1>2, <1>3, <1>4, <1>5, <1>6

\* Nor does a request that presents a code of an enrolment belong to a family.
LEMMA EnrollmentAside ==
  ASSUME TypeOK, NEW r \in Requests, ReadEnrollment(r)
  PROVE  /\ TakesNone
         /\ \A q \in Requests : req'[q].pc = "enable" => req'[q] = req[q] \/ req'[q].proof.kind = "step"
<1>1. PICK n \in Around :
        req' = [req EXCEPT ![r].pc = "enable",
                           ![r].proof = [kind |-> "step", gen |-> enrollment.id, n |-> n]]
  BY DEF ReadEnrollment
<1> DEFINE p == [kind |-> "step", gen |-> enrollment.id, n |-> n]
           q == [req[r] EXCEPT !.pc = "enable", !.proof = p]
<1>2. q.pc = "enable" /\ q.proof = p /\ p.kind = "step"
  BY Columns DEF Request
<1>3. req' = [req EXCEPT ![r] = q]
  BY <1>1, Columns
<1>4. \A x \in Requests : req'[x] = IF x = r THEN q ELSE req[x]
  BY <1>3, Columns
<1> QED BY <1>2, <1>3, <1>4, MovesAside

\* Steps that leave codes and grants alone.
LEMMA FamiliesSame ==
  ASSUME TypeOK, FamilyInv, TakesNone, UNCHANGED <<codes, grants, ended>>
  PROVE  FamilyInv'
BY DEF FamilyInv, FromCodes, OneLiveGrant, EndedStaysEnded, HasLive, TakesNone, Fam

\* The end of all credentials.
LEMMA FamiliesGone ==
  ASSUME TypeOK, FamilyInv, TakesNone, EndCredentials, UNCHANGED ended
  PROVE  FamilyInv'
<1>1. \A c \in Codes : grants'[c] = <<>> /\ codes'[c] # "issued"
  BY DEF EndCredentials, TypeOK
<1>2. \A c \in Codes : codes[c] = "gone" => codes'[c] = "gone"
  BY DEF EndCredentials, TypeOK
<1>3. FromCodes'
  BY <1>1, <1>2, MovesType DEF FamilyInv, FromCodes, TakesNone, Fam, TypeOK
<1>4. OneLiveGrant' /\ EndedStaysEnded'
  BY <1>1 DEF OneLiveGrant, EndedStaysEnded, HasLive, TypeOK
<1> QED BY <1>3, <1>4 DEF FamilyInv

\* Logins handle no family.
LEMMA LoginFamilies ==
  ASSUME TypeOK, FamilyInv, NEW r \in Requests, Login(r) PROVE FamilyInv'
<1> USE DEF external, history
<1>1. CASE BeginLogin(r) \/ LoginMfa(r)
  BY <1>1, ReadsAside, FamiliesSame DEF BeginLogin, LoginMfa
<1>2. CASE IssueSession(r) \/ ProveLogin(r)
  BY <1>2, StepsAside, FamiliesSame DEF IssueSession, ProveLogin
<1> QED BY <1>1, <1>2 DEF Login

\* Settings handle no family, or end them all.
LEMMA SettingsFamilies ==
  ASSUME TypeOK, FamilyInv, NEW r \in Requests, Settings(r) PROVE FamilyInv'
<1> USE DEF external, history
<1>1. CASE ReadTemporary(r) \/ ReadFactor(r) \/ ConfirmActor(r)
  BY <1>1, ReadsAside, FamiliesSame DEF ReadTemporary, ReadFactor, ConfirmActor
<1>2. CASE StartEnrollment(r)
  BY <1>2, StepsAside, FamiliesSame DEF StartEnrollment
<1>3. CASE ReadEnrollment(r)
  BY <1>3, EnrollmentAside, FamiliesSame DEF ReadEnrollment
<1>5. CASE CompleteSetup(r) \/ EnableMfa(r) \/ Disable(r) \/ Regenerate(r)
  BY <1>5, StepsAside, FamiliesSame, FamiliesGone DEF CompleteSetup, EnableMfa, Disable, Regenerate
<1> QED BY <1>1, <1>2, <1>3, <1>5 DEF Settings

\* Requests on a session: an approval issues a code that never was one, and a disconnect takes
\* the codes with the grants.
LEMMA BrowserFamilies ==
  ASSUME TypeOK, FamilyInv, NEW r \in Requests, Browser(r) PROVE FamilyInv'
<1> USE DEF external, history
<1>1. ASSUME NEW s \in sessions, Authenticate(r, s) PROVE FamilyInv'
  BY <1>1, ReadsAside, FamiliesSame DEF Authenticate
<1>2. ASSUME NEW k \in {"pairing", "token"}, MintTicket(r, k) PROVE FamilyInv'
  BY <1>2, StepsAside, FamiliesSame DEF MintTicket
<1>3. ASSUME NEW c \in Codes, Approve(r, c) PROVE FamilyInv'
  <2>1. TakesNone /\ UNCHANGED <<grants, ended>> /\ codes[c] = "none"
    BY <1>3, StepsAside DEF Approve
  <2>2. \A d \in Codes : codes'[d] = codes[d] \/ d = c
    BY <1>3 DEF Approve, TypeOK
  <2>3. FromCodes'
    BY SMTT(30), <2>1, <2>2, MovesType DEF FamilyInv, FromCodes, TakesNone, Fam, TypeOK
  <2>4. EndedStaysEnded' /\ OneLiveGrant'
    BY <2>1, <2>2 DEF FamilyInv, FromCodes, EndedStaysEnded, OneLiveGrant, HasLive, TypeOK
  <2> QED BY <2>3, <2>4 DEF FamilyInv
<1>4. ASSUME NEW client \in Clients, Disconnect(r, client) PROVE FamilyInv'
  <2> DEFINE theirs == {c \in Codes : ClientOf(c) = client}
  <2>1. TakesNone /\ ended' = ended \cup {c \in theirs : codes[c] # "none"}
    BY <1>4, StepsAside DEF Disconnect
  <2>2. \A c \in Codes : codes'[c] = IF c \in theirs /\ codes[c] = "issued" THEN "gone" ELSE codes[c]
    BY <1>4 DEF Disconnect
  <2>3. \A c \in Codes : grants'[c] = IF c \in theirs THEN Revoke(grants[c]) ELSE grants[c]
    BY <1>4 DEF Disconnect
  <2>4. \A c \in Codes : c \in theirs => ~HasLive(grants'[c]) /\ (grants[c] = <<>> => grants'[c] = <<>>)
    BY <2>3, RevokeRows DEF TypeOK
  <2>5. FromCodes'
    <3>1. \A c \in Codes : codes'[c] # "gone" => grants'[c] = <<>>
      BY <2>2, <2>3, <2>4 DEF FamilyInv, FromCodes
    <3>2. \A c \in ended' : codes'[c] = "gone"
      BY <2>1, <2>2 DEF FamilyInv, FromCodes, TypeOK
    <3>3. \A q \in Requests : req'[q].pc \in {"rotate", "revoke"} => codes'[Fam(q)'] = "gone"
      BY <2>1, <2>2, MovesType DEF FamilyInv, FromCodes, TakesNone, Fam
    <3> QED BY <3>1, <3>2, <3>3 DEF FromCodes
  <2>6. OneLiveGrant'
    <3> SUFFICES ASSUME NEW c \in Codes, NEW i \in DOMAIN grants'[c], grants'[c][i] = "live"
                 PROVE  i = Len(grants'[c])
      BY DEF OneLiveGrant
    <3>1. c \notin theirs
      BY <2>4 DEF HasLive
    <3> QED BY <2>3, <3>1 DEF FamilyInv, OneLiveGrant
  <2>7. EndedStaysEnded'
    BY <2>1, <2>2, <2>3, <2>4 DEF FamilyInv, FromCodes, EndedStaysEnded, TypeOK
  <2> QED BY <2>5, <2>6, <2>7 DEF FamilyInv
<1> QED BY <1>1, <1>2, <1>3, <1>4 DEF Browser

\* OAuth clients.  A family gets a row from its code, which is gone then, or from its live row,
\* which is revoked; and who revokes it holds a code that is gone.
LEMMA ClientFamilies ==
  ASSUME TypeOK, FamilyInv, NEW r \in Requests, Client(r) PROVE FamilyInv'
<1> USE DEF external, history
<1>0. Fam(r) \in Codes /\ grants[Fam(r)] \in Seq(GrantState)
  BY MovesType DEF Fam, TypeOK
<1>1. ASSUME NEW c \in Codes, NEW q, codes[c] = "gone", q.fam = c,
             req' = [req EXCEPT ![r] = q], UNCHANGED <<codes, grants, ended>>
      PROVE  FamilyInv'
  <2>1. \A x \in Requests \ {r} : req'[x] = req[x]
    BY <1>1, Columns
  <2>2. req'[r].fam = c
    BY <1>1, Columns
  <2>3. FromCodes'
    BY <1>1, <2>1, <2>2 DEF FamilyInv, FromCodes, Fam
  <2> QED BY <1>1, <2>3 DEF FamilyInv, OneLiveGrant, EndedStaysEnded, HasLive
<1>2. ASSUME NEW c \in Codes, ReadCode(r, c) PROVE FamilyInv'
  <2> DEFINE q == [req[r] EXCEPT !.pc = "exchange", !.fam = c]
  <2>1. q.pc = "exchange"
    BY Columns DEF Request
  <2>2. req' = [req EXCEPT ![r] = q]
    BY <1>2, Columns DEF ReadCode
  <2>3. TakesNone
    BY <2>1, <2>2, MovesAside
  <2> QED BY <1>2, <2>3, FamiliesSame DEF ReadCode
<1>3. ASSUME NEW c \in Codes, ReadToken(r, c) PROVE FamilyInv'
  <2> DEFINE q == [req[r] EXCEPT !.pc = "revoke", !.fam = c]
  <2>1. q.fam = c
    BY Columns DEF Request
  <2>2. req' = [req EXCEPT ![r] = q]
    BY <1>3, Columns DEF ReadToken
  <2>3. codes[c] = "gone"
    BY <1>3 DEF ReadToken, FamilyInv, FromCodes
  <2> QED BY <1>1, <1>3, <2>1, <2>2, <2>3 DEF ReadToken
<1>4. ASSUME NEW c \in Codes, NEW i \in DOMAIN grants[c], ReadGrant(r, c, i) PROVE FamilyInv'
  <2> DEFINE step == IF grants[c][i] = "live" THEN "rotate" ELSE "revoke"
             q == [req[r] EXCEPT !.pc = step, !.fam = c, !.row = i]
  <2>1. q.fam = c
    BY Columns DEF Request
  <2>2. req' = [req EXCEPT ![r] = q]
    BY <1>4, Columns DEF ReadGrant
  <2>3. codes[c] = "gone"
    BY <1>4 DEF FamilyInv, FromCodes
  <2> QED BY <1>1, <1>4, <2>1, <2>2, <2>3 DEF ReadGrant
<1>5. CASE IssueGrant(r)
  <2>1. CASE codes[Fam(r)] = "issued" /\ ClientsAllowed
    <3> DEFINE c == Fam(r)
    <3>1. /\ TakesNone /\ ended' = ended
          /\ codes' = [codes EXCEPT ![c] = "gone"]
          /\ grants' = [grants EXCEPT ![c] = Append(grants[c], "live")]
      BY <1>5, <2>1, StepsAside DEF IssueGrant
    <3>2. grants[c] = <<>> /\ c \notin ended
      BY <2>1, <1>0 DEF FamilyInv, FromCodes, EndedStaysEnded
    <3>3. \A d \in Codes : codes'[d] = IF d = c THEN "gone" ELSE codes[d]
      BY <3>1 DEF TypeOK
    <3>4. \A d \in Codes : grants'[d] = IF d = c THEN <<"live">> ELSE grants[d]
      BY <3>1, <3>2 DEF TypeOK
    <3>5. FromCodes'
      BY SMTT(30), <3>1, <3>3, <3>4, MovesType DEF FamilyInv, FromCodes, TakesNone, Fam, TypeOK
    <3>6. OneLiveGrant'
      <4>1. Len(<<"live">>) = 1 /\ DOMAIN <<"live">> = 1..1
        OBVIOUS
      <4>2. \A i \in DOMAIN <<"live">> : i = Len(<<"live">>)
        BY <4>1
      <4> QED BY <3>4, <4>2 DEF FamilyInv, OneLiveGrant
    <3>7. EndedStaysEnded'
      BY <3>1, <3>2, <3>3, <3>4 DEF FamilyInv, EndedStaysEnded, TypeOK
    <3> QED BY <3>5, <3>6, <3>7 DEF FamilyInv
  <2> QED BY <1>5, <2>1, StepsAside, FamiliesSame DEF IssueGrant
<1>6. CASE Rotate(r)
  <2> DEFINE c == Fam(r)
             i == req[r].row
  <2>1. CASE i \in DOMAIN grants[c] /\ grants[c][i] = "live" /\ ClientsAllowed
    <3> DEFINE parent == [grants[c] EXCEPT ![i] = "revoked"]
               rows == Append(parent, "live")
    <3>1. /\ TakesNone /\ UNCHANGED <<codes, ended>>
          /\ grants' = [grants EXCEPT ![c] = rows]
      BY <1>6, <2>1, StepsAside DEF Rotate
    <3>2. grants[c] # <<>> /\ codes[c] = "gone" /\ c \notin ended /\ i = Len(grants[c])
      BY <1>0, <2>1 DEF FamilyInv, FromCodes, OneLiveGrant, EndedStaysEnded, HasLive
    <3>3. \A d \in Codes : grants'[d] = IF d = c THEN rows ELSE grants[d]
      BY <3>1 DEF TypeOK
    <3>4. parent \in Seq(GrantState) /\ Len(parent) = Len(grants[c])
      BY <1>0, <2>1, ChangeRow DEF GrantState
    <3>5. \A j \in DOMAIN rows : rows[j] = "live" => j = Len(rows)
      <4> SUFFICES ASSUME NEW j \in DOMAIN rows, rows[j] = "live", j # Len(rows) PROVE FALSE
        OBVIOUS
      <4>1. j \in 1..Len(parent) /\ rows[j] = parent[j]
        BY <3>4
      <4>2. j # i /\ grants[c][j] = "live"
        BY <1>0, <2>1, <3>4, <4>1
      <4>3. j = Len(grants[c])
        BY <1>0, <3>4, <4>1, <4>2 DEF FamilyInv, OneLiveGrant
      <4> QED BY <3>2, <4>2, <4>3
    <3>6. FromCodes'
      BY <3>1, <3>2, <3>3 DEF FamilyInv, FromCodes, TakesNone, Fam
    <3>7. OneLiveGrant'
      BY <3>3, <3>5 DEF FamilyInv, OneLiveGrant
    <3>8. EndedStaysEnded'
      BY <3>1, <3>2, <3>3 DEF FamilyInv, EndedStaysEnded, TypeOK
    <3> QED BY <3>6, <3>7, <3>8 DEF FamilyInv
  <2>2. CASE ~(i \in DOMAIN grants[c] /\ grants[c][i] = "live" /\ ClientsAllowed)
    <3>1. codes[c] = "gone"
      BY <1>0, <1>6 DEF Rotate, At, FamilyInv, FromCodes
    <3>2. req' = [req EXCEPT ![r] = [req[r] EXCEPT !.pc = "revoke"]]
      BY <1>6, <2>2 DEF Rotate, Goto
    <3>3. [req[r] EXCEPT !.pc = "revoke"].fam = c
      BY Columns DEF Request, Fam
    <3> QED BY <1>0, <1>1, <1>6, <2>2, <3>1, <3>2, <3>3 DEF Rotate
  <2> QED BY <2>1, <2>2
<1>7. CASE RevokeFamily(r)
  <2> DEFINE c == Fam(r)
  <2>1. codes[c] = "gone" /\ TakesNone /\ codes' = codes /\ ended' = ended \cup {c}
    BY <1>0, <1>7, StepsAside DEF RevokeFamily, At, FamilyInv, FromCodes
  <2>2. \A d \in Codes : grants'[d] = IF d = c THEN Revoke(grants[c]) ELSE grants[d]
    BY <1>7 DEF RevokeFamily, TypeOK
  <2>3. ~HasLive(Revoke(grants[c]))
    BY <1>0, RevokeRows
  <2>4. FromCodes'
    BY <2>1, <2>2 DEF FamilyInv, FromCodes, TakesNone, Fam
  <2>5. OneLiveGrant'
    BY <2>2, <2>3 DEF FamilyInv, OneLiveGrant, HasLive
  <2>6. EndedStaysEnded'
    <3>1. \A d \in ended : d \in Codes /\ codes[d] # "issued" /\ ~HasLive(grants[d])
      BY DEF FamilyInv, EndedStaysEnded, TypeOK
    <3>2. \A d \in ended' : codes'[d] # "issued"
      BY <2>1, <3>1
    <3>3. \A d \in ended' : ~HasLive(grants'[d])
      BY <1>0, <2>1, <2>2, <2>3, <3>1
    <3> QED BY <3>2, <3>3 DEF EndedStaysEnded, HasLive
  <2> QED BY <2>4, <2>5, <2>6 DEF FamilyInv
<1> QED BY <1>2, <1>3, <1>4, <1>5, <1>6, <1>7 DEF Client

\* Devices, administrators and the time.
LEMMA ElsewhereFamilies == ASSUME TypeOK, FamilyInv, Elsewhere PROVE FamilyInv'
<1> USE DEF external, history
<1>1. req' = req => TakesNone
  BY DEF TakesNone
<1>2. CASE \/ \E s \in sessions : EndSession(s)
           \/ \E t \in tickets : DropTicket(t) \/ RedeemPairing(t)
           \/ ExpireEnrollment
  BY <1>1, <1>2, FamiliesSame DEF EndSession, DropTicket, RedeemPairing, ExpireEnrollment
<1>3. CASE ResetPassword
  BY <1>1, <1>3, FamiliesGone DEF ResetPassword
<1>4. ASSUME NEW c \in Codes, ExpireCode(c) PROVE FamilyInv'
  <2>1. \A d \in Codes : codes'[d] = IF d = c THEN "gone" ELSE codes[d]
    BY <1>4 DEF ExpireCode, TypeOK
  <2>2. FromCodes'
    BY <1>4, <2>1, MovesType DEF ExpireCode, FamilyInv, FromCodes, Fam, TypeOK
  <2> QED BY <1>4, <2>1, <2>2
      DEF ExpireCode, FamilyInv, OneLiveGrant, EndedStaysEnded, HasLive, TypeOK
<1>5. ASSUME NEW c \in Codes, NEW i \in DOMAIN grants[c], ExpireGrant(c, i) PROVE FamilyInv'
  <2> DEFINE rows == [grants[c] EXCEPT ![i] = "expired"]
  <2>1. \A d \in Codes : grants'[d] = IF d = c THEN rows ELSE grants[d]
    BY <1>5 DEF ExpireGrant, TypeOK
  <2>2. rows \in Seq(GrantState) /\ Len(rows) = Len(grants[c])
    BY ChangeRow DEF TypeOK, GrantState
  <2>3. \A j \in DOMAIN rows : rows[j] = "live" => j \in DOMAIN grants[c] /\ grants[c][j] = "live"
    BY DEF TypeOK
  <2>4. grants[c] = <<>> => FALSE
    OBVIOUS
  <2>5. FromCodes'
    BY <1>5, <2>1, <2>4 DEF ExpireGrant, FamilyInv, FromCodes, Fam
  <2>6. OneLiveGrant'
    BY <2>1, <2>2, <2>3 DEF FamilyInv, OneLiveGrant
  <2>7. EndedStaysEnded'
    BY <1>5, <2>1, <2>3 DEF ExpireGrant, FamilyInv, EndedStaysEnded, HasLive, TypeOK
  <2> QED BY <2>5, <2>6, <2>7 DEF FamilyInv
<1> QED BY <1>2, <1>3, <1>4, <1>5 DEF Elsewhere

\* Every step keeps the families.
LEMMA FamilyStep == TypeOK /\ FamilyInv /\ [Next]_vars => FamilyInv'
<1> SUFFICES ASSUME TypeOK, FamilyInv, [Next]_vars PROVE FamilyInv'
  OBVIOUS
<1>1. CASE UNCHANGED vars
  BY <1>1, FamiliesSame DEF vars, external, history, TakesNone
<1> QED BY <1>1, LoginFamilies, SettingsFamilies, BrowserFamilies, ClientFamilies,
           ElsewhereFamilies DEF Next

\* The invariant holds of every reachable state.
LEMMA FamilyInvariant == Spec => []FamilyInv
<1>1. Init => FamilyInv
  BY DEF Init, FamilyInv, FromCodes, OneLiveGrant, EndedStaysEnded, Nothing
<1> QED BY <1>1, InitTyped, TypeStep, FamilyStep, PTL DEF Spec

\* However many clients rotate one refresh token at once, one of them gets a successor: a family
\* never has two live rows.
THEOREM RotationIsExclusive == Spec => []OneLiveGrant
BY FamilyInvariant, PTL DEF FamilyInv

\* A family that was replayed, revoked or disconnected has no live row and no code to get one
\* from, whichever exchanges and rotations were under way.
THEOREM RevokedForGood == Spec => []EndedStaysEnded
BY FamilyInvariant, PTL DEF FamilyInv

-----------------------------------------------------------------------------
(* Proofs of the second factor *)

\* Enrolments and recovery codes are numbered as they are made.  Every authenticator code that
\* counted is of an enrolment that is over, and no later than last_used_step while its secret
\* is the account's; every recovery code that counted is gone.  Hence what a request presents
\* never counted before the UPDATE lets it through.
Numbered ==
  /\ mfa.gen <= issued.enrollment /\ enrollment.id <= issued.enrollment
  /\ mfa.on => mfa.gen > 0
  /\ \A n \in recovery : n <= issued.recovery
StepsSpent ==
  \A p \in spent : p.kind = "step" =>
    /\ p.gen \in 1..issued.enrollment
    /\ p.gen # enrollment.id
    /\ mfa.on /\ mfa.gen = p.gen => p.n <= mfa.used
RecoverySpent ==
  \A p \in spent : p.kind = "recovery" => p.n \notin recovery /\ p.n <= issued.recovery
EnablesWithStep == \A r \in Requests : At(r, "enable") => req[r].proof.kind = "step"
ProofInv == Numbered /\ StepsSpent /\ RecoverySpent /\ EnablesWithStep /\ ProofsCountOnce

\* Steps that accept no proof and start no enrolment.
LEMMA NothingProved ==
  ASSUME TypeOK, ProofInv, EnablesNone, UNCHANGED <<mfa, recovery, spent, respent>>,
         enrollment' = enrollment \/ enrollment' = NoEnrollment,
         issued'.enrollment = issued.enrollment, issued'.recovery = issued.recovery
  PROVE  ProofInv'
<1>1. EnablesWithStep'
  BY DEF ProofInv, EnablesWithStep, EnablesNone, At
<1>2. Numbered'
  BY Columns DEF ProofInv, Numbered, NoEnrollment
<1>3. StepsSpent'
  BY DEF ProofInv, StepsSpent, NoEnrollment
<1> QED BY <1>1, <1>2, <1>3 DEF ProofInv, RecoverySpent, ProofsCountOnce

\* The numbers of a session are its own.
LEMMA NewSessionNumbers ==
  ASSUME TypeOK, NEW mobile, NEW verified, NEW under, NewSession(mobile, verified, under)
  PROVE  issued'.enrollment = issued.enrollment /\ issued'.recovery = issued.recovery
BY Columns DEF NewSession

\* A proof that the UPDATE lets through never counted before.
LEMMA ValidIsNew ==
  ASSUME TypeOK, ProofInv, NEW r \in Requests, Valid(r)
  PROVE  req[r].proof \notin spent
<1>1. req[r].proof \in Proof /\ mfa.used \in Nat
  BY MovesType, Columns
<1> QED BY <1>1 DEF Valid, ProofInv, StepsSpent, RecoverySpent, Proof

\* After a valid proof: it counts, and the factor remembers it.
LEMMA Proved ==
  ASSUME TypeOK, AccountInv, ProofInv, NEW r \in Requests, Valid(r), EnablesNone,
         mfa' = [mfa EXCEPT !.used = UsedAfter(r)], Spend(req[r].proof),
         issued'.enrollment = issued.enrollment,
         enrollment' = enrollment \/ enrollment' = NoEnrollment,
         \/ recovery' = RecoveryAfter(r) /\ issued'.recovery = issued.recovery
         \/ recovery' = {issued.recovery + 1} /\ issued'.recovery = issued.recovery + 1
  PROVE  ProofInv'
<1> DEFINE p == req[r].proof
<1>1. p \in Proof /\ mfa.used \in Nat /\ mfa.gen \in Nat /\ mfa \in [on : BOOLEAN, gen : Nat, used : Nat]
  BY MovesType, Columns
<1>2. issued.enrollment \in Nat /\ issued.recovery \in Nat
  BY Columns
<1>3. /\ mfa'.on = mfa.on /\ mfa'.gen = mfa.gen /\ mfa'.used = UsedAfter(r)
      /\ UsedAfter(r) \in Nat /\ mfa.used <= UsedAfter(r) /\ RecoveryAfter(r) \subseteq recovery
      /\ p.kind = "step" => p.n <= UsedAfter(r)
  BY <1>1, ProofType
<1>4. spent' = spent \cup {p} /\ respent' = respent
  BY ValidIsNew DEF Spend
<1>5. enrollment.id = 0 /\ enrollment'.id = 0
  BY DEF Valid, AccountInv, SecondFactorIsExclusive, NoEnrollment
<1>6. \A x \in spent : x \in Proof
  BY DEF TypeOK
<1>7. Numbered'
  BY <1>1, <1>2, <1>3, <1>5 DEF ProofInv, Numbered, TypeOK
<1>8. StepsSpent'
  <2> SUFFICES ASSUME NEW x \in spent', x.kind = "step"
               PROVE  /\ x.gen \in 1..issued'.enrollment /\ x.gen # enrollment'.id
                      /\ mfa'.on /\ mfa'.gen = x.gen => x.n <= mfa'.used
    BY DEF StepsSpent
  <2>1. CASE x \in spent
    <3>1. x.gen \in 1..issued.enrollment /\ (mfa.on /\ mfa.gen = x.gen => x.n <= mfa.used)
      BY <2>1 DEF ProofInv, StepsSpent
    <3>2. x.n \in Nat
      BY <1>6, <2>1 DEF Proof
    <3> QED BY <1>1, <1>2, <1>3, <1>5, <3>1, <3>2
  <2>2. CASE x = p
    <3>1. p.gen = mfa.gen /\ mfa.on
      BY DEF Valid
    <3>2. mfa.gen > 0 /\ mfa.gen <= issued.enrollment
      BY <3>1 DEF ProofInv, Numbered
    <3> QED BY <1>1, <1>2, <1>3, <1>5, <2>2, <3>1, <3>2
  <2> QED BY <1>4, <2>1, <2>2
<1>9. RecoverySpent'
  <2> SUFFICES ASSUME NEW x \in spent', x.kind = "recovery"
               PROVE  x.n \notin recovery' /\ x.n <= issued'.recovery
    BY DEF RecoverySpent
  <2>1. x.n \in Nat
    BY <1>1, <1>4, <1>6 DEF Proof
  <2>2. x.n <= issued.recovery
    BY <1>4 DEF Valid, ProofInv, RecoverySpent, Numbered
  <2>3. CASE recovery' = RecoveryAfter(r) /\ issued'.recovery = issued.recovery
    BY <1>4, <2>2, <2>3 DEF RecoveryAfter, ProofInv, RecoverySpent
  <2>4. CASE recovery' = {issued.recovery + 1} /\ issued'.recovery = issued.recovery + 1
    BY <1>2, <2>1, <2>2, <2>4
  <2> QED BY <2>3, <2>4
<1>10. EnablesWithStep'
  BY DEF ProofInv, EnablesWithStep, EnablesNone, At
<1> QED BY <1>4, <1>7, <1>8, <1>9, <1>10 DEF ProofInv, ProofsCountOnce

\* Logins: the batch accepts a proof once.
LEMMA LoginProves ==
  ASSUME TypeOK, AccountInv, ProofInv, NEW r \in Requests, Login(r) PROVE ProofInv'
<1> USE DEF factor, history
<1>1. CASE BeginLogin(r) \/ LoginMfa(r)
  BY <1>1, ReadsAside, NothingProved DEF BeginLogin, LoginMfa
<1>2. CASE IssueSession(r)
  BY <1>2, StepsAside, NewSessionNumbers, NothingProved DEF IssueSession
<1>3. CASE ProveLogin(r)
  <2>1. CASE Valid(r)
    BY <1>3, <2>1, StepsAside, NewSessionNumbers, Proved DEF ProveLogin
  <2> QED BY <1>3, <2>1, StepsAside, NothingProved DEF ProveLogin
<1> QED BY <1>1, <1>2, <1>3 DEF Login

\* Settings: an enrolment has a number of its own, and its first code counts with it.
LEMMA SettingsProve ==
  ASSUME TypeOK, AccountInv, ProofInv, NEW r \in Requests, Settings(r) PROVE ProofInv'
<1> USE DEF factor, history
<1>0. issued.enrollment \in Nat /\ issued.recovery \in Nat /\ req[r].proof \in Proof
  BY Columns, MovesType
<1>1. CASE ReadTemporary(r) \/ ConfirmActor(r) \/ ReadFactor(r)
  BY <1>1, ReadsAside, NothingProved DEF ReadTemporary, ConfirmActor, ReadFactor
<1>2. CASE CompleteSetup(r)
  BY <1>2, StepsAside, NothingProved DEF CompleteSetup
<1>3. CASE StartEnrollment(r)
  <2>1. CASE Actor(r) /\ ~mfa.on
    <3>1. /\ issued'.enrollment = issued.enrollment + 1 /\ issued'.recovery = issued.recovery
          /\ enrollment'.id = issued.enrollment + 1
          /\ UNCHANGED <<mfa, recovery, spent, respent>>
      BY <1>3, <2>1, Columns DEF StartEnrollment
    <3>2. EnablesWithStep'
      BY <1>3, StepsAside DEF StartEnrollment, ProofInv, EnablesWithStep, EnablesNone, At
    <3>3. Numbered'
      BY <1>0, <3>1, Columns DEF ProofInv, Numbered
    <3>4. StepsSpent'
      BY <1>0, <3>1 DEF ProofInv, StepsSpent
    <3> QED BY <3>1, <3>2, <3>3, <3>4 DEF ProofInv, RecoverySpent, ProofsCountOnce
  <2> QED BY <1>3, <2>1, StepsAside, NothingProved DEF StartEnrollment
<1>4. CASE ReadEnrollment(r)
  <2>1. EnablesWithStep'
    BY <1>4, EnrollmentAside DEF ProofInv, EnablesWithStep, At
  <2> QED BY <1>4, <2>1
      DEF ReadEnrollment, ProofInv, Numbered, StepsSpent, RecoverySpent, ProofsCountOnce
<1>5. CASE EnableMfa(r)
  <2> DEFINE p == req[r].proof
  <2>1. CASE Enrolled(r) /\ enrollment.id = req[r].proof.gen /\ Actor(r) /\ ~mfa.on
    <3>1. /\ mfa' = [on |-> TRUE, gen |-> p.gen, used |-> p.n]
          /\ enrollment' = NoEnrollment /\ Spend(p) /\ NewRecovery /\ EnablesNone
      BY <1>5, <2>1, StepsAside DEF EnableMfa
    <3>2. p.kind = "step" /\ p.gen = enrollment.id /\ p.gen > 0 /\ p.gen <= issued.enrollment
      BY <1>5, <2>1 DEF EnableMfa, Enrolled, ProofInv, EnablesWithStep, Numbered
    <3>3. p \notin spent
      BY <3>2 DEF ProofInv, StepsSpent
    <3>4. spent' = spent \cup {p} /\ respent' = respent
      BY <3>1, <3>3 DEF Spend
    <3>5. /\ issued'.enrollment = issued.enrollment /\ issued'.recovery = issued.recovery + 1
          /\ recovery' = {issued.recovery + 1}
      BY <3>1, Columns DEF NewRecovery
    <3>6. p.gen \in Nat /\ p.n \in Nat
      BY <1>0 DEF Proof
    <3>7. Numbered'
      BY <1>0, <3>1, <3>2, <3>5, <3>6 DEF Numbered, NoEnrollment
    <3>8. StepsSpent'
      <4> SUFFICES ASSUME NEW x \in spent', x.kind = "step"
                   PROVE  /\ x.gen \in 1..issued'.enrollment /\ x.gen # enrollment'.id
                          /\ mfa'.on /\ mfa'.gen = x.gen => x.n <= mfa'.used
        BY DEF StepsSpent
      <4>1. CASE x \in spent
        BY <3>1, <3>2, <3>5, <4>1 DEF ProofInv, StepsSpent, NoEnrollment
      <4>2. CASE x = p
        BY <1>0, <3>1, <3>2, <3>5, <3>6, <4>2 DEF NoEnrollment
      <4> QED BY <3>4, <4>1, <4>2
    <3>9. RecoverySpent'
      <4> SUFFICES ASSUME NEW x \in spent', x.kind = "recovery"
                   PROVE  x.n \notin recovery' /\ x.n <= issued'.recovery
        BY DEF RecoverySpent
      <4>1. x \in spent /\ x \in Proof
        BY <3>2, <3>4 DEF TypeOK
      <4>2. x.n <= issued.recovery /\ x.n \in Nat
        BY <4>1 DEF ProofInv, RecoverySpent, Proof
      <4> QED BY <1>0, <3>5, <4>2
    <3>10. EnablesWithStep'
      BY <3>1 DEF ProofInv, EnablesWithStep, EnablesNone, At
    <3> QED BY <3>4, <3>7, <3>8, <3>9, <3>10 DEF ProofInv, ProofsCountOnce
  <2> QED BY <1>5, <2>1, StepsAside, NothingProved DEF EnableMfa
<1>6. CASE ReadFactor(r)
  BY <1>1, <1>6
<1>7. CASE Disable(r)
  <2>1. CASE Valid(r) /\ Alive(Sid(r))
    <3> DEFINE p == req[r].proof
    <3>1. /\ mfa' = MfaOff /\ recovery' = {} /\ enrollment' = NoEnrollment /\ issued' = issued
          /\ Spend(p) /\ EnablesNone
      BY <1>7, <2>1, StepsAside DEF Disable
    <3>2. spent' = spent \cup {p} /\ respent' = respent
      BY <2>1, <3>1, ValidIsNew DEF Spend
    <3>3. /\ p.gen = mfa.gen /\ mfa.gen > 0 /\ mfa.gen <= issued.enrollment /\ p.gen \in Nat
          /\ p.kind = "recovery" => p.n <= issued.recovery
      BY <1>0, <2>1 DEF Valid, ProofInv, Numbered, Proof
    <3>4. Numbered'
      BY <1>0, <3>1 DEF Numbered, MfaOff, NoEnrollment
    <3>5. StepsSpent'
      BY <1>0, <3>1, <3>2, <3>3 DEF ProofInv, StepsSpent, MfaOff, NoEnrollment
    <3>6. RecoverySpent'
      BY <3>1, <3>2, <3>3 DEF ProofInv, RecoverySpent
    <3>7. EnablesWithStep'
      BY <3>1 DEF ProofInv, EnablesWithStep, EnablesNone, At
    <3> QED BY <3>2, <3>4, <3>5, <3>6, <3>7 DEF ProofInv, ProofsCountOnce
  <2> QED BY <1>7, <2>1, StepsAside, NothingProved DEF Disable
<1>8. CASE Regenerate(r)
  <2>1. CASE Valid(r) /\ Alive(Sid(r))
    <3>1. /\ issued'.enrollment = issued.enrollment /\ issued'.recovery = issued.recovery + 1
          /\ recovery' = {issued.recovery + 1}
      BY <1>8, <2>1, Columns DEF Regenerate, NewRecovery
    <3> QED BY <1>8, <2>1, <3>1, StepsAside, Proved DEF Regenerate
  <2> QED BY <1>8, <2>1, StepsAside, NothingProved DEF Regenerate
<1> QED BY <1>1, <1>2, <1>3, <1>4, <1>5, <1>6, <1>7, <1>8 DEF Settings

\* Everything else accepts no proof.
LEMMA OthersProve ==
  ASSUME TypeOK, ProofInv, Elsewhere \/ \E r \in Requests : Browser(r) \/ Client(r)
  PROVE  ProofInv'
<1> USE DEF factor, history
<1>1. CASE Elsewhere
  <2>1. EnablesNone
    BY <1>1 DEF Elsewhere, EndSession, DropTicket, RedeemPairing, ResetPassword, ExpireCode,
                ExpireGrant, ExpireEnrollment, EnablesNone
  <2>2. /\ UNCHANGED <<mfa, recovery, spent, respent>>
        /\ enrollment' = enrollment \/ enrollment' = NoEnrollment
    BY <1>1 DEF Elsewhere, EndSession, DropTicket, RedeemPairing, ResetPassword, ExpireCode,
                ExpireGrant, ExpireEnrollment
  <2>3. issued'.enrollment = issued.enrollment /\ issued'.recovery = issued.recovery
    BY <1>1, NewSessionNumbers DEF Elsewhere, EndSession, DropTicket, RedeemPairing,
             ResetPassword, ExpireCode, ExpireGrant, ExpireEnrollment
  <2> QED BY <2>1, <2>2, <2>3, NothingProved
<1>2. ASSUME NEW r \in Requests, Browser(r) PROVE ProofInv'
  <2>1. EnablesNone
    BY <1>2, ReadsAside, StepsAside DEF Browser, MintTicket, Approve, Disconnect
  <2> QED BY <1>2, <2>1, NothingProved DEF Browser, Authenticate, MintTicket, Approve, Disconnect
<1>3. ASSUME NEW r \in Requests, Client(r) PROVE ProofInv'
  <2>1. ASSUME NEW c \in Codes, ReadCode(r, c) PROVE EnablesNone
    <3> DEFINE q == [req[r] EXCEPT !.pc = "exchange", !.fam = c]
    <3>1. q.pc = "exchange" /\ req' = [req EXCEPT ![r] = q]
      BY <2>1, Columns DEF ReadCode, Request
    <3> QED BY <3>1, MovesAside
  <2>2. ASSUME NEW c \in Codes, ReadToken(r, c) PROVE EnablesNone
    <3> DEFINE q == [req[r] EXCEPT !.pc = "revoke", !.fam = c]
    <3>1. q.pc = "revoke" /\ req' = [req EXCEPT ![r] = q]
      BY <2>2, Columns DEF ReadToken, Request
    <3> QED BY <3>1, MovesAside
  <2>3. ASSUME NEW c \in Codes, NEW i \in DOMAIN grants[c], ReadGrant(r, c, i) PROVE EnablesNone
    <3> DEFINE step == IF grants[c][i] = "live" THEN "rotate" ELSE "revoke"
               q == [req[r] EXCEPT !.pc = step, !.fam = c, !.row = i]
    <3>1. q.pc = step /\ step # "enable"
      BY Columns DEF Request
    <3>2. req' = [req EXCEPT ![r] = q]
      BY <2>3, Columns DEF ReadGrant
    <3> QED BY <3>1, <3>2, MovesAside
  <2>4. IssueGrant(r) \/ Rotate(r) \/ RevokeFamily(r) => EnablesNone
    BY StepsAside DEF IssueGrant, Rotate, RevokeFamily, Steps
  <2>5. EnablesNone
    BY <1>3, <2>1, <2>2, <2>3, <2>4 DEF Client
  <2> QED BY <1>3, <2>5, NothingProved
      DEF Client, ReadCode, ReadToken, ReadGrant, IssueGrant, Rotate, RevokeFamily
<1> QED BY <1>1, <1>2, <1>3

\* Every step keeps the account of the proofs.
LEMMA ProofStep == TypeOK /\ AccountInv /\ ProofInv /\ [Next]_vars => ProofInv'
<1> SUFFICES ASSUME TypeOK, AccountInv, ProofInv, [Next]_vars PROVE ProofInv'
  OBVIOUS
<1>1. CASE UNCHANGED vars
  BY <1>1, NothingProved DEF vars, factor, history, EnablesNone
<1> QED BY <1>1, LoginProves, SettingsProve, OthersProve DEF Next

\* An authenticator code, and a recovery code, opens the account or changes the second factor
\* at most once, however many requests present it at the same time and however the factor
\* changes meanwhile.
THEOREM EveryProofOnce == Spec => []ProofsCountOnce
<1>1. Init => ProofInv
  BY DEF Init, ProofInv, Numbered, StepsSpent, RecoverySpent, EnablesWithStep, ProofsCountOnce,
         MfaOff, NoEnrollment, Nothing, At
<1>2. ProofInv => ProofsCountOnce
  BY DEF ProofInv
<1> QED BY <1>1, <1>2, AccountInvariant, ProofStep, PTL DEF Spec

-----------------------------------------------------------------------------
(* The promise to the owner *)

\* What the owner was promised, read off the account's state.
Held == [c \in Codes |-> Family(c)]
Resting ==
  /\ UNCHANGED <<password, sessions, tickets, ended, spent>>
  /\ mfa'.on = mfa.on /\ issued'.session = issued.session
Promised == Access!Next \/ (Resting /\ Held' = Held)

\* Families as they were, but for those in F, which are over.
EndsOnly(F) ==
  \A c \in Codes :
    Family(c)' = IF c \in F /\ Family(c) # "none" THEN "over" ELSE Family(c)

\* A step that touches no code and no grant touches no family.
LEMMA FamiliesRest == UNCHANGED <<codes, grants>> => Held' = Held /\ EndsOnly({})
BY DEF Held, EndsOnly, Family, HasLive

\* What goes by itself: sessions, tickets and families.
LEMMA PromiseLapse ==
  ASSUME NEW F \in SUBSET Codes, EndsOnly(F), sessions' \subseteq sessions,
         tickets' \subseteq tickets, UNCHANGED <<password, ended, spent>>,
         mfa'.on = mfa.on, issued'.session = issued.session
  PROVE  Promised
<1>1. Held' = Access!Over(F)
  BY DEF EndsOnly, Held, Access!Over
<1>2. Access!Lapse(F)
  BY <1>1 DEF Access!Lapse, Held
<1> QED BY <1>2 DEF Promised, Access!Next

\* What somebody revokes.
LEMMA PromiseRevoke ==
  ASSUME NEW F \in SUBSET Codes, EndsOnly(F), ended' = ended \cup {c \in F : Family(c) # "none"},
         UNCHANGED <<password, sessions, tickets, spent>>,
         mfa'.on = mfa.on, issued'.session = issued.session
  PROVE  Promised
<1>1. Held' = Access!Over(F)
  BY DEF EndsOnly, Held, Access!Over
<1>2. {c \in F : Family(c) # "none"} = {c \in F : Held[c] # "none"}
  BY DEF Held
<1>3. Access!Revoke(F)
  BY <1>1, <1>2 DEF Access!Revoke, Held
<1> QED BY <1>3 DEF Promised, Access!Next

\* The DELETEs of a change end every session, ticket and family.
LEMMA PromiseAllOver == ASSUME TypeOK, EndCredentials PROVE Access!AllOver
<1>1. ASSUME NEW c \in Codes
      PROVE  Family(c)' = IF Family(c) # "none" THEN "over" ELSE "none"
  <2>1. codes[c] \in {"none", "issued", "gone"}
    BY DEF TypeOK
  <2>2. codes'[c] = (IF codes[c] = "issued" THEN "gone" ELSE codes[c]) /\ grants'[c] = <<>>
    BY DEF EndCredentials
  <2>3. ~HasLive(grants'[c])
    BY <2>2 DEF HasLive
  <2> QED BY <2>1, <2>2, <2>3 DEF Family
<1>2. Held' = Access!Over(Codes)
  BY <1>1 DEF Held, Access!Over
<1> QED BY <1>2 DEF Access!AllOver, EndCredentials, Held

\* A change of the password.
LEMMA PromisePassword ==
  ASSUME TypeOK, EndCredentials, password' = password + 1, UNCHANGED <<mfa, issued, ended, spent>>
  PROVE  Promised
BY PromiseAllOver DEF Promised, Access!Next, Access!ChangePassword

\* A proof that counts now did not count before.
LEMMA PromiseProved ==
  ASSUME ProofsCountOnce', NEW p, Spend(p)
  PROVE  Access!Proved
BY DEF ProofsCountOnce, Spend, Access!Proved

\* A change of the second factor.
LEMMA PromiseFactor ==
  ASSUME TypeOK, EndCredentials, ProofsCountOnce', NEW p, Spend(p), mfa'.on \in BOOLEAN,
         issued'.session = issued.session, UNCHANGED <<password, ended>>
  PROVE  Promised
BY PromiseAllOver, PromiseProved DEF Promised, Access!Next, Access!ChangeFactor

\* A session is born under the present password.
LEMMA PromiseBorn ==
  ASSUME TypeOK, NEW mobile, NEW verified, NewSession(mobile, verified, password)
  PROVE  Access!Born
<1> DEFINE s == [id |-> issued.session + 1, mobile |-> mobile, verified |-> verified,
                 under |-> password]
<1>1. s \in sessions' /\ s.id = issued.session + 1 /\ s.under = password
      /\ sessions' = sessions \cup {s}
  BY DEF NewSession
<1>2. issued'.session = issued.session + 1
  BY Columns DEF NewSession
<1> QED BY <1>1, <1>2 DEF Access!Born

\* Logins: with the second factor on, a session costs a proof.
LEMMA LoginPromises ==
  ASSUME TypeOK, ProofsCountOnce', NEW r \in Requests, Login(r) PROVE Promised
<1> USE DEF account, factor, external, history
<1>1. CASE BeginLogin(r) \/ LoginMfa(r)
  BY <1>1, FamiliesRest DEF BeginLogin, LoginMfa, Promised, Resting
<1>2. CASE IssueSession(r)
  <2>1. UNCHANGED <<account, factor, external, history>>
    BY <1>2 DEF IssueSession
  <2>2. CASE UNCHANGED <<sessions, issued>>
    BY <2>1, <2>2, FamiliesRest DEF Promised, Resting
  <2>3. CASE password = Pw(r) /\ ~mfa.on /\ NewSession(FALSE, FALSE, Pw(r))
    <3>1. Access!Born /\ Held' = Held
      BY <2>1, <2>3, PromiseBorn, FamiliesRest
    <3>2. Access!LogIn
      BY <2>1, <2>3, <3>1 DEF Access!LogIn, Held
    <3> QED BY <3>2 DEF Promised, Access!Next
  <2> QED BY <1>2, <2>2, <2>3 DEF IssueSession
<1>3. CASE ProveLogin(r)
  <2>1. UNCHANGED <<account, external, ended>>
    BY <1>3 DEF ProveLogin
  <2>2. CASE UNCHANGED <<sessions, issued, mfa, spent>>
    BY <2>1, <2>2, FamiliesRest DEF Promised, Resting
  <2>3. CASE /\ Valid(r) /\ NewSession(FALSE, TRUE, Pw(r)) /\ Spend(req[r].proof)
             /\ mfa' = [mfa EXCEPT !.used = UsedAfter(r)]
    <3>1. Access!Born /\ Held' = Held /\ Access!Proved /\ mfa.on /\ mfa'.on = mfa.on
      BY <2>1, <2>3, PromiseBorn, PromiseProved, FamiliesRest, Columns DEF Valid
    <3>2. Access!LogIn
      BY <2>1, <3>1 DEF Access!LogIn, Held
    <3> QED BY <3>2 DEF Promised, Access!Next
  <2> QED BY <1>3, <2>2, <2>3 DEF ProveLogin
<1> QED BY <1>1, <1>2, <1>3 DEF Login

\* Settings: they end everything or nothing.
LEMMA SettingsPromise ==
  ASSUME TypeOK, ProofsCountOnce', NEW r \in Requests, Settings(r) PROVE Promised
<1> USE DEF account, factor, external, history
<1>1. CASE ReadTemporary(r) \/ ConfirmActor(r) \/ ReadEnrollment(r) \/ ReadFactor(r)
  BY <1>1, FamiliesRest
     DEF ReadTemporary, ConfirmActor, ReadEnrollment, ReadFactor, Promised, Resting
<1>2. CASE StartEnrollment(r)
  <2>1. issued'.session = issued.session
    BY <1>2, Columns DEF StartEnrollment
  <2> QED BY <1>2, <2>1, FamiliesRest DEF StartEnrollment, Promised, Resting
<1>3. CASE CompleteSetup(r)
  <2>1. CASE temporary
    BY <1>3, <2>1, PromisePassword DEF CompleteSetup
  <2>2. CASE ~temporary
    BY <1>3, <2>2, FamiliesRest DEF CompleteSetup, Promised, Resting
  <2> QED BY <2>1, <2>2
<1>4. CASE EnableMfa(r) \/ Disable(r) \/ Regenerate(r)
  <2>1. UNCHANGED <<account, ended>>
    BY <1>4 DEF EnableMfa, Disable, Regenerate
  <2>2. CASE UNCHANGED <<mfa, sessions, external, issued, spent>>
    BY <2>1, <2>2, FamiliesRest DEF Promised, Resting
  <2>3. CASE EndCredentials /\ Spend(req[r].proof) /\ (NewRecovery \/ UNCHANGED issued)
             /\ mfa'.on \in BOOLEAN
    <3>1. issued'.session = issued.session
      BY <2>3, Columns DEF NewRecovery
    <3> QED BY <2>1, <2>3, <3>1, PromiseFactor
  <2>4. CASE EnableMfa(r)
    <3>1. [on |-> TRUE, gen |-> req[r].proof.gen, used |-> req[r].proof.n].on \in BOOLEAN
      OBVIOUS
    <3> QED BY <2>2, <2>3, <2>4, <3>1 DEF EnableMfa
  <2>5. CASE Disable(r)
    <3>1. MfaOff.on \in BOOLEAN
      BY DEF MfaOff
    <3> QED BY <2>2, <2>3, <2>5, <3>1 DEF Disable
  <2>6. CASE Regenerate(r)
    <3>1. [mfa EXCEPT !.used = UsedAfter(r)].on \in BOOLEAN
      BY Columns
    <3> QED BY <2>2, <2>3, <2>6, <3>1 DEF Regenerate
  <2> QED BY <1>4, <2>4, <2>5, <2>6
<1> QED BY <1>1, <1>2, <1>3, <1>4 DEF Settings

\* Requests on a session: what they issue rests on the session they were read with, if it is
\* still there; a disconnect leaves nothing of its client.
LEMMA BrowserPromises ==
  ASSUME TypeOK, AccountInv, FamilyInv, NEW r \in Requests, Browser(r) PROVE Promised
<1> USE DEF account, factor, external, history
<1>1. LiveSession(Sid(r)) => sessions # {}
  BY DEF LiveSession
<1>2. ASSUME NEW s \in sessions, Authenticate(r, s) PROVE Promised
  BY <1>2, FamiliesRest DEF Authenticate, Promised, Resting
<1>3. ASSUME NEW k \in {"pairing", "token"}, MintTicket(r, k) PROVE Promised
  <2>1. UNCHANGED <<account, factor, sessions, codes, grants, issued, history>> /\ Held' = Held
    BY <1>3, FamiliesRest DEF MintTicket
  <2>2. CASE tickets' = tickets
    BY <2>1, <2>2 DEF Promised, Resting
  <2>3. CASE /\ LiveSession(Sid(r))
             /\ tickets' = tickets \cup {[kind |-> k, under |-> UnderOf(Sid(r))]}
    <3>1. UnderOf(Sid(r)) = password /\ ~mfa.on
      BY <2>3, LiveRests
    <3>2. Access!Mint
      BY <1>1, <2>1, <2>3, <3>1 DEF Access!Mint, Held
    <3> QED BY <3>2 DEF Promised, Access!Next
  <2> QED BY <1>3, <2>2, <2>3 DEF MintTicket
<1>4. ASSUME NEW c \in Codes, Approve(r, c) PROVE Promised
  <2>1. UNCHANGED <<account, factor, sessions, tickets, grants, issued, spent, ended>>
    BY <1>4 DEF Approve
  <2>2. CASE UNCHANGED codes
    BY <2>1, <2>2, FamiliesRest DEF Promised, Resting
  <2>3. CASE LiveSession(Sid(r)) /\ codes' = [codes EXCEPT ![c] = "issued"]
    <3>1. \A d \in Codes : Family(d)' = IF d = c THEN "issued" ELSE Family(d)
      BY <2>1, <2>3 DEF Family, HasLive, TypeOK
    <3>2. Held' = [Held EXCEPT ![c] = "issued"] /\ Held[c] = "none"
      BY <1>4, <3>1 DEF Held, Family, Approve
    <3>3. Access!Approve(c)
      BY <1>1, <2>1, <2>3, <3>2 DEF Access!Approve, Held, LiveSession
    <3> QED BY <3>3 DEF Promised, Access!Next
  <2> QED BY <1>4, <2>2, <2>3 DEF Approve
<1>5. ASSUME NEW client \in Clients, Disconnect(r, client) PROVE Promised
  <2> DEFINE theirs == {c \in Codes : ClientOf(c) = client}
  <2>1. EndsOnly(theirs)
    <3>1. SUFFICES ASSUME NEW c \in Codes
                   PROVE  Family(c)' = IF c \in theirs /\ Family(c) # "none" THEN "over"
                                       ELSE Family(c)
      BY DEF EndsOnly
    <3>2. CASE c \in theirs
      <4>1. grants'[c] = Revoke(grants[c]) /\ ~HasLive(grants'[c])
        BY <1>5, <3>2, RevokeRows DEF Disconnect, TypeOK
      <4>2. /\ codes'[c] = (IF codes[c] = "issued" THEN "gone" ELSE codes[c])
            /\ codes[c] \in {"none", "issued", "gone"}
        BY <1>5, <3>2 DEF Disconnect, TypeOK
      <4> QED BY <3>2, <4>1, <4>2 DEF Family
    <3>3. CASE c \notin theirs
      BY <1>5, <3>3 DEF Disconnect, Family, HasLive
    <3> QED BY <3>2, <3>3
  <2>2. \A c \in theirs : (Family(c) # "none") = (codes[c] # "none")
    BY DEF Family, TypeOK
  <2>3. ended' = ended \cup {c \in theirs : Family(c) # "none"}
    BY <1>5, <2>2 DEF Disconnect
  <2> QED BY <1>5, <2>1, <2>3, PromiseRevoke DEF Disconnect
<1> QED BY <1>2, <1>3, <1>4, <1>5 DEF Browser

\* Clients: a family goes on from its code or from its one live row, or it is over.
LEMMA ClientPromises ==
  ASSUME TypeOK, FamilyInv, NEW r \in Requests, Client(r) PROVE Promised
<1> USE DEF account, factor, external, history
<1>1. ASSUME NEW c \in Codes,
             ReadCode(r, c) \/ ReadToken(r, c) \/ \E i \in DOMAIN grants[c] : ReadGrant(r, c, i)
      PROVE  Promised
  BY <1>1, FamiliesRest DEF ReadCode, ReadToken, ReadGrant, Promised, Resting
<1>2. PICK c \in Codes : c = Fam(r)
  BY MovesType DEF Fam
<1>3. grants[c] \in Seq(GrantState)
  BY DEF TypeOK
<1>4. CASE IssueGrant(r)
  <2>1. UNCHANGED <<account, factor, sessions, tickets, issued, history>>
    BY <1>4 DEF IssueGrant
  <2>2. CASE UNCHANGED <<grants, codes>>
    BY <2>1, <2>2, FamiliesRest DEF Promised, Resting
  <2>3. CASE /\ codes[c] = "issued" /\ ClientsAllowed
             /\ grants' = [grants EXCEPT ![c] = Append(@, "live")]
             /\ codes' = [codes EXCEPT ![c] = "gone"]
    <3>1. HasLive(Append(grants[c], "live"))
      BY <1>3, AppendRow DEF HasLive, GrantState
    <3>2. \A d \in Codes : Family(d)' = IF d = c THEN "live" ELSE Family(d)
      BY <2>3, <3>1 DEF Family, TypeOK
    <3>3. Held' = [Held EXCEPT ![c] = "live"] /\ Held[c] = "issued"
      BY <2>3, <3>2 DEF Held, Family
    <3>4. Access!Exchange(c)
      BY <2>1, <2>3, <3>3 DEF Access!Exchange, Held, ClientsAllowed
    <3> QED BY <3>4 DEF Promised, Access!Next
  <2> QED BY <1>2, <1>4, <2>2, <2>3 DEF IssueGrant
<1>5. CASE Rotate(r)
  <2>1. UNCHANGED <<account, factor, sessions, codes, tickets, issued, history>>
    BY <1>5 DEF Rotate
  <2>2. CASE UNCHANGED grants
    BY <2>1, <2>2, FamiliesRest DEF Promised, Resting
  <2>3. ASSUME NEW i \in DOMAIN grants[c], grants[c][i] = "live",
               grants' = [grants EXCEPT ![c] = Append([@ EXCEPT ![i] = "revoked"], "live")]
        PROVE  Promised
    <3>1. [grants[c] EXCEPT ![i] = "revoked"] \in Seq(GrantState)
      BY <1>3, ChangeRow DEF GrantState
    <3>2. HasLive(Append([grants[c] EXCEPT ![i] = "revoked"], "live"))
      <4> DEFINE rows == [grants[c] EXCEPT ![i] = "revoked"]
      <4>0. rows \in Seq(GrantState)
        BY <3>1
      <4> HIDE DEF rows
      <4>1. HasLive(Append(rows, "live"))
        BY <4>0, AppendRow DEF HasLive, GrantState
      <4> QED BY <4>1 DEF rows
    <3>4. HasLive(grants[c])
      BY <2>3 DEF HasLive
    <3>3. \A d \in Codes : Family(d)' = Family(d)
      BY <2>1, <2>3, <3>2, <3>4 DEF Family, TypeOK
    <3> QED BY <2>1, <3>3 DEF Promised, Resting, Held
  <2> QED BY <1>2, <1>5, <2>2, <2>3 DEF Rotate
<1>6. CASE RevokeFamily(r)
  <2>1. codes[c] = "gone"
    BY <1>2, <1>6 DEF RevokeFamily, At, FamilyInv, FromCodes
  <2>2. ~HasLive(Revoke(grants[c]))
    BY <1>3, RevokeRows
  <2>3. EndsOnly({c})
    BY <1>2, <1>6, <2>1, <2>2 DEF RevokeFamily, EndsOnly, Family, HasLive, TypeOK
  <2>4. {d \in {c} : Family(d) # "none"} = {c}
    BY <2>1 DEF Family
  <2> QED BY <1>2, <1>6, <2>3, <2>4, PromiseRevoke DEF RevokeFamily
<1> QED BY <1>1, <1>4, <1>5, <1>6 DEF Client

\* What happens by itself or to all requests at once.
LEMMA ElsewherePromises ==
  ASSUME TypeOK, AccountInv, FamilyInv, Elsewhere PROVE Promised
<1> USE DEF account, factor, external, history
<1>1. ASSUME NEW s \in sessions, EndSession(s) PROVE Promised
  BY <1>1, FamiliesRest, PromiseLapse DEF EndSession
<1>2. ASSUME NEW t \in tickets, DropTicket(t) PROVE Promised
  BY <1>2, FamiliesRest, PromiseLapse DEF DropTicket
<1>3. ASSUME NEW t \in tickets, RedeemPairing(t) PROVE Promised
  <2>1. t.under = password
    BY DEF AccountInv, ResetEndsAll
  <2>2. Access!Born /\ Held' = Held
    BY <1>3, <2>1, PromiseBorn, FamiliesRest DEF RedeemPairing
  <2>3. Access!Pair
    BY <1>3, <2>2 DEF RedeemPairing, Access!Pair, Held
  <2> QED BY <2>3 DEF Promised, Access!Next
<1>4. CASE ResetPassword
  BY <1>4, PromisePassword DEF ResetPassword
<1>5. ASSUME NEW c \in Codes, ExpireCode(c) PROVE Promised
  <2>1. ~HasLive(grants[c])
    BY <1>5 DEF ExpireCode, FamilyInv, FromCodes, HasLive
  <2>2. EndsOnly({c})
    BY <1>5, <2>1 DEF ExpireCode, EndsOnly, Family, HasLive, TypeOK
  <2> QED BY <1>5, <2>2, PromiseLapse DEF ExpireCode
<1>6. ASSUME NEW c \in Codes, NEW i \in DOMAIN grants[c], ExpireGrant(c, i) PROVE Promised
  <2>1. grants[c] \in Seq(GrantState) /\ grants[c][i] = "live"
    BY <1>6 DEF TypeOK, ExpireGrant
  <2>2. \A j \in DOMAIN grants[c] : grants[c][j] = "live" => j = i
    BY <2>1 DEF FamilyInv, OneLiveGrant
  <2>3. grants'[c] = [grants[c] EXCEPT ![i] = "expired"]
    BY <1>6 DEF ExpireGrant, TypeOK
  <2>4. ~HasLive(grants'[c])
    BY <2>2, <2>3 DEF HasLive
  <2>5. codes[c] = "gone"
    BY <2>1 DEF FamilyInv, FromCodes
  <2>6. EndsOnly({c})
    BY <1>6, <2>4, <2>5 DEF ExpireGrant, EndsOnly, Family, HasLive, TypeOK
  <2> QED BY <1>6, <2>6, PromiseLapse DEF ExpireGrant
<1>7. CASE ExpireEnrollment
  BY <1>7, FamiliesRest DEF ExpireEnrollment, Promised, Resting
<1> QED BY <1>1, <1>2, <1>3, <1>4, <1>5, <1>6, <1>7 DEF Elsewhere

\* The account keeps its promise to its owner: AccessPromise's initial states are reached by the
\* refinement mapping, and every step of a request, of the clock or of an administrator is a
\* step of the promise or changes nothing of it.
THEOREM AccessIsKept == Spec => AccessKept
<1>1. Init => Access!Init
  BY DEF Init, Access!Init, MfaOff, Family
<1>2. /\ TypeOK /\ AccountInv /\ FamilyInv /\ ProofsCountOnce' /\ [Next]_vars
      => [Access!Next]_<<password, mfa.on, sessions, issued.session, tickets,
                         [c \in Codes |-> Family(c)], ended, spent>>
  <2>1. CASE UNCHANGED vars
    BY <2>1, FamiliesRest DEF vars, account, factor, external, history, Held
  <2>2. ASSUME TypeOK, AccountInv, FamilyInv, ProofsCountOnce', Next PROVE Promised
    BY <2>2, LoginPromises, SettingsPromise, BrowserPromises, ClientPromises, ElsewherePromises
       DEF Next
  <2> QED BY <2>1, <2>2 DEF Promised, Resting, Held
<1> QED
  BY <1>1, <1>2, AccountInvariant, FamilyInvariant, EveryProofOnce, PTL
     DEF Spec, AccessKept, Access!Spec
=============================================================================
