---------------------------- MODULE AccessPromise ----------------------------
(***************************************************************************)
(* What an account promises its owner, without saying how: a session rests *)
(* on the present password and, while the second factor is on, on a proof  *)
(* that never counted before; what was ended never acts again; changing    *)
(* the password or the second factor ends everything at once; and nothing  *)
(* but sessions exists while the second factor is on.  Credentials         *)
(* implements it: see AccessKept there.                                    *)
(***************************************************************************)
EXTENDS Naturals
CONSTANT Families   \* what a client can be allowed to do: a code and its grants
VARIABLES password, \* how many times it was changed
          strict,   \* whether the second factor is on
          sessions, \* those that act
          born,     \* how many there ever were
          tickets,  \* API tokens and pairing codes
          family,   \* "none", then "issued", then "live", then "over"
          ended,    \* families that were revoked
          spent     \* proofs that counted

Init ==
  /\ password = 0 /\ strict = FALSE /\ sessions = {} /\ born = 0 /\ tickets = {}
  /\ family = [c \in Families |-> "none"] /\ ended = {} /\ spent = {}

Proved == \E p \in spent' \ spent : spent' = spent \cup {p}
Born ==
  /\ born' = born + 1
  /\ \E s \in sessions' : /\ s.id = born + 1 /\ s.under = password
                         /\ sessions' = sessions \cup {s}
Over(F) == [c \in Families |-> IF c \in F /\ family[c] # "none" THEN "over" ELSE family[c]]
AllOver == sessions' = {} /\ tickets' = {} /\ family' = Over(Families)

LogIn ==
  /\ Born /\ IF strict THEN Proved ELSE UNCHANGED spent
  /\ UNCHANGED <<password, strict, tickets, family, ended>>
Pair ==
  /\ ~strict /\ Born /\ \E t \in tickets : tickets' = tickets \ {t}
  /\ UNCHANGED <<password, strict, family, ended, spent>>
Mint ==
  /\ ~strict /\ sessions # {}
  /\ \E t \in tickets' : t.under = password /\ tickets' = tickets \cup {t}
  /\ UNCHANGED <<password, strict, sessions, born, family, ended, spent>>

Approve(c) ==
  /\ ~strict /\ sessions # {} /\ family[c] = "none"
  /\ family' = [family EXCEPT ![c] = "issued"]
  /\ UNCHANGED <<password, strict, sessions, born, tickets, ended, spent>>
Exchange(c) ==
  /\ ~strict /\ family[c] = "issued"
  /\ family' = [family EXCEPT ![c] = "live"]
  /\ UNCHANGED <<password, strict, sessions, born, tickets, ended, spent>>

\* Something lapses, is dropped or signed out.
Lapse(F) ==
  /\ UNCHANGED <<password, strict, born, ended, spent>>
  /\ sessions' \subseteq sessions /\ tickets' \subseteq tickets /\ family' = Over(F)
Revoke(F) ==
  /\ UNCHANGED <<password, strict, sessions, born, tickets, spent>>
  /\ family' = Over(F) /\ ended' = ended \cup {c \in F : family[c] # "none"}

ChangePassword ==
  /\ password' = password + 1 /\ AllOver
  /\ UNCHANGED <<strict, born, ended, spent>>
ChangeFactor ==
  /\ strict' \in BOOLEAN /\ Proved /\ AllOver
  /\ UNCHANGED <<password, born, ended>>

Next ==
  \/ \E F \in SUBSET Families : Lapse(F) \/ Revoke(F)
  \/ LogIn \/ Pair \/ Mint \/ ChangePassword \/ ChangeFactor
  \/ \E c \in Families : Approve(c) \/ Exchange(c)
Spec ==
  Init /\ [][Next]_<<password, strict, sessions, born, tickets, family, ended, spent>>
=============================================================================
