------------------------------ MODULE Vacation ------------------------------
(***************************************************************************)
(* Automatic replies to the messages of one sender (vacation.ts): the      *)
(* scheduled worker answers each message once and a sender once in the     *)
(* days the user has chosen, and hands replies to the outbox.  The address *)
(* that replies stays; a message may be deleted for good, and its reply's  *)
(* row goes with it (ON DELETE CASCADE).                                   *)
(*                                                                         *)
(* An await is a step and a batch is atomic.  A window is the days that    *)
(* start with a reply; a lease can run out at any time.                    *)
(***************************************************************************)
EXTENDS Naturals

CONSTANTS
  Letters,       \* messages of the sender
  Repliers,      \* invocations of the scheduled worker
  MaxVersion,    \* bound: changes of the settings
  MaxWindow,     \* bound: windows
  MaxTries       \* attempts at a handoff before a reply fails: 8

ASSUME VacationAssumption ==
  MaxVersion \in Nat /\ MaxWindow \in Nat /\ MaxTries \in Nat \ {0}

VARIABLES
  letter,        \* messages: whether there, vacation_processed, neither spam nor trash
  settings,      \* vacation_settings: enabled and version
  reply,         \* vacation_replies by source message, with the window of each; history: of
                 \* "deleted" rows the window, and again: the window had had a reply before
  window,        \* the window it is now
  handed,        \* outbox jobs by the reply their key names
  replier        \* an invocation and what it has read

vacationVars == <<letter, settings, reply, window, handed, replier>>

NoReply == [state |-> "none", leased |-> FALSE, tries |-> 0, window |-> 0, again |-> FALSE]
Unsent == [is |-> "unsent", processed |-> FALSE, shown |-> TRUE]
Shredded == [is |-> "deleted", processed |-> TRUE, shown |-> FALSE]
NoOne == "none"
Asleep == [pc |-> "idle", item |-> NoOne, version |-> 0]

VacationTypeOK ==
  /\ letter \in [Letters -> [is : {"unsent", "there", "deleted"}, processed : BOOLEAN,
                              shown : BOOLEAN]]
  /\ settings \in [enabled : BOOLEAN, version : 0..MaxVersion]
  /\ reply \in [Letters -> [state : {"none", "pending", "queued", "failed", "deleted"},
                            leased : BOOLEAN, tries : 0..MaxTries, window : 0..MaxWindow,
                            again : BOOLEAN]]
  /\ window \in 0..MaxWindow /\ handed \subseteq Letters
  /\ replier \in [Repliers -> [pc : {"idle", "decide", "claim", "enqueue", "queued", "failed"},
                               item : Letters \cup {NoOne}, version : 0..MaxVersion]]

VacationInit ==
  /\ letter = [l \in Letters |-> Unsent]
  /\ settings = [enabled |-> TRUE, version |-> 0]
  /\ reply = [l \in Letters |-> NoReply]
  /\ window = 0 /\ handed = {}
  /\ replier = [r \in Repliers |-> Asleep]

\* A message that asks for a reply is stored; it goes to spam or to the trash, and back.
Arrive(l) ==
  /\ letter[l].is = "unsent"
  /\ letter' = [letter EXCEPT ![l].is = "there"]
  /\ UNCHANGED <<settings, reply, window, handed, replier>>
Refile(l) ==
  /\ letter[l].is = "there"
  /\ letter' = [letter EXCEPT ![l].shown = ~@]
  /\ UNCHANGED <<settings, reply, window, handed, replier>>

\* deleteEmailsPermanently: the row of its reply goes with the message.
Written(l) == reply[l].state \notin {"none", "deleted"}
DeleteLetter(l) ==
  /\ letter[l].is = "there"
  /\ letter' = [letter EXCEPT ![l] = Shredded]
  /\ reply' = IF Written(l)
              THEN [reply EXCEPT ![l].state = "deleted", ![l].leased = FALSE, ![l].tries = 0]
              ELSE reply
  /\ UNCHANGED <<settings, window, handed, replier>>

\* saveVacation
ChangeSettings ==
  /\ settings.version < MaxVersion
  /\ \E enabled \in BOOLEAN :
       settings' = [enabled |-> enabled, version |-> settings.version + 1]
  /\ UNCHANGED <<letter, reply, window, handed, replier>>

\* The days have passed: the reply of this window is old.
WindowEnds ==
  /\ window < MaxWindow /\ window' = window + 1
  /\ UNCHANGED <<letter, settings, reply, handed, replier>>

-----------------------------------------------------------------------------
(* processVacation *)

Candidate(l) ==
  /\ letter[l].is = "there" /\ letter[l].shown /\ ~letter[l].processed
  /\ settings.enabled
ListLetter(r, l) ==
  /\ replier[r].pc = "idle" /\ Candidate(l)
  /\ replier' = [replier EXCEPT ![r] = [pc |-> "decide", item |-> l, version |-> settings.version]]
  /\ UNCHANGED <<letter, settings, reply, window, handed>>

Rested(r) == replier' = [replier EXCEPT ![r] = Asleep]
Recent == \E l \in Letters : Written(l) /\ reply[l].window = window
Forgotten == \E l \in Letters : reply[l].state = "deleted" /\ reply[l].window = window
Current(r) ==
  /\ settings.enabled /\ settings.version = replier[r].version
  /\ letter[replier[r].item].is = "there" /\ ~letter[replier[r].item].processed
\* A new row; a message that is gone is not marked any more.
NewReply == [NoReply EXCEPT !.state = "pending", !.window = window, !.again = Forgotten]
Mark(l) ==
  letter' = IF letter[l].is = "there" THEN [letter EXCEPT ![l].processed = TRUE] ELSE letter

\* Wrong on purpose: who had a reply is looked up by message, not by sender.
DecideByLetter(r) ==
  /\ replier[r].pc = "decide"
  /\ LET l == replier[r].item IN
       /\ reply' = IF Current(r) THEN [reply EXCEPT ![l] = NewReply] ELSE reply
       /\ Mark(l)
  /\ Rested(r)
  /\ UNCHANGED <<settings, window, handed>>

\* The batch: a reply unless the sender had one whose row is there, the settings changed, the
\* message went or another cron was first.
Decide(r) ==
  /\ replier[r].pc = "decide"
  /\ LET l == replier[r].item IN
       /\ reply' = IF ~Recent /\ Current(r) THEN [reply EXCEPT ![l] = NewReply] ELSE reply
       /\ Mark(l)
  /\ Rested(r)
  /\ UNCHANGED <<settings, window, handed>>

Due(l) == reply[l].state = "pending" /\ ~reply[l].leased
ListReply(r, l) ==
  /\ replier[r].pc = "idle" /\ Due(l)
  /\ replier' = [replier EXCEPT ![r] = [Asleep EXCEPT !.pc = "claim", !.item = l]]
  /\ UNCHANGED <<letter, settings, reply, window, handed>>
ClaimReply(r) ==
  /\ replier[r].pc = "claim"
  /\ LET l == replier[r].item
         tries == IF reply[l].tries < MaxTries THEN reply[l].tries + 1 ELSE MaxTries
     IN IF Due(l)
        THEN /\ reply' = [reply EXCEPT ![l].leased = TRUE, ![l].tries = tries]
             /\ replier' = [replier EXCEPT ![r].pc = "enqueue"]
        ELSE Rested(r) /\ UNCHANGED reply
  /\ UNCHANGED <<letter, settings, window, handed>>
\* enqueueOutbound under the key of the reply: a job, old or new, or an error.
EnqueueReply(r) ==
  /\ replier[r].pc = "enqueue"
  /\ \/ handed' = handed \cup {replier[r].item} /\ replier' = [replier EXCEPT ![r].pc = "queued"]
     \/ UNCHANGED handed /\ replier' = [replier EXCEPT ![r].pc = "failed"]
  /\ UNCHANGED <<letter, settings, reply, window>>
\* What came of it, by id alone; a reply that failed waits a minute.
ReportReply(r) ==
  /\ replier[r].pc \in {"queued", "failed"}
  /\ LET l == replier[r].item
         state == IF replier[r].pc = "queued" THEN "queued"
                  ELSE IF reply[l].tries >= MaxTries THEN "failed" ELSE "pending"
     IN reply' = IF Written(l)
                 THEN [reply EXCEPT ![l].state = state, ![l].leased = (replier[r].pc = "failed")]
                 ELSE reply
  /\ Rested(r)
  /\ UNCHANGED <<letter, settings, window, handed>>
ReplyLeaseEnds(l) ==
  /\ reply[l].leased
  /\ reply' = [reply EXCEPT ![l].leased = FALSE]
  /\ UNCHANGED <<letter, settings, window, handed, replier>>
\* The invocation ends where it is.
ReplierDies(r) ==
  /\ replier[r].pc # "idle"
  /\ Rested(r)
  /\ UNCHANGED <<letter, settings, reply, window, handed>>

VacationNext ==
  \/ \E l \in Letters : Arrive(l) \/ Refile(l) \/ DeleteLetter(l) \/ ReplyLeaseEnds(l)
  \/ ChangeSettings \/ WindowEnds
  \/ \E r \in Repliers :
       \/ \E l \in Letters : ListLetter(r, l) \/ ListReply(r, l)
       \/ Decide(r) \/ ClaimReply(r) \/ EnqueueReply(r) \/ ReportReply(r) \/ ReplierDies(r)

VacationSpec == VacationInit /\ [][VacationNext]_vacationVars

-----------------------------------------------------------------------------
(* Properties *)

\* A sender gets one automatic reply in the days the user chose, however many messages came and
\* however often a cron was overtaken, ended or repeated.  One way remains: of two replies of a
\* window that reached the outbox one was decided when the message of an earlier reply had been
\* deleted for good, and with it the row that tells of it.
OneReplyPerWindow ==
  \A k, l \in handed :
    k # l /\ reply[k].window = reply[l].window => reply[k].again \/ reply[l].again

=============================================================================
