-------------------------------- MODULE Chat --------------------------------
(***************************************************************************)
(* One chat conversation and one tab that looks at it (chat.ts and the     *)
(* script of ChatWorkspace.svelte).  The tab's timer, its live events, the *)
(* messages it sends and the conversation it selects each load what is     *)
(* new, several at a time, and merge what they get; the user scrolls back  *)
(* page by page.                                                           *)
(*                                                                         *)
(* Messages are numbered by seq as this conversation counts them.  Any     *)
(* request or answer can be lost.                                          *)
(***************************************************************************)
EXTENDS Naturals, FiniteSetsExt

CONSTANTS
  Loads,        \* refreshRoom calls of the tab under way at the same time
  Page,         \* messages in an answer: 50
  MaxMessages   \* bound: messages of the conversation

ASSUME ChatAssumption == Page \in Nat \ {0} /\ MaxMessages \in Nat

VARIABLES
  lastSeq,    \* chat_messages: the last seq
  lastRead,   \* last_read_seq of the member
  shown,      \* messages of the tab, by seq
  more,       \* the tab offers older messages
  readSeq,    \* what the tab has reported as read
  reports,    \* PATCH requests under way
  load,       \* a call, its question and its answer
  overlaid    \* history: a newest page was merged with others since the conversation was selected

chatVars == <<lastSeq, lastRead, shown, more, readSeq, reports, load, overlaid>>

Seqs == 1..MaxMessages
NoLoad == [pc |-> "idle", stale |-> FALSE, after |-> 0, before |-> 0, answer |-> {}, more |-> FALSE]

ChatTypeOK ==
  /\ lastSeq \in 0..MaxMessages /\ lastRead \in 0..MaxMessages
  /\ shown \subseteq Seqs /\ more \in BOOLEAN
  /\ readSeq \in 0..MaxMessages /\ reports \subseteq Seqs
  /\ load \in [Loads -> [pc : {"idle", "asked", "answered"}, stale : BOOLEAN,
                         after : 0..MaxMessages, before : 0..MaxMessages,
                         answer : SUBSET Seqs, more : BOOLEAN]]
  /\ overlaid \in BOOLEAN

ChatInit ==
  /\ lastSeq = 0 /\ lastRead = 0 /\ shown = {} /\ more = FALSE /\ readSeq = 0 /\ reports = {}
  /\ load = [l \in Loads |-> NoLoad]
  /\ overlaid = FALSE

Newest == IF shown = {} THEN 0 ELSE Max(shown)

-----------------------------------------------------------------------------
(* The server *)

\* sendMessage by anybody; an id that is stored already, or the limit, stores nothing.
StoreMessage ==
  /\ lastSeq < MaxMessages /\ lastSeq' = lastSeq + 1
  /\ UNCHANGED <<lastRead, shown, more, readSeq, reports, load, overlaid>>

\* Wrong on purpose: what is new comes newest first, as a page of history does.
NewestFirst(after, before) ==
  LET found == {n \in 1..lastSeq : n > after /\ (before = 0 \/ n < before)}
  IN [seqs |-> {n \in found : Cardinality({o \in found : o > n}) < Page},
      more |-> Cardinality(found) > Page]

\* listMessages: the oldest ones after, or the newest ones before a message.
ListMessages(after, before) ==
  LET found == {n \in 1..lastSeq : n > after /\ (before = 0 \/ n < before)}
      closer(n) == {o \in found : IF after > 0 THEN o < n ELSE o > n}
  IN [seqs |-> {n \in found : Cardinality(closer(n)) < Page}, more |-> Cardinality(found) > Page]

ServeLoad(l) ==
  /\ load[l].pc = "asked"
  /\ LET answer == ListMessages(load[l].after, load[l].before) IN
       load' = [load EXCEPT ![l] = [@ EXCEPT !.pc = "answered", !.answer = answer.seqs,
                                             !.more = answer.more]]
  /\ UNCHANGED <<lastSeq, lastRead, shown, more, readSeq, reports, overlaid>>

\* markRead
MarkRead(seq) ==
  /\ seq \in reports /\ reports' = reports \ {seq}
  /\ lastRead' = IF seq > lastRead THEN seq ELSE lastRead
  /\ UNCHANGED <<lastSeq, shown, more, readSeq, load, overlaid>>
LoseReport(seq) ==
  /\ seq \in reports /\ reports' = reports \ {seq}
  /\ readSeq' = 0
  /\ UNCHANGED <<lastSeq, lastRead, shown, more, load, overlaid>>

-----------------------------------------------------------------------------
(* The tab *)

\* select: the tab starts anew, and what is under way will be dropped.
Select ==
  /\ shown # {} \/ \E l \in Loads : load[l].pc # "idle" /\ ~load[l].stale
  /\ shown' = {} /\ more' = FALSE /\ readSeq' = 0 /\ overlaid' = FALSE
  /\ load' = [l \in Loads |-> IF load[l].pc = "idle" THEN load[l] ELSE [load[l] EXCEPT !.stale = TRUE]]
  /\ UNCHANGED <<lastSeq, lastRead, reports>>

\* refreshRoom asks for what is new, or for the newest page.
AskNew(l) ==
  /\ load[l].pc = "idle"
  /\ load' = [load EXCEPT ![l] = [NoLoad EXCEPT !.pc = "asked", !.after = Newest]]
  /\ UNCHANGED <<lastSeq, lastRead, shown, more, readSeq, reports, overlaid>>

\* loadOlder, one at a time.
AskOlder(l) ==
  /\ load[l].pc = "idle" /\ more /\ shown # {}
  /\ \A o \in Loads : load[o].before = 0
  /\ load' = [load EXCEPT ![l] = [NoLoad EXCEPT !.pc = "asked", !.before = Min(shown)]]
  /\ UNCHANGED <<lastSeq, lastRead, shown, more, readSeq, reports, overlaid>>

\* readVisible: the end of the list is in sight, or it is not.
ReadVisible(seqs) ==
  LET last == IF seqs = {} THEN 0 ELSE Max(seqs) IN
  \/ UNCHANGED <<readSeq, reports>>
  \/ last > readSeq /\ readSeq' = last /\ reports' = reports \cup {last}

\* The answer is merged; if it does not reach the end, the next one is asked for.
Merge(l) ==
  LET seqs == shown \cup load[l].answer
      older == load[l].before > 0
      new == load[l].after > 0
  IN /\ shown' = seqs
     /\ more' = IF new THEN more ELSE load[l].more
     /\ overlaid' = (overlaid \/ (~older /\ ~new /\ shown # {}))
     /\ IF new /\ load[l].more
        THEN /\ load' = [load EXCEPT ![l] = [NoLoad EXCEPT !.pc = "asked", !.after = Max(seqs)]]
             /\ UNCHANGED <<readSeq, reports>>
        ELSE load' = [load EXCEPT ![l] = NoLoad] /\ ReadVisible(seqs)
     /\ UNCHANGED <<lastSeq, lastRead>>

\* The user scrolls, or comes back to the tab.
Look == ReadVisible(shown) /\ UNCHANGED <<lastSeq, lastRead, shown, more, load, overlaid>>

TakeAnswer(l) ==
  /\ load[l].pc = "answered"
  /\ IF load[l].stale
     THEN load' = [load EXCEPT ![l] = NoLoad]
          /\ UNCHANGED <<lastSeq, lastRead, shown, more, readSeq, reports, overlaid>>
     ELSE Merge(l)

LoseLoad(l) ==
  /\ load[l].pc # "idle"
  /\ load' = [load EXCEPT ![l] = NoLoad]
  /\ UNCHANGED <<lastSeq, lastRead, shown, more, readSeq, reports, overlaid>>

ChatNext ==
  \/ StoreMessage \/ Select \/ Look
  \/ \E l \in Loads : AskNew(l) \/ AskOlder(l) \/ ServeLoad(l) \/ TakeAnswer(l) \/ LoseLoad(l)
  \/ \E seq \in Seqs : MarkRead(seq) \/ LoseReport(seq)

ChatSpec == ChatInit /\ [][ChatNext]_chatVars

-----------------------------------------------------------------------------
(* Properties *)

\* The tab shows a stretch of the conversation without holes, however its requests overtake
\* each other: only two newest pages, asked for before anything was shown, can leave one.
ShownWithoutHoles ==
  ~overlaid => \A m, n \in shown : m..n \subseteq shown

=============================================================================
