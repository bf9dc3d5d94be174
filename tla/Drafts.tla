------------------------------- MODULE Drafts -------------------------------
(***************************************************************************)
(* One draft, saved from several browser tabs, discarded or sent from one  *)
(* of them or deleted from a list (lib/mail/drafts.ts, server drafts.ts,   *)
(* deletions of mail-store.ts).  A row in D1 points at an                  *)
(* immutable snapshot in R2.  The pointer is made from the save id, so a   *)
(* save id stands for its key and its content; ids count from 1 in the     *)
(* order they are minted and 0 stands for none.                            *)
(*                                                                         *)
(* An await is a step.  An answer may be lost while the server goes on,    *)
(* and an invocation may end at any await.                                 *)
(***************************************************************************)
EXTENDS Naturals

CONSTANTS
  Tabs,       \* browser tabs that edit the draft
  Creator,    \* the tab it is composed in
  Calls,      \* invocations of the server at the same time
  MaxSaves    \* bound: save ids minted

ASSUME DraftsAssumption == Creator \in Tabs /\ MaxSaves \in Nat

VARIABLES
  draft,      \* the row: draft_revision and draft_save_id
  snapshots,  \* the objects
  tab,        \* the saver of each tab, and its attempt
  call,       \* invocations and what they have read
  minted,     \* save ids so far
  basis,      \* history: the save that the tab had before it when it made this one
  discarded   \* history: the row or its snapshot has been deleted

draftVars == <<draft, snapshots, tab, call, minted, basis, discarded>>

NoTab == "none"
Saves == 0..MaxSaves
Revisions == 0..MaxSaves
NoRow == [there |-> FALSE, rev |-> 0, save |-> 0]
NoCall == [pc |-> "idle", to |-> NoTab, save |-> 0, rev |-> 0, old |-> 0, answer |-> 0]

DraftTypeOK ==
  /\ draft \in [there : BOOLEAN, rev : Revisions, save : Saves]
  /\ snapshots \subseteq 1..MaxSaves
  /\ tab \in [Tabs -> [pc : {"closed", "opening", "open"}, rev : Revisions, base : Saves,
                       attempt : Saves, at : Revisions]]
  /\ call \in [Calls -> [pc : {"idle", "read", "put", "commit", "recheck", "drop", "clean",
                               "saved", "conflict", "key", "row", "object", "deleted",
                               "find", "purge", "remove"},
                         to : Tabs \cup {NoTab}, save : Saves, rev : Revisions, old : Saves,
                         answer : Revisions]]
  /\ minted \in Saves
  /\ basis \in [1..MaxSaves -> Saves]
  /\ discarded \in BOOLEAN

Closed == [pc |-> "closed", rev |-> 0, base |-> 0, attempt |-> 0, at |-> 0]

DraftInit ==
  /\ draft = NoRow /\ snapshots = {}
  /\ tab = [t \in Tabs |-> IF t = Creator THEN [Closed EXCEPT !.pc = "open"] ELSE Closed]
  /\ call = [c \in Calls |-> NoCall]
  /\ minted = 0 /\ basis = [s \in 1..MaxSaves |-> 0] /\ discarded = FALSE

Deletions == {"key", "row", "object", "deleted"}
Saving(t) == \E c \in Calls : call[c].to = t /\ call[c].pc \notin Deletions

-----------------------------------------------------------------------------
(* The tab *)

\* drain: an attempt without an answer is sent again as it is, an edit makes a new one.
Send(t, c) ==
  /\ tab[t].pc = "open" /\ ~Saving(t) /\ call[c].pc = "idle"
  /\ LET again == tab[t].attempt # 0
         save == IF again THEN tab[t].attempt ELSE minted + 1
         rev == IF again THEN tab[t].at ELSE tab[t].rev
     IN /\ save <= MaxSaves
        /\ call' = [call EXCEPT ![c] = [NoCall EXCEPT !.pc = "read", !.to = t,
                                                      !.save = save, !.rev = rev]]
        /\ tab' = [tab EXCEPT ![t].attempt = save, ![t].at = rev]
        /\ minted' = IF again THEN minted ELSE save
        /\ basis' = IF again THEN basis ELSE [basis EXCEPT ![save] = tab[t].base]
  /\ UNCHANGED <<draft, snapshots, discarded>>

\* The request fails for the tab; the server may go on with it.
Lose(c) ==
  /\ call[c].to # NoTab
  /\ call' = [call EXCEPT ![c].to = NoTab]
  /\ UNCHANGED <<draft, snapshots, tab, minted, basis, discarded>>

\* An answer; whoever waited for it takes it.
Answer(c) ==
  /\ call[c].pc \in {"saved", "conflict", "deleted"}
  /\ tab' = [t \in Tabs |->
       IF t # call[c].to \/ tab[t].pc # "open" \/ call[c].pc = "conflict" THEN tab[t]
       ELSE IF call[c].pc = "deleted" THEN Closed
       ELSE [tab[t] EXCEPT !.rev = call[c].answer, !.base = call[c].save, !.attempt = 0, !.at = 0]]
  /\ call' = [call EXCEPT ![c] = NoCall]
  /\ UNCHANGED <<draft, snapshots, minted, basis, discarded>>

\* readSavedDraft: the row, then its snapshot; a missing one is an error.
OpenRow(t) ==
  /\ tab[t].pc = "closed" /\ draft.there
  /\ tab' = [tab EXCEPT ![t] = [Closed EXCEPT !.pc = "opening", !.rev = draft.rev,
                                              !.base = draft.save]]
  /\ UNCHANGED <<draft, snapshots, call, minted, basis, discarded>>
OpenSnapshot(t) ==
  /\ tab[t].pc = "opening"
  /\ tab' = [tab EXCEPT ![t] = IF @.base \in snapshots THEN [@ EXCEPT !.pc = "open"] ELSE Closed]
  /\ UNCHANGED <<draft, snapshots, call, minted, basis, discarded>>

\* Once everything is saved the tab has the draft deleted, because it is discarded or was sent;
\* when that is answered the tab stops saving.
Discard(t, c) ==
  /\ tab[t].pc = "open" /\ tab[t].attempt = 0 /\ call[c].pc = "idle"
  /\ call' = [call EXCEPT ![c] = [NoCall EXCEPT !.pc = "key", !.to = t]]
  /\ UNCHANGED <<draft, snapshots, tab, minted, basis, discarded>>

\* The draft is deleted from a list of messages.
DeleteFromList(c) ==
  /\ draft.there /\ call[c].pc = "idle"
  /\ call' = [call EXCEPT ![c] = [NoCall EXCEPT !.pc = "find"]]
  /\ UNCHANGED <<draft, snapshots, tab, minted, basis, discarded>>

-----------------------------------------------------------------------------
(* persistDraft *)

Goto(c, pc) == call' = [call EXCEPT ![c].pc = pc]

\* The row: a save that is stored already, a conflict, or a snapshot to write.
Read(c) ==
  /\ call[c].pc = "read"
  /\ call' = [call EXCEPT ![c] =
       IF draft.save = @.save THEN [@ EXCEPT !.pc = "saved", !.answer = draft.rev]
       ELSE IF draft.rev # @.rev THEN [@ EXCEPT !.pc = "conflict"]
       ELSE [@ EXCEPT !.pc = "put", !.old = draft.save]]
  /\ UNCHANGED <<draft, snapshots, tab, minted, basis, discarded>>

\* Wrong on purpose: the old snapshot goes before the row points at the new one.
PutAndClean(c) ==
  /\ call[c].pc = "put"
  /\ snapshots' = (snapshots \ {call[c].old}) \cup {call[c].save}
  /\ Goto(c, "commit")
  /\ UNCHANGED <<draft, tab, minted, basis, discarded>>

\* The new snapshot, before the row points at it.
Put(c) ==
  /\ call[c].pc = "put"
  /\ snapshots' = snapshots \cup {call[c].save}
  /\ Goto(c, "commit")
  /\ UNCHANGED <<draft, tab, minted, basis, discarded>>

Created(c) == call[c].rev = 0 /\ ~draft.there
Updated(c) == draft.there /\ draft.rev = call[c].rev /\ draft.save # call[c].save

\* Wrong on purpose: the UPDATE does not compare the revision, which was compared before.
CommitUnchecked(c) ==
  /\ call[c].pc = "commit"
  /\ LET saves == draft.there \/ Created(c) IN
       /\ draft' = IF saves THEN [there |-> TRUE, rev |-> call[c].rev + 1, save |-> call[c].save]
                   ELSE draft
       /\ Goto(c, IF saves THEN "clean" ELSE "recheck")
  /\ UNCHANGED <<snapshots, tab, minted, basis, discarded>>

\* The batch: creation and update are conditional.
Commit(c) ==
  /\ call[c].pc = "commit"
  /\ LET saves == Created(c) \/ Updated(c) IN
       /\ draft' = IF saves THEN [there |-> TRUE, rev |-> draft.rev + 1, save |-> call[c].save]
                   ELSE draft
       /\ Goto(c, IF saves THEN "clean" ELSE "recheck")
  /\ UNCHANGED <<snapshots, tab, minted, basis, discarded>>

\* Nothing changed: another copy of this save may have committed.
Recheck(c) ==
  /\ call[c].pc = "recheck"
  /\ Goto(c, IF draft.save = call[c].save THEN "clean" ELSE "drop")
  /\ UNCHANGED <<draft, snapshots, tab, minted, basis, discarded>>
Drop(c) ==
  /\ call[c].pc = "drop"
  /\ snapshots' = snapshots \ {call[c].save}
  /\ Goto(c, "conflict")
  /\ UNCHANGED <<draft, tab, minted, basis, discarded>>

\* Wrong on purpose: an answer that counts on from the row it finds.
CleanAndCount(c) ==
  /\ call[c].pc = "clean"
  /\ snapshots' = snapshots \ ({call[c].old} \ {call[c].save})
  /\ call' = [call EXCEPT ![c].pc = "saved", ![c].answer = draft.rev]
  /\ UNCHANGED <<draft, tab, minted, basis, discarded>>

\* The snapshot that was replaced is deleted, or the deletion fails and is ignored.
Clean(c) ==
  /\ call[c].pc = "clean"
  /\ \/ snapshots' = snapshots \ ({call[c].old} \ {call[c].save})
     \/ UNCHANGED snapshots
  /\ call' = [call EXCEPT ![c].pc = "saved", ![c].answer = call[c].rev + 1]
  /\ UNCHANGED <<draft, tab, minted, basis, discarded>>

\* deleteDraft: the key, the row, the snapshot.
ReadKey(c) ==
  /\ call[c].pc = "key"
  /\ call' = [call EXCEPT ![c].pc = "row", ![c].old = draft.save]
  /\ UNCHANGED <<draft, snapshots, tab, minted, basis, discarded>>
DeleteRow(c) ==
  /\ call[c].pc = "row"
  /\ draft' = NoRow
  /\ discarded' = (discarded \/ draft.there)
  /\ Goto(c, "object")
  /\ UNCHANGED <<snapshots, tab, minted, basis>>
DeleteObject(c) ==
  /\ call[c].pc = "object"
  /\ snapshots' = snapshots \ {call[c].old}
  /\ Goto(c, "deleted")
  /\ UNCHANGED <<draft, tab, minted, basis, discarded>>

\* deleteEmailsPermanently: the key, the snapshot, the row.
FindKey(c) ==
  /\ call[c].pc = "find"
  /\ call' = [call EXCEPT ![c].pc = "purge", ![c].old = draft.save]
  /\ UNCHANGED <<draft, snapshots, tab, minted, basis, discarded>>
PurgeSnapshot(c) ==
  /\ call[c].pc = "purge"
  /\ snapshots' = snapshots \ {call[c].old}
  /\ discarded' = TRUE
  /\ Goto(c, "remove")
  /\ UNCHANGED <<draft, tab, minted, basis>>
RemoveRow(c) ==
  /\ call[c].pc = "remove"
  /\ draft' = NoRow
  /\ call' = [call EXCEPT ![c] = NoCall]
  /\ UNCHANGED <<snapshots, tab, minted, basis, discarded>>

\* The invocation ends where it is.
CallDies(c) ==
  /\ call[c].pc # "idle"
  /\ call' = [call EXCEPT ![c] = NoCall]
  /\ UNCHANGED <<draft, snapshots, tab, minted, basis, discarded>>

DraftNext ==
  \/ \E t \in Tabs : OpenRow(t) \/ OpenSnapshot(t) \/ \E c \in Calls : Send(t, c) \/ Discard(t, c)
  \/ \E c \in Calls :
       \/ Lose(c) \/ Answer(c) \/ CallDies(c)
       \/ Read(c) \/ Put(c) \/ Commit(c) \/ Recheck(c) \/ Drop(c) \/ Clean(c)
       \/ ReadKey(c) \/ DeleteRow(c) \/ DeleteObject(c)
       \/ DeleteFromList(c) \/ FindKey(c) \/ PurgeSnapshot(c) \/ RemoveRow(c)

DraftSpec == DraftInit /\ [][DraftNext]_draftVars

-----------------------------------------------------------------------------
(* Properties *)

\* No tab silently overwrites what it has not seen: whatever copies of a save are repeated or
\* late, a save replaces only the save that its tab had loaded or stored before it.  This and
\* the next hold until the draft is deleted: a first save still on the way then makes the row
\* anew, and its revisions count from 1 again.
NothingOverwrittenUnseen ==
  [][draft.there /\ draft'.there /\ draft'.save # draft.save
       => discarded \/ basis[draft'.save] = draft.save]_draftVars

\* A tab that holds the row's revision has the row's content: the number it was answered, after
\* a retry too, is the number of its own save.
RevisionNamesContent ==
  \A t \in Tabs : tab[t].pc = "open" /\ draft.there /\ tab[t].rev = draft.rev
    => discarded \/ tab[t].base = draft.save

\* The row points at a snapshot that exists, unless the draft was deleted: a deletion from a
\* list takes the snapshot first, and a copy of the first save that is still on the way makes
\* the row anew after a deletion took its snapshot.
DanglingNeedsDiscard == draft.there /\ draft.save \notin snapshots => discarded

=============================================================================
