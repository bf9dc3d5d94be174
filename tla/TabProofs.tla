----------------------------- MODULE TabProofs -----------------------------
(***************************************************************************)
(* Theorems about what the tabs of a user do at the same time, for any     *)
(* number of tabs, requests, saves and messages.                           *)
(*                                                                         *)
(* A draft: copies of a save all carry the revision it was made for, so    *)
(* the row takes a save at one revision and at no other; until the draft   *)
(* is deleted, whatever somebody remembers of the row was true of it once, *)
(* and is still true if the revision is the same.                          *)
(*                                                                         *)
(* A follow-up: whoever read it open finds a later version when a reply    *)
(* has closed it, and whoever looked for replies in vain was overtaken.    *)
(*                                                                         *)
(* A chat: every request goes on from a message that is shown, and its     *)
(* answer is a stretch that begins or ends there.                          *)
(***************************************************************************)
EXTENDS Drafts, Tasks, Chat, FiniteSetTheorems, WellFoundedInduction, TLAPS

-----------------------------------------------------------------------------
(* Drafts *)


Row == [there : BOOLEAN, rev : Revisions, save : Saves]
Tab == [pc : {"closed", "opening", "open"}, rev : Revisions, base : Saves,
        attempt : Saves, at : Revisions]
Call == [pc : {"idle", "read", "put", "commit", "recheck", "drop", "clean",
               "saved", "conflict", "key", "row", "object", "deleted",
               "find", "purge", "remove"},
         to : Tabs \cup {NoTab}, save : Saves, rev : Revisions, old : Saves,
         answer : Revisions]

\* A tab will send the save for the revision again, or an invocation works on it.
Carries(s, r) ==
  \/ \E c \in Calls : call[c].save = s /\ call[c].rev = r
  \/ \E t \in Tabs : tab[t].attempt = s /\ tab[t].at = r

Ids == 1..MaxSaves
SavePcs == {"read", "put", "commit", "recheck", "drop", "clean", "saved", "conflict"}
Holding == {"put", "commit", "recheck", "drop", "clean"}

\* An invocation has a save to make, or none, and knows of no save to come.
Sound(k) ==
  /\ k.old <= minted /\ k.answer <= minted
  /\ k.pc \in SavePcs => k.save # 0
  /\ k.pc \notin SavePcs => k.save = 0

\* Revisions count no faster than save ids.
Numbered ==
  /\ draft.rev <= draft.save /\ draft.save <= minted
  /\ draft.there => draft.rev # 0 /\ draft.save # 0
  /\ ~draft.there => draft = NoRow
  /\ \A t \in Tabs : tab[t].rev <= minted
  /\ \A c \in Calls : Sound(call[c])
  /\ \A s \in Ids, r \in Revisions : Carries(s, r) => r < s /\ s <= minted

\* Copies of a save agree on its revision, with each other, with the row and with its successors.
Agreed ==
  /\ \A s \in Ids, r, q \in Revisions : Carries(s, r) /\ Carries(s, q) => r = q
  /\ draft.there => \A r \in Revisions : Carries(draft.save, r) => draft.rev = r + 1
  /\ \A c \in Calls : call[c].pc \in Holding /\ call[c].old # 0 =>
       \A r \in Revisions : Carries(call[c].old, r) => r + 1 = call[c].rev

\* The save was the row's at that revision.
Was(rev, save) == rev <= draft.rev /\ (rev = draft.rev => save = draft.save)

\* What holds of an invocation until the draft is deleted.
Attends(k, objects) ==
  /\ k.pc = "clean" => Was(k.rev + 1, k.save)
  /\ k.pc = "saved" => Was(k.answer, k.save)
  /\ k.pc \in {"recheck", "drop"} => k.rev < draft.rev
  /\ k.pc = "drop" => draft.save # k.save
  /\ k.pc = "commit" /\ k.rev = draft.rev => k.save \in objects
  /\ k.pc \in Holding /\ k.old # 0 /\ k.rev < draft.rev => draft.save # k.old
  /\ k.pc = "row" /\ k.old # 0 => draft.there
  /\ k.pc = "object" => k.old = 0
  /\ k.pc # "remove"

Undiscarded ==
  /\ \A s \in Ids, r \in Revisions : Carries(s, r) => Was(r, basis[s])
  /\ \A t \in Tabs : Was(tab[t].rev, tab[t].base)
  /\ \A c \in Calls : Attends(call[c], snapshots)
  /\ draft.there => draft.save \in snapshots

Typed ==
  /\ draft \in Row /\ snapshots \subseteq Ids
  /\ tab \in [Tabs -> Tab] /\ call \in [Calls -> Call]
  /\ minted \in Saves /\ basis \in [Ids -> Saves] /\ discarded \in BOOLEAN

DraftInv == Typed /\ Numbered /\ Agreed /\ (~discarded => Undiscarded)

-----------------------------------------------------------------------------
(* Steps that leave the row alone *)

\* No new copy of a save, and no save but the row's is about to be replaced.
LEMMA QuietStep ==
  ASSUME DraftInv, UNCHANGED <<draft, minted, basis, discarded>>,
         tab' \in [Tabs -> Tab], call' \in [Calls -> Call], snapshots' \subseteq Ids,
         \A s \in Ids, r \in Revisions : Carries(s, r)' => Carries(s, r),
         \A t \in Tabs : tab'[t].rev <= minted,
         \A c \in Calls : Sound(call'[c]),
         \A c \in Calls : call'[c].pc \in Holding /\ call'[c].old # 0 =>
           \/ call[c].pc \in Holding /\ call[c].old = call'[c].old /\ call[c].rev = call'[c].rev
           \/ draft.there /\ call'[c].old = draft.save /\ call'[c].rev = draft.rev,
         ~discarded => /\ \A t \in Tabs : Was(tab'[t].rev, tab'[t].base)
                       /\ \A c \in Calls : Attends(call'[c], snapshots')
                       /\ draft.there => draft.save \in snapshots'
  PROVE  DraftInv'
<1>1. Typed'
  BY DEF DraftInv, Typed
<1>2. Numbered'
  BY DEF DraftInv, Numbered, Sound
<1>3. Agreed'
  <2>1. /\ \A s \in Ids, r, q \in Revisions : Carries(s, r)' /\ Carries(s, q)' => r = q
        /\ draft.there => draft.save \in Ids
    BY DraftsAssumption DEF DraftInv, Agreed, Typed, Numbered, Row, Saves, Ids
  <2>2. draft'.there => \A r \in Revisions : Carries(draft.save, r)' => draft'.rev = r + 1
    BY <2>1 DEF DraftInv, Agreed
  <2>3. ASSUME NEW c \in Calls, call'[c].pc \in Holding, call'[c].old # 0, NEW r \in Revisions,
               Carries(call[c].old, r)'
        PROVE  r + 1 = call'[c].rev
    <3>1. PICK o \in Ids : o = call'[c].old
      BY <2>3, DraftsAssumption DEF Call, Saves, Ids
    <3>2. Carries(o, r)'
      BY <2>3, <3>1 DEF Carries
    <3>3. Carries(o, r)
      BY <3>2
    <3> QED BY <2>3, <3>1, <3>3 DEF DraftInv, Agreed
  <2>4. draft' = draft
    OBVIOUS
  <2> QED BY <2>1, <2>2, <2>3, <2>4 DEF Agreed
<1>4. ~discarded' => Undiscarded'
  <2> SUFFICES ASSUME ~discarded PROVE Undiscarded'
    OBVIOUS
  <2>1. \A s \in Ids, r \in Revisions : Carries(s, r)' => Was(r, basis[s])
    BY DEF DraftInv, Undiscarded
  <2> QED BY <2>1 DEF Undiscarded, Was, Attends
<1> QED BY <1>1, <1>2, <1>3, <1>4 DEF DraftInv

\* One invocation moves; it keeps its save, or has none to make.
LEMMA CallStep ==
  ASSUME DraftInv, NEW c \in Calls, NEW k \in Call, call' = [call EXCEPT ![c] = k],
         UNCHANGED <<draft, tab, minted, basis, discarded>>, snapshots' \subseteq Ids,
         k.save = 0 \/ (k.save = call[c].save /\ k.rev = call[c].rev),
         Sound(k),
         k.pc \in Holding /\ k.old # 0 =>
           \/ call[c].pc \in Holding /\ call[c].old = k.old /\ call[c].rev = k.rev
           \/ draft.there /\ k.old = draft.save /\ k.rev = draft.rev,
         ~discarded =>
           /\ Attends(k, snapshots')
           /\ \A d \in Calls : call[d].pc = "commit" /\ call[d].rev = draft.rev /\ d # c =>
                call[d].save \in snapshots'
           /\ draft.there => draft.save \in snapshots'
  PROVE  DraftInv'
<1>1. /\ call \in [Calls -> Call] /\ tab' \in [Tabs -> Tab]
      /\ \A t \in Tabs : tab'[t].rev <= minted
      /\ \A d \in Calls : Sound(call[d])
  BY DEF DraftInv, Typed, Numbered
<1>2. /\ call' \in [Calls -> Call] /\ call'[c] = k
      /\ \A d \in Calls : d # c => call'[d] = call[d]
  BY <1>1
<1>3. \A s \in Ids, r \in Revisions : Carries(s, r)' => Carries(s, r)
  BY <1>1, <1>2, DraftsAssumption DEF Carries, Ids
<1>4. \A d \in Calls : Sound(call'[d])
  BY <1>1, <1>2
<1>5. ASSUME NEW d \in Calls, call'[d].pc \in Holding, call'[d].old # 0
      PROVE  \/ call[d].pc \in Holding /\ call[d].old = call'[d].old /\ call[d].rev = call'[d].rev
             \/ draft.there /\ call'[d].old = draft.save /\ call'[d].rev = draft.rev
  BY <1>2, <1>5
<1>6. ~discarded => /\ \A t \in Tabs : Was(tab'[t].rev, tab'[t].base)
                    /\ \A d \in Calls : Attends(call'[d], snapshots')
                    /\ draft.there => draft.save \in snapshots'
  <2> SUFFICES ASSUME ~discarded PROVE /\ \A t \in Tabs : Was(tab'[t].rev, tab'[t].base)
                                       /\ \A d \in Calls : Attends(call'[d], snapshots')
    OBVIOUS
  <2>1. \A d \in Calls : d # c => Attends(call[d], snapshots')
    BY DEF DraftInv, Undiscarded, Attends
  <2> QED BY <1>2, <2>1 DEF DraftInv, Undiscarded
<1> QED BY <1>1, <1>2, <1>3, <1>4, <1>5, <1>6, QuietStep

\* The parts of the invariant that are asked for most.
LEMMA Parts ==
  ASSUME DraftInv
  PROVE  /\ draft \in Row /\ snapshots \subseteq Ids
         /\ tab \in [Tabs -> Tab] /\ call \in [Calls -> Call]
         /\ minted \in Saves /\ basis \in [Ids -> Saves] /\ discarded \in BOOLEAN
         /\ draft.rev <= draft.save /\ draft.save <= minted
         /\ draft.there => draft.rev # 0 /\ draft.save # 0
         /\ ~draft.there => draft = NoRow
         /\ \A c \in Calls : Sound(call[c])
         /\ draft.rev <= minted
BY DraftsAssumption DEF DraftInv, Typed, Numbered, Row, Revisions, Saves

\* What an invocation carries.
LEMMA CallCarries ==
  ASSUME DraftInv, NEW c \in Calls, call[c].pc \in SavePcs
  PROVE  /\ call[c].save \in Ids /\ call[c].rev \in Revisions
         /\ Carries(call[c].save, call[c].rev)
         /\ call[c].rev < call[c].save /\ call[c].save <= minted
         /\ draft.there /\ draft.save = call[c].save => draft.rev = call[c].rev + 1
         /\ ~discarded => Was(call[c].rev, basis[call[c].save])
<1>1. call[c].save \in Saves /\ call[c].rev \in Revisions /\ Sound(call[c])
  BY Parts DEF Call
<1>2. call[c].save \in Ids
  BY <1>1, DraftsAssumption DEF Sound, Saves, Ids
<1>3. Carries(call[c].save, call[c].rev)
  BY DEF Carries
<1> QED BY <1>1, <1>2, <1>3 DEF DraftInv, Numbered, Agreed, Undiscarded

\* What a save remembers of the row holds of it until the draft is deleted.
LEMMA CallAttends ==
  ASSUME DraftInv, NEW c \in Calls, ~discarded
  PROVE  Attends(call[c], snapshots)
BY DEF DraftInv, Undiscarded

\* An invocation is idle, and carries nothing, when it begins with a deletion or ends.
LEMMA NoCarrier ==
  ASSUME DraftInv, NEW c \in Calls, NEW k \in Call,
         k.pc \in {"idle", "key", "find", "deleted", "purge"}, k.save = 0, k.rev = 0,
         k.old <= minted, k.answer = 0,
         call' = [call EXCEPT ![c] = k],
         UNCHANGED <<draft, snapshots, tab, minted, basis, discarded>>
  PROVE  DraftInv'
<1>1. snapshots' \subseteq Ids /\ minted \in Nat
  BY Parts, DraftsAssumption DEF Saves
<1>2. Sound(k)
  BY <1>1 DEF Sound, SavePcs
<1>3. k.pc \notin Holding
  BY DEF Holding
<1>4. Attends(k, snapshots')
  BY <1>3 DEF Attends
<1>5. ~discarded =>
           /\ \A d \in Calls : call[d].pc = "commit" /\ call[d].rev = draft.rev /\ d # c =>
                call[d].save \in snapshots'
           /\ draft.there => draft.save \in snapshots'
  BY CallAttends DEF Attends, DraftInv, Undiscarded
<1> QED BY <1>1, <1>2, <1>3, <1>4, <1>5, CallStep

\* Invocations begin and end.
LEMMA EndsStep ==
  ASSUME DraftInv, NEW c \in Calls, CallDies(c) \/ DeleteFromList(c) \/ \E t \in Tabs : Discard(t, c)
  PROVE  DraftInv'
<1>0. minted \in Nat
  BY Parts, DraftsAssumption DEF Saves
<1>1. CASE CallDies(c)
  <2>1. /\ NoCall \in Call /\ NoCall.pc = "idle" /\ NoCall.save = 0 /\ NoCall.rev = 0
        /\ NoCall.old = 0 /\ NoCall.answer = 0
    BY DraftsAssumption DEF Call, NoCall, Saves, Revisions
  <2>2. /\ call' = [call EXCEPT ![c] = NoCall]
        /\ UNCHANGED <<draft, snapshots, tab, minted, basis, discarded>>
    BY <1>1 DEF CallDies
  <2>3. NoCall.old <= minted
    BY <1>0, <2>1
  <2> QED BY <2>1, <2>2, <2>3, NoCarrier
<1>2. CASE DeleteFromList(c)
  <2> DEFINE k == [NoCall EXCEPT !.pc = "find"]
  <2>1. k \in Call /\ k.pc = "find" /\ k.save = 0 /\ k.rev = 0 /\ k.old = 0 /\ k.answer = 0
    BY DraftsAssumption DEF Call, NoCall, Saves, Revisions
  <2>2. /\ call' = [call EXCEPT ![c] = k]
        /\ UNCHANGED <<draft, snapshots, tab, minted, basis, discarded>>
    BY <1>2 DEF DeleteFromList
  <2> HIDE DEF k
  <2>3. k.old <= minted
    BY <1>0, <2>1
  <2> QED BY <2>1, <2>2, <2>3, NoCarrier
<1>3. CASE \E t \in Tabs : Discard(t, c)
  <2>1. PICK t \in Tabs : Discard(t, c)
    BY <1>3
  <2> DEFINE k == [NoCall EXCEPT !.pc = "key", !.to = t]
  <2>2. /\ NoCall \in Call /\ NoCall.save = 0 /\ NoCall.rev = 0
        /\ NoCall.old = 0 /\ NoCall.answer = 0
    BY DraftsAssumption DEF Call, NoCall, Saves, Revisions
  <2>3. k \in Call /\ k.pc = "key" /\ k.save = 0 /\ k.rev = 0 /\ k.old = 0 /\ k.answer = 0
    BY <2>2 DEF Call
  <2>4. /\ call' = [call EXCEPT ![c] = k]
        /\ UNCHANGED <<draft, snapshots, tab, minted, basis, discarded>>
    BY <2>1 DEF Discard
  <2> HIDE DEF k
  <2>5. k.old <= minted
    BY <1>0, <2>3
  <2> QED BY <2>3, <2>4, <2>5, NoCarrier
<1> QED BY <1>1, <1>2, <1>3

\* An answer is lost.
LEMMA LoseStep ==
  ASSUME DraftInv, NEW c \in Calls, Lose(c)
  PROVE  DraftInv'
<1> DEFINE k == [call[c] EXCEPT !.to = NoTab]
<1>1. call[c] \in Call /\ snapshots \subseteq Ids /\ Sound(call[c])
  BY Parts
<1>2. /\ k \in Call /\ k.pc = call[c].pc /\ k.save = call[c].save /\ k.rev = call[c].rev
      /\ k.old = call[c].old /\ k.answer = call[c].answer
  BY <1>1 DEF Call
<1>3. call' = [call EXCEPT ![c] = k] /\ UNCHANGED <<draft, snapshots, tab, minted, basis, discarded>>
  BY DEF Lose
<1> HIDE DEF k
<1>4. Sound(k)
  BY <1>1, <1>2 DEF Sound
<1>5. ~discarded =>
           /\ Attends(k, snapshots')
           /\ \A d \in Calls : call[d].pc = "commit" /\ call[d].rev = draft.rev /\ d # c =>
                call[d].save \in snapshots'
           /\ draft.there => draft.save \in snapshots'
  BY <1>2, <1>3, CallAttends DEF Attends, DraftInv, Undiscarded
<1> QED BY <1>1, <1>2, <1>3, <1>4, <1>5, CallStep

\* The row is read: the save is stored, refused or written.
LEMMA ReadStep ==
  ASSUME DraftInv, NEW c \in Calls, Read(c)
  PROVE  DraftInv'
<1> DEFINE saved == [call[c] EXCEPT !.pc = "saved", !.answer = draft.rev]
           refused == [call[c] EXCEPT !.pc = "conflict"]
           written == [call[c] EXCEPT !.pc = "put", !.old = draft.save]
<1>1. /\ call[c] \in Call /\ snapshots \subseteq Ids /\ Sound(call[c]) /\ draft \in Row
      /\ draft.save <= minted /\ draft.rev <= minted /\ call[c].pc = "read"
      /\ ~draft.there => draft = NoRow
  BY Parts DEF Read
<1>2. /\ saved \in Call /\ saved.pc = "saved" /\ saved.answer = draft.rev
      /\ saved.save = call[c].save /\ saved.rev = call[c].rev /\ saved.old = call[c].old
  BY <1>1 DEF Call, Row
<1>3. /\ refused \in Call /\ refused.pc = "conflict" /\ refused.answer = call[c].answer
      /\ refused.save = call[c].save /\ refused.rev = call[c].rev /\ refused.old = call[c].old
  BY <1>1 DEF Call
<1>4. /\ written \in Call /\ written.pc = "put" /\ written.answer = call[c].answer
      /\ written.save = call[c].save /\ written.rev = call[c].rev /\ written.old = draft.save
  BY <1>1 DEF Call, Row
<1>5. call' = [call EXCEPT ![c] = IF draft.save = call[c].save THEN saved
                                  ELSE IF draft.rev # call[c].rev THEN refused ELSE written]
  BY DEF Read
<1>6. UNCHANGED <<draft, snapshots, tab, minted, basis, discarded>>
  BY DEF Read
<1>7. ~discarded =>
        /\ \A d \in Calls : call[d].pc = "commit" /\ call[d].rev = draft.rev /\ d # c =>
             call[d].save \in snapshots
        /\ draft.there => draft.save \in snapshots
  BY CallAttends DEF Attends, DraftInv, Undiscarded
<1> HIDE DEF saved, refused, written
<1>8. Sound(saved) /\ Sound(refused) /\ Sound(written)
  BY <1>1, <1>2, <1>3, <1>4 DEF Sound, SavePcs
<1>9. CASE draft.save = call[c].save
  <2>1. Attends(saved, snapshots)
    BY <1>1, <1>2, <1>9 DEF Attends, Was, Holding, Row, Revisions
  <2> QED BY <1>1, <1>2, <1>5, <1>6, <1>7, <1>8, <1>9, <2>1, CallStep DEF Holding
<1>10. CASE draft.save # call[c].save /\ draft.rev # call[c].rev
  <2>1. Attends(refused, snapshots)
    BY <1>1, <1>3 DEF Attends, Holding
  <2> QED BY <1>1, <1>3, <1>5, <1>6, <1>7, <1>8, <1>10, <2>1, CallStep DEF Holding
<1>11. CASE draft.save # call[c].save /\ draft.rev = call[c].rev
  <2>1. Attends(written, snapshots)
    BY <1>1, <1>4, <1>11 DEF Attends, Row, Revisions
  <2>2. written.old # 0 => draft.there
    BY <1>1, <1>4 DEF NoRow
  <2> QED BY <1>1, <1>4, <1>5, <1>6, <1>7, <1>8, <1>11, <2>1, <2>2, CallStep
<1> QED BY <1>9, <1>10, <1>11

\* The snapshot is written.
LEMMA PutStep ==
  ASSUME DraftInv, NEW c \in Calls, Put(c)
  PROVE  DraftInv'
<1> DEFINE k == [call[c] EXCEPT !.pc = "commit"]
<1>1. /\ call[c] \in Call /\ snapshots \subseteq Ids /\ Sound(call[c]) /\ call[c].pc = "put"
      /\ call[c].save \in Ids
  BY Parts, CallCarries DEF Put, SavePcs
<1>2. /\ k \in Call /\ k.pc = "commit" /\ k.save = call[c].save /\ k.rev = call[c].rev
      /\ k.old = call[c].old /\ k.answer = call[c].answer
  BY <1>1 DEF Call
<1>3. /\ call' = [call EXCEPT ![c] = k] /\ snapshots' = snapshots \cup {call[c].save}
      /\ UNCHANGED <<draft, tab, minted, basis, discarded>>
  BY DEF Put, Goto
<1> HIDE DEF k
<1>4. Sound(k)
  BY <1>1, <1>2 DEF Sound, SavePcs
<1>5. ~discarded =>
           /\ Attends(k, snapshots')
           /\ \A d \in Calls : call[d].pc = "commit" /\ call[d].rev = draft.rev /\ d # c =>
                call[d].save \in snapshots'
           /\ draft.there => draft.save \in snapshots'
  BY <1>1, <1>2, <1>3, CallAttends DEF Attends, Holding, DraftInv, Undiscarded
<1> QED BY <1>1, <1>2, <1>3, <1>4, <1>5, CallStep DEF Holding

\* A save that changed nothing looks for another copy of itself.
LEMMA RecheckStep ==
  ASSUME DraftInv, NEW c \in Calls, Recheck(c)
  PROVE  DraftInv'
<1> DEFINE k(pc) == [call[c] EXCEPT !.pc = pc]
<1>1. /\ call[c] \in Call /\ snapshots \subseteq Ids /\ Sound(call[c]) /\ call[c].pc = "recheck"
      /\ draft \in Row /\ call[c].save \in Ids /\ call[c].rev \in Revisions
      /\ ~draft.there => draft = NoRow
      /\ draft.there /\ draft.save = call[c].save => draft.rev = call[c].rev + 1
  BY Parts, CallCarries DEF Recheck, SavePcs
<1>2. \A pc \in {"clean", "drop"} :
        /\ k(pc) \in Call /\ k(pc).pc = pc /\ k(pc).save = call[c].save /\ k(pc).rev = call[c].rev
        /\ k(pc).old = call[c].old /\ k(pc).answer = call[c].answer
  BY <1>1 DEF Call
<1>3. PICK pc \in {"clean", "drop"} :
        /\ call' = [call EXCEPT ![c] = k(pc)]
        /\ (pc = "clean") <=> (draft.save = call[c].save)
  <2>1. CASE draft.save = call[c].save
    BY <2>1 DEF Recheck, Goto
  <2>2. CASE draft.save # call[c].save
    BY <2>2 DEF Recheck, Goto
  <2> QED BY <2>1, <2>2
<1>4. UNCHANGED <<draft, snapshots, tab, minted, basis, discarded>>
  BY DEF Recheck
<1>5. /\ k(pc) \in Call /\ k(pc).pc = pc /\ k(pc).save = call[c].save /\ k(pc).rev = call[c].rev
      /\ k(pc).old = call[c].old /\ k(pc).answer = call[c].answer
  BY <1>2
<1> HIDE DEF k
<1>6. Sound(k(pc))
  BY <1>1, <1>5 DEF Sound, SavePcs
<1>7. ~discarded =>
           /\ \A d \in Calls : call[d].pc = "commit" /\ call[d].rev = draft.rev /\ d # c =>
                call[d].save \in snapshots'
           /\ draft.there => draft.save \in snapshots'
  BY <1>4, CallAttends DEF Attends, DraftInv, Undiscarded
<1>8. ASSUME ~discarded PROVE Attends(k(pc), snapshots')
  <2>1. /\ call[c].rev < draft.rev
        /\ call[c].old # 0 /\ call[c].rev < draft.rev => draft.save # call[c].old
    BY <1>1, <1>8, CallAttends DEF Attends, Holding
  <2>2. draft.save = call[c].save => Was(call[c].rev + 1, call[c].save)
    BY <1>1, DraftsAssumption DEF Was, Row, Revisions, NoRow, Ids
  <2> QED BY <1>3, <1>5, <2>1, <2>2 DEF Attends, Holding
<1> QED BY <1>1, <1>3, <1>4, <1>5, <1>6, <1>7, <1>8, CallStep DEF Holding

\* A save that was refused deletes its snapshot, which nobody will commit.
LEMMA DropStep ==
  ASSUME DraftInv, NEW c \in Calls, Drop(c)
  PROVE  DraftInv'
<1> DEFINE k == [call[c] EXCEPT !.pc = "conflict"]
<1>1. /\ call[c] \in Call /\ snapshots \subseteq Ids /\ Sound(call[c]) /\ call[c].pc = "drop"
      /\ draft \in Row /\ call[c].save \in Ids /\ call[c].rev \in Revisions
      /\ Carries(call[c].save, call[c].rev)
  BY Parts, CallCarries DEF Drop, SavePcs
<1>2. /\ k \in Call /\ k.pc = "conflict" /\ k.save = call[c].save /\ k.rev = call[c].rev
      /\ k.old = call[c].old /\ k.answer = call[c].answer
  BY <1>1 DEF Call
<1>3. /\ call' = [call EXCEPT ![c] = k] /\ snapshots' = snapshots \ {call[c].save}
      /\ UNCHANGED <<draft, tab, minted, basis, discarded>>
  BY DEF Drop, Goto
<1> HIDE DEF k
<1>4. Sound(k) /\ k.pc \notin Holding
  BY <1>1, <1>2 DEF Sound, SavePcs, Holding
<1>5. Attends(k, snapshots')
  BY <1>2 DEF Attends, Holding
<1>6. ASSUME ~discarded
      PROVE  /\ \A d \in Calls : call[d].pc = "commit" /\ call[d].rev = draft.rev /\ d # c =>
                  call[d].save \in snapshots'
             /\ draft.there => draft.save \in snapshots'
  <2>1. call[c].rev < draft.rev /\ draft.save # call[c].save
    BY <1>1, <1>6, CallAttends DEF Attends
  <2>2. ASSUME NEW d \in Calls, call[d].pc = "commit", call[d].rev = draft.rev
        PROVE  call[d].save \in snapshots'
    <3>1. call[d].save \in snapshots
      BY <1>6, <2>2, CallAttends DEF Attends
    <3>2. call[d].rev \in Revisions /\ Carries(call[d].save, call[d].rev)
      BY <2>2, CallCarries DEF SavePcs
    <3>3. call[d].save # call[c].save
      <4> SUFFICES ASSUME call[d].save = call[c].save PROVE FALSE
        OBVIOUS
      <4>1. Carries(call[c].save, call[d].rev)
        BY <3>2
      <4>2. call[d].rev = call[c].rev
        BY <1>1, <3>2, <4>1 DEF DraftInv, Agreed
      <4> QED BY <1>1, <2>1, <2>2, <4>2 DEF Row, Revisions
    <3> QED BY <1>3, <3>1, <3>3
  <2> QED BY <1>3, <1>6, <2>1, <2>2 DEF DraftInv, Undiscarded
<1> QED BY <1>1, <1>2, <1>3, <1>4, <1>5, <1>6, CallStep

\* A save that is stored deletes the snapshot that it replaced.
LEMMA CleanStep ==
  ASSUME DraftInv, NEW c \in Calls, Clean(c)
  PROVE  DraftInv'
<1> DEFINE k == [call[c] EXCEPT !.pc = "saved", !.answer = call[c].rev + 1]
<1>1. /\ call[c] \in Call /\ snapshots \subseteq Ids /\ Sound(call[c]) /\ call[c].pc = "clean"
      /\ draft \in Row /\ call[c].save \in Ids /\ call[c].rev \in Revisions /\ minted \in Saves
      /\ call[c].rev < call[c].save /\ call[c].save <= minted /\ call[c].old \in Saves
      /\ draft.there => draft.save # 0
  BY Parts, CallCarries DEF Clean, SavePcs, Call
<1>2. call[c].rev + 1 \in Revisions /\ call[c].rev + 1 <= minted
  BY <1>1, DraftsAssumption DEF Revisions, Saves, Ids
<1>3. /\ k \in Call /\ k.pc = "saved" /\ k.save = call[c].save /\ k.rev = call[c].rev
      /\ k.old = call[c].old /\ k.answer = call[c].rev + 1
  BY <1>1, <1>2 DEF Call
<1>4. /\ call' = [call EXCEPT ![c] = k]
      /\ snapshots' \subseteq snapshots /\ \A s \in snapshots : s # call[c].old => s \in snapshots'
      /\ UNCHANGED <<draft, tab, minted, basis, discarded>>
  BY DEF Clean
<1> HIDE DEF k
<1>5. Sound(k) /\ k.pc \notin Holding
  BY <1>1, <1>2, <1>3 DEF Sound, SavePcs, Holding
<1>6. ASSUME ~discarded PROVE Attends(k, snapshots')
  <2>1. Was(call[c].rev + 1, call[c].save)
    BY <1>1, <1>6, CallAttends DEF Attends
  <2> QED BY <1>3, <2>1 DEF Attends, Holding
<1>7. ASSUME ~discarded
      PROVE  /\ \A d \in Calls : call[d].pc = "commit" /\ call[d].rev = draft.rev /\ d # c =>
                  call[d].save \in snapshots'
             /\ draft.there => draft.save \in snapshots'
  <2>1. /\ call[c].rev + 1 <= draft.rev
        /\ call[c].old # 0 /\ call[c].rev < draft.rev => draft.save # call[c].old
    BY <1>1, <1>7, CallAttends DEF Attends, Was, Holding
  <2>2. ASSUME NEW d \in Calls, call[d].pc = "commit", call[d].rev = draft.rev
        PROVE  call[d].save \in snapshots'
    <3>1. call[d].save \in snapshots
      BY <1>7, <2>2, CallAttends DEF Attends
    <3>2. call[d].rev \in Revisions /\ Carries(call[d].save, call[d].rev) /\ call[d].save \in Ids
      BY <2>2, CallCarries DEF SavePcs
    <3>3. call[d].save # call[c].old
      <4> SUFFICES ASSUME call[d].save = call[c].old PROVE FALSE
        OBVIOUS
      <4>1. Carries(call[c].old, call[d].rev) /\ call[c].old # 0
        BY <3>2, DraftsAssumption DEF Ids
      <4>2. call[d].rev + 1 = call[c].rev
        BY <1>1, <3>2, <4>1 DEF DraftInv, Agreed, Holding
      <4> QED BY <1>1, <2>1, <2>2, <4>2, DraftsAssumption DEF Row, Revisions
    <3> QED BY <1>4, <3>1, <3>3
  <2>3. draft.there => draft.save # call[c].old
    BY <1>1, <2>1, DraftsAssumption DEF Row, Revisions
  <2> QED BY <1>4, <1>7, <2>2, <2>3 DEF DraftInv, Undiscarded
<1> QED BY <1>1, <1>3, <1>4, <1>5, <1>6, <1>7, CallStep

\* A deletion reads the key, or deletes the snapshot when the row is gone.
LEMMA KeyStep ==
  ASSUME DraftInv, NEW c \in Calls, ReadKey(c) \/ FindKey(c) \/ DeleteObject(c)
  PROVE  DraftInv'
<1> DEFINE q(pc) == [call[c] EXCEPT !.pc = pc, !.old = draft.save]
           deleted == [call[c] EXCEPT !.pc = "deleted"]
<1>1. /\ call[c] \in Call /\ snapshots \subseteq Ids /\ Sound(call[c]) /\ draft \in Row
      /\ draft.save <= minted
      /\ ~draft.there => draft = NoRow
      /\ call[c].pc \in {"key", "find", "object"}
  BY Parts DEF ReadKey, FindKey, DeleteObject
<1>2. call[c].save = 0
  BY <1>1 DEF Sound, SavePcs
<1>3. UNCHANGED <<draft, tab, minted, basis, discarded>>
  BY DEF ReadKey, FindKey, DeleteObject
<1>4. ASSUME snapshots' = snapshots, ~discarded
      PROVE  /\ \A d \in Calls : call[d].pc = "commit" /\ call[d].rev = draft.rev /\ d # c =>
                  call[d].save \in snapshots'
             /\ draft.there => draft.save \in snapshots'
  BY <1>4, CallAttends DEF Attends, DraftInv, Undiscarded
<1>5. ASSUME NEW k \in Call, k.pc \in {"row", "purge"}, k.save = 0, k.old = draft.save,
             k.answer = call[c].answer, call' = [call EXCEPT ![c] = k], snapshots' = snapshots
      PROVE  DraftInv'
  <2>1. Sound(k) /\ k.pc \notin Holding
    BY <1>1, <1>5 DEF Sound, SavePcs, Holding
  <2>2. k.pc = "row" /\ k.old # 0 => draft.there
    BY <1>1, <1>5 DEF NoRow
  <2>3. Attends(k, snapshots')
    BY <1>5, <2>1, <2>2 DEF Attends
  <2> QED BY <1>1, <1>3, <1>4, <1>5, <2>1, <2>3, CallStep
<1>6. CASE DeleteObject(c)
  <2>1. /\ deleted \in Call /\ deleted.pc = "deleted" /\ deleted.save = 0
        /\ deleted.old = call[c].old /\ deleted.answer = call[c].answer
    BY <1>1, <1>2 DEF Call
  <2>2. /\ call' = [call EXCEPT ![c] = deleted] /\ call[c].pc = "object"
        /\ snapshots' = snapshots \ {call[c].old}
    BY <1>6 DEF DeleteObject, Goto
  <2> HIDE DEF deleted
  <2>3. Sound(deleted) /\ deleted.pc \notin Holding
    BY <1>1, <2>1 DEF Sound, SavePcs, Holding
  <2>4. Attends(deleted, snapshots')
    BY <2>1 DEF Attends, Holding
  <2>5. ASSUME ~discarded PROVE snapshots' = snapshots
    <3>1. call[c].old = 0
      BY <2>2, <2>5, CallAttends DEF Attends
    <3>2. 0 \notin Ids
      BY DraftsAssumption DEF Ids
    <3> QED BY <1>1, <2>2, <3>1, <3>2
  <2>6. snapshots' \subseteq Ids
    BY <1>1, <2>2
  <2> QED BY <1>3, <1>4, <2>1, <2>2, <2>3, <2>4, <2>5, <2>6, CallStep
<1>7. \A pc \in {"row", "purge"} :
        /\ q(pc) \in Call /\ q(pc).pc = pc /\ q(pc).save = 0 /\ q(pc).old = draft.save
        /\ q(pc).answer = call[c].answer
  BY <1>1, <1>2 DEF Call, Row
<1>8. CASE ReadKey(c)
  <2>1. call' = [call EXCEPT ![c] = q("row")] /\ snapshots' = snapshots
    BY <1>8 DEF ReadKey
  <2> QED BY <1>5, <1>7, <2>1
<1>9. CASE FindKey(c)
  <2>1. call' = [call EXCEPT ![c] = q("purge")] /\ snapshots' = snapshots
    BY <1>9 DEF FindKey
  <2> QED BY <1>5, <1>7, <2>1
<1> QED BY <1>6, <1>8, <1>9

-----------------------------------------------------------------------------
(* The tab *)

\* An answer comes, or a tab opens the draft.
LEMMA AnswerStep ==
  ASSUME DraftInv, NEW c \in Calls, Answer(c)
  PROVE  DraftInv'
<1> DEFINE taken(t) == [tab[t] EXCEPT !.rev = call[c].answer, !.base = call[c].save,
                                      !.attempt = 0, !.at = 0]
<1>1. /\ tab \in [Tabs -> Tab] /\ call \in [Calls -> Call] /\ snapshots \subseteq Ids
      /\ \A d \in Calls : Sound(call[d])
      /\ minted \in Nat
      /\ \A t \in Tabs : tab[t].rev <= minted
  BY Parts, DraftsAssumption DEF Saves, DraftInv, Numbered
<1>2. /\ NoCall \in Call /\ NoCall.pc = "idle" /\ NoCall.save = 0 /\ NoCall.rev = 0
      /\ NoCall.old = 0 /\ NoCall.answer = 0
  BY DraftsAssumption DEF Call, NoCall, Saves, Revisions
<1>3. /\ Closed \in Tab /\ Closed.rev = 0 /\ Closed.base = 0 /\ Closed.attempt = 0
  BY DraftsAssumption DEF Tab, Closed, Saves, Revisions
<1>4. \A t \in Tabs : /\ taken(t) \in Tab /\ taken(t).rev = call[c].answer
                      /\ taken(t).base = call[c].save /\ taken(t).attempt = 0
  <2>1. call[c].answer \in Revisions /\ call[c].save \in Saves
    BY <1>1 DEF Call
  <2>2. 0 \in Saves /\ 0 \in Revisions
    BY DraftsAssumption DEF Saves, Revisions
  <2> QED BY <1>1, <2>1, <2>2 DEF Tab
<1>5. \A t \in Tabs : \/ tab'[t] = tab[t]
                      \/ tab'[t] = Closed
                      \/ tab'[t] = taken(t) /\ call[c].pc = "saved"
  BY DEF Answer
<1>6. \E f : tab' = [t \in Tabs |-> f[t]]
  <2> DEFINE g(t) == IF t # call[c].to \/ tab[t].pc # "open" \/ call[c].pc = "conflict" THEN tab[t]
                     ELSE IF call[c].pc = "deleted" THEN Closed ELSE taken(t)
  <2> DEFINE f == [t \in Tabs |-> g(t)]
  <2>1. tab' = f
    BY DEF Answer
  <2> HIDE DEF g
  <2>2. tab' = [t \in Tabs |-> f[t]]
    BY <2>1
  <2> QED BY <2>2
<1> HIDE DEF taken
<1>7. tab' \in [Tabs -> Tab]
  BY <1>1, <1>3, <1>4, <1>5, <1>6
<1>8. call' = [call EXCEPT ![c] = NoCall] /\ UNCHANGED <<draft, snapshots, minted, basis, discarded>>
  BY DEF Answer
<1>9. /\ call' \in [Calls -> Call] /\ call'[c] = NoCall
      /\ \A d \in Calls : d # c => call'[d] = call[d]
  BY <1>1, <1>2, <1>8
<1>10. 0 \notin Ids
  BY DraftsAssumption DEF Ids
<1>11. ASSUME NEW s \in Ids, NEW r \in Revisions, Carries(s, r)' PROVE Carries(s, r)
  <2>1. CASE \E d \in Calls : call'[d].save = s /\ call'[d].rev = r
    BY <1>2, <1>9, <1>10, <2>1 DEF Carries
  <2>2. CASE \E t \in Tabs : tab'[t].attempt = s /\ tab'[t].at = r
    BY <1>3, <1>4, <1>5, <1>10, <2>2 DEF Carries
  <2> QED BY <1>11, <2>1, <2>2 DEF Carries
<1>12. \A t \in Tabs : tab'[t].rev <= minted
  BY <1>1, <1>3, <1>4, <1>5 DEF Sound
<1>13. Sound(NoCall) /\ NoCall.pc \notin Holding
  BY <1>1, <1>2 DEF Sound, SavePcs, Holding
<1>14. Attends(NoCall, snapshots)
  BY <1>2 DEF Attends, Holding
<1>15. ASSUME ~discarded
       PROVE  /\ \A t \in Tabs : Was(tab'[t].rev, tab'[t].base)
              /\ \A d \in Calls : Attends(call'[d], snapshots')
              /\ draft.there => draft.save \in snapshots'
  <2>1. \A t \in Tabs : Was(tab[t].rev, tab[t].base)
    BY <1>15 DEF DraftInv, Undiscarded
  <2>2. Was(0, 0)
    <3>1. draft.rev \in Nat /\ (draft.rev = 0 => draft.save = 0)
      BY Parts, DraftsAssumption DEF NoRow, Row, Revisions
    <3> QED BY <3>1 DEF Was
  <2>3. call[c].pc = "saved" => Was(call[c].answer, call[c].save)
    BY <1>15, CallAttends DEF Attends
  <2>4. \A t \in Tabs : Was(tab'[t].rev, tab'[t].base)
    BY <1>3, <1>4, <1>5, <2>1, <2>2, <2>3
  <2>5. \A d \in Calls : Attends(call'[d], snapshots)
    BY <1>9, <1>14, <1>15, CallAttends
  <2> QED BY <1>8, <1>15, <2>4, <2>5 DEF DraftInv, Undiscarded
<1>16. \A d \in Calls : Sound(call'[d])
  BY <1>1, <1>9, <1>13
<1>17. \A d \in Calls : call'[d].pc \in Holding => call'[d] = call[d]
  BY <1>9, <1>13
<1>18. snapshots' \subseteq Ids
  BY <1>1, <1>8
<1> QED BY <1>7, <1>8, <1>9, <1>11, <1>12, <1>15, <1>16, <1>17, <1>18, QuietStep

\* A tab opens the draft: the row, then its snapshot.
LEMMA OpenStep ==
  ASSUME DraftInv, NEW t \in Tabs, OpenRow(t) \/ OpenSnapshot(t)
  PROVE  DraftInv'
<1> DEFINE opening == [Closed EXCEPT !.pc = "opening", !.rev = draft.rev, !.base = draft.save]
           opened == [tab[t] EXCEPT !.pc = "open"]
<1>1. /\ tab \in [Tabs -> Tab] /\ call \in [Calls -> Call] /\ snapshots \subseteq Ids
      /\ draft \in Row /\ draft.rev <= minted /\ minted \in Nat
      /\ \A c \in Calls : Sound(call[c])
      /\ \A u \in Tabs : tab[u].rev <= minted
  BY Parts, DraftsAssumption DEF Saves, DraftInv, Numbered
<1>2. /\ Closed \in Tab /\ Closed.rev = 0 /\ Closed.base = 0 /\ Closed.attempt = 0
  BY DraftsAssumption DEF Tab, Closed, Saves, Revisions
<1>3. /\ opening \in Tab /\ opening.rev = draft.rev /\ opening.base = draft.save
      /\ opening.attempt = 0
  BY <1>1, <1>2 DEF Tab, Row
<1>4. /\ opened \in Tab /\ opened.rev = tab[t].rev /\ opened.base = tab[t].base
      /\ opened.attempt = tab[t].attempt /\ opened.at = tab[t].at
  BY <1>1 DEF Tab
<1>5. UNCHANGED <<draft, snapshots, call, minted, basis, discarded>>
  BY DEF OpenRow, OpenSnapshot
<1>6. \/ tab' = [tab EXCEPT ![t] = opening]
      \/ tab' = [tab EXCEPT ![t] = opened]
      \/ tab' = [tab EXCEPT ![t] = Closed]
  BY DEF OpenRow, OpenSnapshot
<1> HIDE DEF opening, opened
<1>7. PICK n \in {opening, opened, Closed} : tab' = [tab EXCEPT ![t] = n]
  BY <1>6
<1>8. /\ n \in Tab
      /\ n.attempt = 0 \/ (n.attempt = tab[t].attempt /\ n.at = tab[t].at)
      /\ n.rev <= minted
  BY <1>1, <1>2, <1>3, <1>4, <1>7
<1>9. /\ tab' \in [Tabs -> Tab] /\ tab'[t] = n
      /\ \A u \in Tabs : u # t => tab'[u] = tab[u]
  BY <1>1, <1>7, <1>8
<1>10. ASSUME NEW s \in Ids, NEW r \in Revisions, Carries(s, r)' PROVE Carries(s, r)
  <2>1. 0 \notin Ids
    BY DraftsAssumption DEF Ids
  <2>2. CASE \E d \in Calls : call'[d].save = s /\ call'[d].rev = r
    BY <1>5, <2>2 DEF Carries
  <2>3. CASE \E u \in Tabs : tab'[u].attempt = s /\ tab'[u].at = r
    BY <1>8, <1>9, <2>1, <2>3 DEF Carries
  <2> QED BY <1>10, <2>2, <2>3 DEF Carries
<1>11. \A u \in Tabs : tab'[u].rev <= minted
  BY <1>1, <1>8, <1>9
<1>12. ASSUME ~discarded
       PROVE  /\ \A u \in Tabs : Was(tab'[u].rev, tab'[u].base)
              /\ \A d \in Calls : Attends(call'[d], snapshots')
              /\ draft.there => draft.save \in snapshots'
  <2>1. \A u \in Tabs : Was(tab[u].rev, tab[u].base)
    BY <1>12 DEF DraftInv, Undiscarded
  <2>2. Was(0, 0)
    <3>1. draft.rev \in Nat /\ (draft.rev = 0 => draft.save = 0)
      BY Parts, DraftsAssumption DEF NoRow, Row, Revisions
    <3> QED BY <3>1 DEF Was
  <2>3. Was(draft.rev, draft.save)
    BY <1>1, DraftsAssumption DEF Was, Row, Revisions
  <2>4. Was(n.rev, n.base)
    BY <1>2, <1>3, <1>4, <1>7, <2>1, <2>2, <2>3
  <2>5. \A u \in Tabs : Was(tab'[u].rev, tab'[u].base)
    BY <1>9, <2>1, <2>4
  <2> QED BY <1>5, <1>12, <2>5, CallAttends DEF DraftInv, Undiscarded
<1> QED BY <1>1, <1>5, <1>9, <1>10, <1>11, <1>12, QuietStep

\* A tab saves: what it sent before, again, or a new save for the revision it knows.
LEMMA SendStep ==
  ASSUME DraftInv, NEW t \in Tabs, NEW c \in Calls, Send(t, c)
  PROVE  DraftInv'
<1> DEFINE again == tab[t].attempt # 0
           save == IF again THEN tab[t].attempt ELSE minted + 1
           rev == IF again THEN tab[t].at ELSE tab[t].rev
           k == [NoCall EXCEPT !.pc = "read", !.to = t, !.save = save, !.rev = rev]
           n == [tab[t] EXCEPT !.attempt = save, !.at = rev]
<1>1. /\ tab \in [Tabs -> Tab] /\ call \in [Calls -> Call] /\ snapshots \subseteq Ids
      /\ draft \in Row /\ minted \in Nat /\ minted <= MaxSaves
      /\ draft.save <= minted /\ draft.rev <= minted
      /\ \A d \in Calls : Sound(call[d])
      /\ \A u \in Tabs : tab[u].rev <= minted
      /\ draft.rev \in Nat /\ draft.save \in Nat
  BY Parts, DraftsAssumption DEF Saves, DraftInv, Numbered, Row, Revisions
<1>2. /\ tab[t] \in Tab /\ tab[t].attempt \in Saves /\ tab[t].at \in Revisions
      /\ tab[t].rev \in Revisions /\ tab[t].base \in Saves /\ tab[t].rev \in Nat
  BY <1>1, DraftsAssumption DEF Tab, Revisions
<1>3. /\ save <= MaxSaves
      /\ call' = [call EXCEPT ![c] = k] /\ tab' = [tab EXCEPT ![t] = n]
      /\ minted' = (IF again THEN minted ELSE save)
      /\ basis' = (IF again THEN basis ELSE [basis EXCEPT ![save] = tab[t].base])
      /\ UNCHANGED <<draft, snapshots, discarded>>
  BY DEF Send
<1>4. save \in Ids /\ rev \in Revisions
  BY <1>1, <1>2, <1>3, DraftsAssumption DEF Saves, Ids
<1> HIDE DEF save, rev
<1>5. /\ k \in Call /\ k.pc = "read" /\ k.save = save /\ k.rev = rev /\ k.old = 0 /\ k.answer = 0
  <2>1. NoCall \in Call /\ NoCall.old = 0 /\ NoCall.answer = 0
    BY DraftsAssumption DEF Call, NoCall, Saves, Revisions
  <2>2. save \in Saves
    BY <1>4, DraftsAssumption DEF Ids, Saves
  <2> QED BY <1>4, <2>1, <2>2 DEF Call
<1>6. /\ n \in Tab /\ n.rev = tab[t].rev /\ n.base = tab[t].base /\ n.attempt = save /\ n.at = rev
  <2>1. save \in Saves
    BY <1>4, DraftsAssumption DEF Ids, Saves
  <2> QED BY <1>2, <1>4, <2>1 DEF Tab
<1> HIDE DEF k, n
<1>7. /\ call' \in [Calls -> Call] /\ call'[c] = k
      /\ \A d \in Calls : d # c => call'[d] = call[d]
  BY <1>1, <1>3, <1>5
<1>8. /\ tab' \in [Tabs -> Tab] /\ tab'[t] = n
      /\ \A u \in Tabs : u # t => tab'[u] = tab[u]
  BY <1>1, <1>3, <1>6
<1>9. \A s \in Ids, r \in Revisions : Carries(s, r)' => Carries(s, r) \/ (s = save /\ r = rev)
  BY <1>5, <1>6, <1>7, <1>8 DEF Carries
<1>10. \A u \in Tabs : tab'[u].rev = tab[u].rev /\ tab'[u].base = tab[u].base
  BY <1>6, <1>8
<1>11. k.pc \notin Holding /\ Attends(k, snapshots)
  BY <1>5 DEF Attends, Holding
<1>12. k.pc \in SavePcs /\ save # 0
  BY <1>4, <1>5, DraftsAssumption DEF Ids, SavePcs
<1>13. \A d \in Calls : call'[d].pc \in Holding => call'[d] = call[d]
  BY <1>7, <1>11
<1>14. ASSUME ~discarded
       PROVE  /\ \A u \in Tabs : Was(tab'[u].rev, tab'[u].base)
              /\ \A d \in Calls : Attends(call'[d], snapshots')
              /\ draft.there => draft.save \in snapshots'
  BY <1>3, <1>7, <1>10, <1>11, <1>14, CallAttends DEF DraftInv, Undiscarded
<1>15. CASE again
  <2>1. Carries(save, rev) /\ UNCHANGED <<minted, basis>>
    BY <1>3, <1>15 DEF save, rev, Carries
  <2>2. \A s \in Ids, r \in Revisions : Carries(s, r)' => Carries(s, r)
    BY <1>9, <2>1
  <2>3. \A d \in Calls : Sound(call'[d])
    BY <1>1, <1>5, <1>7, <1>12 DEF Sound
  <2>4. \A u \in Tabs : tab'[u].rev <= minted
    BY <1>1, <1>10
  <2>5. snapshots' \subseteq Ids
    BY <1>1, <1>3
  <2> QED BY <1>3, <1>7, <1>8, <1>13, <1>14, <2>1, <2>2, <2>3, <2>4, <2>5, QuietStep
<1>16. CASE ~again
  <2>1. /\ save = minted + 1 /\ rev = tab[t].rev /\ minted' = save
        /\ basis' = [basis EXCEPT ![save] = tab[t].base]
    BY <1>3, <1>16 DEF save, rev
  <2>2. Typed'
    BY <1>1, <1>2, <1>3, <1>4, <1>7, <1>8, <2>1, DraftsAssumption DEF DraftInv, Typed, Ids, Saves
  <2>3. \A s \in Ids, r \in Revisions : Carries(s, r) => r < s /\ s <= minted
    BY DEF DraftInv, Numbered
  <2>4. \A d \in Calls : Sound(call[d])'
    <3>1. ASSUME NEW d \in Calls PROVE /\ call'[d].old <= minted /\ call'[d].answer <= minted
                                       /\ call'[d].pc \in SavePcs => call'[d].save # 0
                                       /\ call'[d].pc \notin SavePcs => call'[d].save = 0
      BY <1>1, <1>5, <1>7, <1>12 DEF Sound
    <3>2. \A d \in Calls : call'[d].old \in Nat /\ call'[d].answer \in Nat
      BY <1>7, DraftsAssumption DEF Call, Saves, Revisions
    <3> QED BY <1>1, <2>1, <3>1, <3>2 DEF Sound
  <2>5. \A s \in Ids, r \in Revisions : Carries(s, r) => s # save
    BY <1>1, <2>1, <2>3, DraftsAssumption DEF Ids
  <2>6. Numbered'
    <3>1. \A s \in Ids, r \in Revisions : Carries(s, r)' => r < s /\ s <= minted'
      BY <1>1, <1>2, <1>9, <2>1, <2>3, DraftsAssumption DEF Ids, Revisions
    <3>2. \A u \in Tabs : tab'[u].rev <= minted'
      <4>1. \A u \in Tabs : tab[u].rev \in Nat
        <5>1. \A m \in Tab : m.rev \in Nat
          BY DraftsAssumption DEF Tab, Revisions
        <5> QED BY <1>1, <5>1
      <4> QED BY <1>1, <1>10, <2>1, <4>1
    <3>3. draft'.rev <= draft'.save /\ draft'.save <= minted'
      BY <1>1, <1>3, <2>1, Parts
    <3>4. /\ draft'.there => draft'.rev # 0 /\ draft'.save # 0
          /\ ~draft'.there => draft' = NoRow
      BY <1>3, Parts
    <3> QED BY <2>4, <3>1, <3>2, <3>3, <3>4 DEF Numbered
  <2>7. Agreed'
    <3>1. ASSUME NEW s \in Ids, NEW r \in Revisions, NEW q \in Revisions, Carries(s, r)', Carries(s, q)'
          PROVE  r = q
      BY <1>9, <2>5, <3>1 DEF DraftInv, Agreed
    <3>2. ASSUME draft.there, NEW r \in Revisions, Carries(draft.save, r)'
          PROVE  draft.rev = r + 1
      <4>1. PICK o \in Ids : o = draft.save /\ o # save
        BY <1>1, <2>1, <3>2, Parts, DraftsAssumption DEF Ids
      <4>2. Carries(o, r)'
        BY <1>3, <3>2, <4>1 DEF Carries
      <4>3. Carries(o, r)
        BY <1>9, <4>1, <4>2
      <4> QED BY <3>2, <4>1, <4>3 DEF DraftInv, Agreed
    <3>3. ASSUME NEW d \in Calls, call'[d].pc \in Holding, call'[d].old # 0, NEW r \in Revisions,
                 Carries(call[d].old, r)'
          PROVE  r + 1 = call'[d].rev
      <4>1. call'[d] = call[d]
        BY <1>13, <3>3
      <4>2. PICK o \in Ids : o = call[d].old /\ o # save
        BY <1>1, <2>1, <3>3, <4>1, DraftsAssumption DEF Call, Saves, Ids, Sound
      <4>3. Carries(o, r)'
        BY <3>3, <4>1, <4>2 DEF Carries
      <4>4. Carries(o, r)
        BY <1>9, <4>2, <4>3
      <4> QED BY <3>3, <4>1, <4>2, <4>4 DEF DraftInv, Agreed
    <3>4. draft' = draft
      BY <1>3
    <3>5. draft'.there => \A r \in Revisions : Carries(draft.save, r)' => draft'.rev = r + 1
      BY <3>2, <3>4
    <3> QED BY <3>1, <3>3, <3>5 DEF Agreed
  <2>8. ASSUME ~discarded PROVE Undiscarded'
    <3>1. \A s \in Ids : s # save => basis'[s] = basis[s]
      BY <2>1 DEF DraftInv, Typed
    <3>2. basis'[save] = tab[t].base
      BY <1>4, <2>1 DEF DraftInv, Typed
    <3>3. ASSUME NEW s \in Ids, NEW r \in Revisions, Carries(s, r)' PROVE Was(r, basis'[s])
      <4>1. CASE Carries(s, r)
        BY <2>5, <2>8, <3>1, <4>1 DEF DraftInv, Undiscarded
      <4>2. CASE s = save /\ r = rev
        BY <2>1, <2>8, <3>2, <4>2 DEF DraftInv, Undiscarded
      <4> QED BY <1>9, <3>3, <4>1, <4>2
    <3>4. draft' = draft /\ snapshots' = snapshots
      BY <1>3
    <3> QED BY <1>14, <2>8, <3>3, <3>4 DEF Undiscarded, Was, Attends
  <2>9. ~discarded' => Undiscarded'
    BY <1>3, <2>8
  <2> QED BY <2>2, <2>6, <2>7, <2>9 DEF DraftInv
<1> QED BY <1>15, <1>16

-----------------------------------------------------------------------------
(* The row *)

\* The conditional write: it happens to the row that the save was made for, or not at all.
LEMMA CommitStep ==
  ASSUME DraftInv, NEW c \in Calls, Commit(c)
  PROVE  /\ DraftInv'
         /\ draft' # draft /\ ~discarded /\ draft.there => basis[call[c].save] = draft.save
         /\ draft' # draft => draft'.save = call[c].save
<1> DEFINE k(pc) == [call[c] EXCEPT !.pc = pc]
           saves == Created(c) \/ Updated(c)
           row == [there |-> TRUE, rev |-> draft.rev + 1, save |-> call[c].save]
<1>1. /\ tab \in [Tabs -> Tab] /\ call \in [Calls -> Call] /\ snapshots \subseteq Ids
      /\ draft \in Row /\ minted \in Nat /\ minted <= MaxSaves
      /\ \A d \in Calls : Sound(call[d])
      /\ \A u \in Tabs : tab[u].rev <= minted
      /\ draft.rev \in Nat /\ draft.save \in Nat
      /\ ~draft.there => draft = NoRow
  BY Parts, DraftsAssumption DEF Saves, DraftInv, Numbered, Row, Revisions
<1>2. /\ call[c] \in Call /\ call[c].pc = "commit" /\ Sound(call[c])
      /\ call[c].save \in Ids /\ call[c].rev \in Revisions /\ call[c].rev \in Nat
      /\ Carries(call[c].save, call[c].rev)
      /\ call[c].rev < call[c].save /\ call[c].save <= minted
      /\ draft.there /\ draft.save = call[c].save => draft.rev = call[c].rev + 1
      /\ ~discarded => Was(call[c].rev, basis[call[c].save])
  BY <1>1, CallCarries, DraftsAssumption DEF Commit, SavePcs, Revisions
<1>3. \A pc \in {"clean", "recheck"} :
        /\ k(pc) \in Call /\ k(pc).pc = pc /\ k(pc).save = call[c].save /\ k(pc).rev = call[c].rev
        /\ k(pc).old = call[c].old /\ k(pc).answer = call[c].answer
  BY <1>2 DEF Call
<1>4. UNCHANGED <<snapshots, tab, minted, basis, discarded>>
  BY DEF Commit
<1>5. CASE ~saves
  <2>1. draft' = draft /\ call' = [call EXCEPT ![c] = k("recheck")]
    BY <1>5 DEF Commit, Goto
  <2>2. /\ k("recheck") \in Call /\ k("recheck").pc = "recheck"
        /\ k("recheck").save = call[c].save /\ k("recheck").rev = call[c].rev
        /\ k("recheck").old = call[c].old /\ k("recheck").answer = call[c].answer
    BY <1>3
  <2>3. ~discarded => call[c].rev < draft.rev
    <3> SUFFICES ASSUME ~discarded PROVE call[c].rev < draft.rev
      OBVIOUS
    <3>1. call[c].rev <= draft.rev
      BY <1>2 DEF Was
    <3>2. draft.there => call[c].rev # draft.rev
      BY <1>1, <1>2, <1>5 DEF Updated
    <3>3. ~draft.there => FALSE
      BY <1>1, <1>2, <1>5, <3>1 DEF Created, NoRow
    <3> QED BY <1>1, <1>2, <3>1, <3>2, <3>3
  <2> HIDE DEF k
  <2>4. Sound(k("recheck"))
    BY <1>2, <2>2 DEF Sound, SavePcs
  <2>5. ~discarded =>
             /\ Attends(k("recheck"), snapshots')
             /\ \A d \in Calls : call[d].pc = "commit" /\ call[d].rev = draft.rev /\ d # c =>
                  call[d].save \in snapshots'
             /\ draft.there => draft.save \in snapshots'
    BY <1>2, <1>4, <2>2, <2>3, CallAttends DEF Attends, Holding, DraftInv, Undiscarded
  <2>6. snapshots' \subseteq Ids
    BY <1>1, <1>4
  <2> QED BY <1>2, <1>4, <2>1, <2>2, <2>4, <2>5, <2>6, CallStep DEF Holding
<1>6. CASE saves
  <2>1. /\ draft' = row /\ call' = [call EXCEPT ![c] = k("clean")]
        /\ draft.rev = call[c].rev
    <3>1. draft' = row /\ call' = [call EXCEPT ![c] = k("clean")]
      BY <1>6 DEF Commit, Goto
    <3>2. CASE Created(c)
      BY <1>1, <3>1, <3>2 DEF Created, NoRow
    <3>3. CASE Updated(c)
      BY <3>1, <3>3 DEF Updated
    <3> QED BY <1>6, <3>2, <3>3
  <2>2. /\ draft'.there /\ draft'.rev = draft.rev + 1 /\ draft'.save = call[c].save
        /\ draft'.rev = call[c].rev + 1
    BY <2>1
  <2>3. draft' \in Row
    <3>1. draft.rev + 1 \in Revisions /\ call[c].save \in Saves
      BY <1>1, <1>2, <2>1, DraftsAssumption DEF Revisions, Saves, Ids
    <3> QED BY <2>1, <3>1 DEF Row
  <2>4. /\ k("clean") \in Call /\ k("clean").pc = "clean"
        /\ k("clean").save = call[c].save /\ k("clean").rev = call[c].rev
        /\ k("clean").old = call[c].old /\ k("clean").answer = call[c].answer
    BY <1>3
  <2> HIDE DEF k, row
  <2>5. /\ call' \in [Calls -> Call] /\ call'[c] = k("clean")
        /\ \A d \in Calls : d # c => call'[d] = call[d]
    BY <1>1, <2>1, <2>4
  <2>6. \A d \in Calls : /\ call'[d].save = call[d].save /\ call'[d].rev = call[d].rev
                         /\ call'[d].old = call[d].old /\ call'[d].answer = call[d].answer
                         /\ call'[d].pc \in Holding <=> call[d].pc \in Holding
                         /\ call'[d].pc \in SavePcs <=> call[d].pc \in SavePcs
    BY <1>2, <2>4, <2>5 DEF Holding, SavePcs
  <2>7. \A s \in Ids, r \in Revisions : Carries(s, r)' <=> Carries(s, r)
    BY <1>4, <2>6 DEF Carries
  <2>8. Typed'
    BY <1>4, <2>3, <2>5 DEF DraftInv, Typed
  <2>9. Numbered'
    <3>1. \A d \in Calls : Sound(call[d])'
      BY <1>1, <1>4, <2>6 DEF Sound
    <3>2. \A s \in Ids, r \in Revisions : Carries(s, r)' => r < s /\ s <= minted'
      BY <1>4, <2>7 DEF DraftInv, Numbered
    <3>3. draft'.rev <= draft'.save /\ draft'.save <= minted' /\ draft'.rev # 0 /\ draft'.save # 0
      BY <1>1, <1>2, <1>4, <2>2, DraftsAssumption DEF Ids
    <3> QED BY <1>1, <1>4, <2>2, <3>1, <3>2, <3>3 DEF Numbered
  <2>10. Agreed'
    <3>1. ASSUME NEW s \in Ids, NEW r \in Revisions, NEW q \in Revisions, Carries(s, r)', Carries(s, q)'
          PROVE  r = q
      BY <2>7, <3>1 DEF DraftInv, Agreed
    <3>2. ASSUME NEW r \in Revisions, Carries(draft.save, r)'
          PROVE  draft'.rev = r + 1
      <4>1. PICK o \in Ids : o = call[c].save
        BY <1>2
      <4>2. Carries(o, r)'
        BY <2>2, <3>2, <4>1 DEF Carries
      <4>3. Carries(o, r) /\ Carries(o, call[c].rev)
        BY <1>2, <2>7, <4>1, <4>2
      <4>4. r = call[c].rev
        BY <1>2, <4>3 DEF DraftInv, Agreed
      <4> QED BY <2>2, <4>4
    <3>3. ASSUME NEW d \in Calls, call'[d].pc \in Holding, call'[d].old # 0, NEW r \in Revisions,
                 Carries(call[d].old, r)'
          PROVE  r + 1 = call'[d].rev
      <4>1. PICK o \in Ids : o = call[d].old
        BY <1>1, <2>6, <3>3, DraftsAssumption DEF Call, Saves, Ids
      <4>2. Carries(o, r)'
        BY <2>6, <3>3, <4>1 DEF Carries
      <4>3. Carries(o, r)
        BY <2>7, <4>2
      <4> QED BY <2>6, <3>3, <4>1, <4>3 DEF DraftInv, Agreed
    <3> QED BY <3>1, <3>2, <3>3 DEF Agreed
  <2>11. ~discarded /\ draft.there => basis[call[c].save] = draft.save
    BY <1>2, <2>1 DEF Was
  <2>12. ASSUME ~discarded PROVE Undiscarded'
    <3>1. call[c].save \in snapshots
      BY <1>2, <2>1, <2>12, CallAttends DEF Attends
    <3>2. \A r \in Nat : \A s : Was(r, s) => r < draft'.rev
      BY <1>1, <2>2 DEF Was
    <3>3. ASSUME NEW s \in Ids, NEW r \in Revisions, Carries(s, r)' PROVE r < draft'.rev
      <4>1. Was(r, basis[s]) /\ r \in Nat
        BY <2>7, <2>12, <3>3, DraftsAssumption DEF DraftInv, Undiscarded, Revisions
      <4> QED BY <3>2, <4>1
    <3>4. ASSUME NEW t \in Tabs PROVE tab[t].rev < draft'.rev
      <4>1. Was(tab[t].rev, tab[t].base)
        BY <2>12 DEF DraftInv, Undiscarded
      <4>2. tab[t].rev \in Nat
        <5>1. \A m \in Tab : m.rev \in Nat
          BY DraftsAssumption DEF Tab, Revisions
        <5> QED BY <1>1, <5>1
      <4> QED BY <3>2, <4>1, <4>2
    <3>5. ASSUME NEW d \in Calls PROVE Attends(call[d], snapshots)'
      <4>1. /\ Attends(call[d], snapshots)
            /\ call[d] \in Call /\ call[d].rev \in Nat /\ call[d].answer \in Nat
            /\ call[d].old \in Nat
        <5>1. \A m \in Call : m.rev \in Nat /\ m.answer \in Nat /\ m.old \in Nat
          BY DraftsAssumption DEF Call, Revisions, Saves
        <5> QED BY <1>1, <2>12, <5>1, CallAttends
      <4>2. CASE d = c
        <5>1. /\ call'[c].pc = "clean" /\ call'[c].save = draft'.save
              /\ call'[c].rev + 1 = draft'.rev /\ draft'.rev \in Nat
          BY <1>1, <1>2, <2>2, <2>4, <2>5
        <5>2. call'[c].old # 0 => draft'.save # call'[c].old
          <6> SUFFICES ASSUME call[c].old # 0, call[c].save = call[c].old PROVE FALSE
            BY <2>2, <2>6
          <6>1. Carries(call[c].old, call[c].rev)
            BY <1>2
          <6>2. call[c].rev + 1 = call[c].rev
            BY <1>2, <6>1 DEF DraftInv, Agreed, Holding
          <6> QED BY <1>2, <6>2
        <5> QED BY <4>2, <5>1, <5>2 DEF Attends, Was
      <4>3. CASE d # c
        <5>1. call'[d] = call[d]
          BY <2>5, <4>3
        <5>2. call[d].pc = "clean" => call[d].rev + 1 < draft'.rev
          BY <1>1, <2>2, <4>1 DEF Attends, Was
        <5>3. call[d].pc = "saved" => call[d].answer < draft'.rev
          BY <1>1, <2>2, <4>1 DEF Attends, Was
        <5>4. call[d].pc \in {"recheck", "drop"} => call[d].rev < draft'.rev
          BY <1>1, <2>2, <4>1 DEF Attends
        <5>5. call[d].pc = "drop" => draft'.save # call[d].save
          <6> SUFFICES ASSUME call[d].pc = "drop", call[c].save = call[d].save PROVE FALSE
            BY <2>2
          <6>1. call[d].rev \in Revisions /\ Carries(call[c].save, call[d].rev)
            BY CallCarries DEF SavePcs
          <6>2. call[d].rev = call[c].rev
            BY <1>2, <6>1 DEF DraftInv, Agreed
          <6> QED BY <1>1, <2>1, <4>1, <6>2 DEF Attends
        <5>6. call[d].pc \in SavePcs => call[d].rev < draft'.rev
          <6> SUFFICES ASSUME call[d].pc \in SavePcs PROVE call[d].rev < draft'.rev
            OBVIOUS
          <6>1. Was(call[d].rev, basis[call[d].save])
            BY <2>12, CallCarries
          <6> QED BY <3>2, <4>1, <6>1
        <5>7. call[d].pc \in Holding /\ call[d].old # 0 => draft'.save # call[d].old
          <6> SUFFICES ASSUME call[d].pc \in Holding, call[d].old # 0, call[c].save = call[d].old
                       PROVE FALSE
            BY <2>2
          <6>1. Carries(call[d].old, call[c].rev)
            BY <1>2
          <6>2. call[c].rev + 1 = call[d].rev
            BY <1>2, <6>1 DEF DraftInv, Agreed
          <6>3. call[d].rev < draft.rev + 1
            BY <2>2, <5>6 DEF Holding, SavePcs
          <6> QED BY <1>1, <1>2, <2>1, <4>1, <6>2, <6>3
        <5>8. /\ call[d].pc = "commit" => call[d].rev # draft'.rev
              /\ call[d].pc = "row" /\ call[d].old # 0 => draft'.there
              /\ call[d].pc = "object" => call[d].old = 0
              /\ call[d].pc # "remove"
          BY <1>1, <2>2, <4>1, <5>6 DEF Attends, SavePcs
        <5>9. draft'.rev \in Nat
          BY <1>1, <2>2
        <5> QED BY <4>1, <5>1, <5>2, <5>3, <5>4, <5>5, <5>7, <5>8, <5>9 DEF Attends, Was
      <4> QED BY <4>2, <4>3
    <3>6. \A s \in Ids, r \in Revisions : Carries(s, r)' => Was(r, basis[s])'
      BY <1>1, <2>2, <3>3, DraftsAssumption DEF Was, Revisions
    <3>7. \A t \in Tabs : Was(tab[t].rev, tab[t].base)'
      <4>1. \A t \in Tabs : tab[t].rev \in Nat
        <5>1. \A m \in Tab : m.rev \in Nat
          BY DraftsAssumption DEF Tab, Revisions
        <5> QED BY <1>1, <5>1
      <4> QED BY <1>1, <1>4, <2>2, <3>4, <4>1 DEF Was
    <3> QED BY <1>4, <2>2, <3>1, <3>5, <3>6, <3>7 DEF Undiscarded
  <2>13. ~discarded' => Undiscarded'
    BY <1>4, <2>12
  <2> QED BY <2>2, <2>8, <2>9, <2>10, <2>11, <2>13 DEF DraftInv
<1> QED BY <1>5, <1>6

\* Once the draft has been deleted little is owed.
LEMMA GoneStep ==
  ASSUME DraftInv, NEW c \in Calls, NEW k \in Call, call' = [call EXCEPT ![c] = k],
         discarded' = TRUE, draft' \in {draft, NoRow}, snapshots' \subseteq Ids,
         UNCHANGED <<tab, minted, basis>>,
         k.save = 0, Sound(k), k.pc \notin Holding
  PROVE  DraftInv'
<1>1. /\ tab \in [Tabs -> Tab] /\ call \in [Calls -> Call] /\ draft \in Row /\ minted \in Nat
      /\ \A d \in Calls : Sound(call[d])
  BY Parts, DraftsAssumption DEF Saves
<1>2. /\ call' \in [Calls -> Call] /\ call'[c] = k
      /\ \A d \in Calls : d # c => call'[d] = call[d]
  BY <1>1
<1>3. \A s \in Ids, r \in Revisions : Carries(s, r)' => Carries(s, r)
  BY <1>2, DraftsAssumption DEF Carries, Ids
<1>4. NoRow \in Row /\ ~NoRow.there /\ NoRow.rev = 0 /\ NoRow.save = 0
  BY DraftsAssumption DEF NoRow, Row, Revisions, Saves
<1>5. Typed'
  BY <1>1, <1>2, <1>4 DEF DraftInv, Typed
<1>6. Numbered'
  <2>1. \A d \in Calls : Sound(call[d])'
    BY <1>1, <1>2 DEF Sound
  <2> QED BY <1>1, <1>3, <1>4, <2>1 DEF DraftInv, Numbered
<1>7. Agreed'
  <2>1. ASSUME NEW s \in Ids, NEW r \in Revisions, NEW q \in Revisions, Carries(s, r)', Carries(s, q)'
        PROVE  r = q
    BY <1>3, <2>1 DEF DraftInv, Agreed
  <2>2. ASSUME draft'.there, NEW r \in Revisions, Carries(draft.save, r)'
        PROVE  draft'.rev = r + 1
    <3>1. draft' = draft
      BY <1>4, <2>2
    <3>2. PICK o \in Ids : o = draft.save
      BY <1>1, <2>2, <3>1, Parts, DraftsAssumption DEF Row, Saves, Ids
    <3>3. Carries(o, r)'
      BY <2>2, <3>1, <3>2 DEF Carries
    <3> QED BY <1>3, <2>2, <3>1, <3>2, <3>3 DEF DraftInv, Agreed
  <2>3. ASSUME NEW d \in Calls, call'[d].pc \in Holding, call'[d].old # 0, NEW r \in Revisions,
               Carries(call[d].old, r)'
        PROVE  r + 1 = call'[d].rev
    <3>1. call'[d] = call[d]
      BY <1>2, <2>3
    <3>2. PICK o \in Ids : o = call[d].old
      BY <1>1, <2>3, <3>1, DraftsAssumption DEF Call, Saves, Ids
    <3>3. Carries(o, r)'
      BY <2>3, <3>1, <3>2 DEF Carries
    <3> QED BY <1>3, <2>3, <3>1, <3>2, <3>3 DEF DraftInv, Agreed
  <2> QED BY <2>1, <2>2, <2>3 DEF Agreed
<1> QED BY <1>5, <1>6, <1>7 DEF DraftInv

\* The row is deleted, from the editor or from a list.
LEMMA DeleteStep ==
  ASSUME DraftInv, NEW c \in Calls, DeleteRow(c) \/ PurgeSnapshot(c) \/ RemoveRow(c)
  PROVE  /\ DraftInv'
         /\ draft' = draft \/ ~draft'.there
<1> DEFINE q(pc) == [call[c] EXCEPT !.pc = pc]
<1>1. /\ call[c] \in Call /\ snapshots \subseteq Ids /\ Sound(call[c]) /\ draft \in Row
      /\ minted \in Nat
      /\ ~draft.there => draft = NoRow
      /\ call[c].pc \in {"row", "purge", "remove"}
  BY Parts, DraftsAssumption DEF DeleteRow, PurgeSnapshot, RemoveRow, Saves
<1>2. call[c].save = 0
  BY <1>1 DEF Sound, SavePcs
<1>3. \A pc \in {"object", "remove"} :
        /\ q(pc) \in Call /\ q(pc).pc = pc /\ q(pc).save = 0 /\ q(pc).rev = call[c].rev
        /\ q(pc).old = call[c].old /\ q(pc).answer = call[c].answer
  BY <1>1, <1>2 DEF Call
<1> HIDE DEF q
<1>4. \A pc \in {"object", "remove"} : Sound(q(pc)) /\ q(pc).pc \notin Holding
  BY <1>1, <1>3 DEF Sound, SavePcs, Holding
<1>5. UNCHANGED <<tab, minted, basis>>
  BY DEF DeleteRow, PurgeSnapshot, RemoveRow
<1>6. ~NoRow.there
  BY DEF NoRow
<1>7. CASE DeleteRow(c)
  <2>1. /\ draft' = NoRow /\ discarded' = (discarded \/ draft.there) /\ snapshots' = snapshots
        /\ call' = [call EXCEPT ![c] = q("object")] /\ call[c].pc = "row"
    BY <1>7 DEF DeleteRow, Goto, q
  <2>2. CASE discarded \/ draft.there
    BY <1>1, <1>3, <1>4, <1>5, <1>6, <2>1, <2>2, GoneStep
  <2>3. CASE ~discarded /\ ~draft.there
    <3>1. draft' = draft /\ discarded' = discarded
      BY <1>1, <2>1, <2>3, Parts
    <3>2. call[c].old = 0
      BY <2>1, <2>3, CallAttends DEF Attends
    <3>3. Attends(q("object"), snapshots')
      BY <1>3, <1>4, <3>2 DEF Attends
    <3>4. \A d \in Calls : call[d].pc = "commit" /\ call[d].rev = draft.rev /\ d # c =>
            call[d].save \in snapshots'
      BY <2>1, <2>3, CallAttends DEF Attends
    <3> QED BY <1>1, <1>3, <1>4, <1>5, <1>6, <2>1, <2>3, <3>1, <3>3, <3>4, CallStep
  <2> QED BY <2>2, <2>3
<1>8. CASE PurgeSnapshot(c)
  <2>1. /\ draft' = draft /\ discarded' = TRUE /\ snapshots' \subseteq snapshots
        /\ call' = [call EXCEPT ![c] = q("remove")]
    BY <1>8 DEF PurgeSnapshot, Goto, q
  <2> QED BY <1>1, <1>3, <1>4, <1>5, <2>1, GoneStep
<1>9. CASE RemoveRow(c)
  <2>1. /\ draft' = NoRow /\ discarded' = discarded /\ snapshots' = snapshots
        /\ call' = [call EXCEPT ![c] = NoCall] /\ call[c].pc = "remove"
    BY <1>9 DEF RemoveRow
  <2>2. discarded
    BY <2>1, CallAttends DEF Attends
  <2>3. /\ NoCall \in Call /\ NoCall.pc = "idle" /\ NoCall.save = 0 /\ NoCall.old = 0
        /\ NoCall.answer = 0
    BY DraftsAssumption DEF Call, NoCall, Saves, Revisions
  <2>4. Sound(NoCall) /\ NoCall.pc \notin Holding
    BY <1>1, <2>3 DEF Sound, SavePcs, Holding
  <2>5. discarded' = TRUE
    BY <2>1, <2>2, Parts
  <2> QED BY <1>1, <1>5, <1>6, <2>1, <2>3, <2>4, <2>5, GoneStep
<1> QED BY <1>7, <1>8, <1>9

-----------------------------------------------------------------------------
(* The theorems *)

\* No tab has saved anything yet.
LEMMA DraftBegins == DraftInit => DraftInv
<1> SUFFICES ASSUME DraftInit PROVE DraftInv
  OBVIOUS
<1>1. /\ NoRow \in Row /\ ~NoRow.there /\ NoRow.rev = 0 /\ NoRow.save = 0
      /\ 0 \notin Ids /\ 0 \in Saves
  BY DraftsAssumption DEF NoRow, Row, Revisions, Saves, Ids
<1>2. /\ NoCall \in Call /\ NoCall.pc = "idle" /\ NoCall.save = 0 /\ NoCall.old = 0
      /\ NoCall.answer = 0
  BY DraftsAssumption DEF Call, NoCall, Saves, Revisions
<1>3. /\ Closed \in Tab /\ Closed.rev = 0 /\ Closed.base = 0 /\ Closed.attempt = 0
  BY DraftsAssumption DEF Tab, Closed, Saves, Revisions
<1> DEFINE first == [Closed EXCEPT !.pc = "open"]
<1>4. /\ first \in Tab /\ first.rev = 0 /\ first.base = 0 /\ first.attempt = 0
  BY <1>3 DEF Tab
<1>5. tab = [t \in Tabs |-> IF t = Creator THEN first ELSE Closed]
  BY DEF DraftInit
<1> HIDE DEF first
<1>6. \A t \in Tabs : tab[t] \in Tab /\ tab[t].rev = 0 /\ tab[t].base = 0 /\ tab[t].attempt = 0
  BY <1>3, <1>4, <1>5
<1>7. \A c \in Calls : call[c] = NoCall
  BY DEF DraftInit
<1>8. \A s \in Ids, r \in Revisions : ~Carries(s, r)
  BY <1>1, <1>2, <1>6, <1>7 DEF Carries
<1>9. Typed
  BY <1>1, <1>2, <1>3, <1>4, <1>5 DEF DraftInit, Typed, Ids
<1>10. Numbered
  BY <1>1, <1>2, <1>6, <1>7, <1>8 DEF DraftInit, Numbered, Sound, SavePcs
<1>11. Agreed
  BY <1>1, <1>2, <1>7, <1>8 DEF DraftInit, Agreed, Holding
<1>12. Attends(NoCall, snapshots)
  BY <1>2 DEF Attends, Holding
<1>13. Undiscarded
  BY <1>1, <1>6, <1>7, <1>8, <1>12 DEF DraftInit, Undiscarded, Was
<1> QED BY <1>9, <1>10, <1>11, <1>13 DEF DraftInv

\* A step keeps the invariant, and the row changes by a save for it or by a deletion.
LEMMA DraftGoesOn ==
  ASSUME DraftInv, [DraftNext]_draftVars
  PROVE  /\ DraftInv'
         /\ \/ draft' = draft
            \/ ~draft'.there
            \/ ~discarded /\ draft.there => basis[draft'.save] = draft.save
<1>1. CASE UNCHANGED draftVars
  <2>1. DraftInv'
    BY <1>1 DEF draftVars, DraftInv, Typed, Numbered, Agreed, Undiscarded, Carries, Sound, Was, Attends
  <2> QED BY <1>1, <2>1 DEF draftVars
<1>2. ASSUME NEW t \in Tabs, OpenRow(t) \/ OpenSnapshot(t) \/ \E c \in Calls : Send(t, c)
      PROVE  DraftInv' /\ draft' = draft
  BY <1>2, OpenStep, SendStep DEF OpenRow, OpenSnapshot, Send
<1>3. ASSUME NEW c \in Calls,
             \/ Lose(c) \/ Answer(c) \/ CallDies(c) \/ DeleteFromList(c)
             \/ \E t \in Tabs : Discard(t, c)
      PROVE  DraftInv' /\ draft' = draft
  BY <1>3, LoseStep, AnswerStep, EndsStep DEF Lose, Answer, CallDies, DeleteFromList, Discard
<1>4. ASSUME NEW c \in Calls, Read(c) \/ Put(c) \/ Recheck(c) \/ Drop(c) \/ Clean(c)
      PROVE  DraftInv' /\ draft' = draft
  BY <1>4, ReadStep, PutStep, RecheckStep, DropStep, CleanStep DEF Read, Put, Recheck, Drop, Clean
<1>5. ASSUME NEW c \in Calls, ReadKey(c) \/ FindKey(c) \/ DeleteObject(c)
      PROVE  DraftInv' /\ draft' = draft
  BY <1>5, KeyStep DEF ReadKey, FindKey, DeleteObject
<1>6. ASSUME NEW c \in Calls, DeleteRow(c) \/ PurgeSnapshot(c) \/ RemoveRow(c)
      PROVE  DraftInv' /\ (draft' = draft \/ ~draft'.there)
  BY <1>6, DeleteStep
<1>7. ASSUME NEW c \in Calls, Commit(c)
      PROVE  /\ DraftInv'
             /\ \/ draft' = draft
                \/ ~discarded /\ draft.there => basis[draft'.save] = draft.save
  BY <1>7, CommitStep
<1> QED BY <1>1, <1>2, <1>3, <1>4, <1>5, <1>6, <1>7 DEF DraftNext

\* The invariant holds of every reachable state.
LEMMA DraftInvariant == DraftSpec => []DraftInv
<1>1. DraftInv /\ [DraftNext]_draftVars => DraftInv'
  BY DraftGoesOn
<1> QED BY <1>1, DraftBegins, PTL DEF DraftSpec

\* Every reachable state of the draft is well typed; in particular its revisions never count
\* further than the saves that were made.
THEOREM DraftTypeCorrect == DraftSpec => []DraftTypeOK
<1>1. DraftInv => DraftTypeOK
  BY DEF DraftInv, Typed, DraftTypeOK, Row, Tab, Call, Ids
<1> QED BY <1>1, DraftInvariant, PTL

\* A save replaces only the save its tab had loaded or stored before it, until the draft is
\* deleted.
THEOREM NothingIsLost == DraftSpec => NothingOverwrittenUnseen
<1>1. DraftInv /\ [DraftNext]_draftVars =>
        [draft.there /\ draft'.there /\ draft'.save # draft.save
           => discarded \/ basis[draft'.save] = draft.save]_draftVars
  BY DraftGoesOn
<1> QED BY <1>1, DraftInvariant, PTL DEF DraftSpec, NothingOverwrittenUnseen

\* A tab that knows the row's revision knows its content, until the draft is deleted.
THEOREM RevisionsNameContent == DraftSpec => []RevisionNamesContent
<1>1. DraftInv => RevisionNamesContent
  BY DEF DraftInv, Undiscarded, Was, RevisionNamesContent
<1> QED BY <1>1, DraftInvariant, PTL

\* The row's snapshot is there, until the draft is deleted.
THEOREM SnapshotsOutliveRows == DraftSpec => []DanglingNeedsDiscard
<1>1. DraftInv => DanglingNeedsDiscard
  BY DEF DraftInv, Undiscarded, DanglingNeedsDiscard
<1> QED BY <1>1, DraftInvariant, PTL


-----------------------------------------------------------------------------
(* Follow-ups *)

Task == [there : BOOLEAN, completed : Reasons, version : 0..(MaxTaskVersion + 1),
         due : BOOLEAN, notified : BOOLEAN, dismissed : BOOLEAN]
Saver == [pc : {"idle", "message", "replies", "write"}, task : FollowUps,
          version : 0..MaxTaskVersion, done : BOOLEAN, replied : BOOLEAN,
          overtaken : BOOLEAN, closed : BOOLEAN]

\* A task that waits has a version to spare, and one that is not there has none.
Versioned ==
  \A k \in FollowUps : /\ Waiting(k) => task[k].version <= MaxTaskVersion
                       /\ task[k].there <=> task[k].version # 0

\* A request that read its task open finds it open, or finds a later version; one that is to
\* write, and found no reply, found none because none was there.
Informed ==
  \A s \in Savers :
    /\ saver[s].version < MaxTaskVersion
    /\ saver[s].pc # "idle" /\ saver[s].version # 0 /\ ~saver[s].closed =>
         /\ task[saver[s].task].there
         /\ saver[s].version <= task[saver[s].task].version
         /\ saver[s].version = task[saver[s].task].version => Waiting(saver[s].task)
    /\ saver[s].pc = "write" /\ source /\ answered /\ ~saver[s].replied => saver[s].overtaken

\* The inductive invariant of the follow-ups.
TaskInv == TaskTypeOK /\ Versioned /\ Informed /\ WaitingHasNoReply

\* The columns of a task and of a request.
LEMMA TaskColumns ==
  TaskTypeOK <=> /\ task \in [FollowUps -> Task] /\ saver \in [Savers -> Saver]
                 /\ answered \in BOOLEAN /\ source \in BOOLEAN /\ reopened \subseteq FollowUps
BY DEF TaskTypeOK, Task, Saver

\* What an idle request is.
LEMMA IdleSaver ==
  ASSUME NEW k \in FollowUps
  PROVE  NoSave(k) \in Saver /\ NoSave(k).pc = "idle" /\ NoSave(k).version < MaxTaskVersion
BY TasksAssumption DEF NoSave, Saver

\* At first nothing waits.
LEMMA TaskStart == TaskInit => TaskInv
<1> SUFFICES ASSUME TaskInit PROVE TaskInv
  OBVIOUS
<1>1. NoTask \in Task /\ ~NoTask.there /\ NoTask.version = 0
  BY TasksAssumption DEF NoTask, Task, Reasons
<1>2. PICK k \in FollowUps : saver = [s \in Savers |-> NoSave(k)]
  BY DEF TaskInit
<1>3. TaskTypeOK
  BY <1>1, <1>2, IdleSaver, TaskColumns DEF TaskInit
<1> QED BY <1>1, <1>2, <1>3, IdleSaver
        DEF TaskInit, TaskInv, Versioned, Informed, WaitingHasNoReply, Waiting

\* What a request reads.
LEMMA LookStep ==
  ASSUME TaskInv, NEW s \in Savers,
         \/ \E k \in FollowUps, done \in BOOLEAN : ReadTask(s, k, done)
         \/ ReadMessage(s)
         \/ ReadReplies(s)
  PROVE  TaskInv'
<1>0. task \in [FollowUps -> Task] /\ saver \in [Savers -> Saver] /\ TaskTypeOK
  BY TaskColumns DEF TaskInv
<1>1. UNCHANGED <<task, answered, source, reopened>>
  BY DEF ReadTask, ReadMessage, ReadReplies
<1>2. SUFFICES /\ saver' \in [Savers -> Saver]
               /\ \A t \in Savers : t # s => saver'[t] = saver[t]
               /\ saver'[s].version < MaxTaskVersion
               /\ saver'[s].pc # "idle" /\ saver'[s].version # 0 /\ ~saver'[s].closed =>
                    /\ task[saver'[s].task].there
                    /\ saver'[s].version <= task[saver'[s].task].version
                    /\ saver'[s].version = task[saver'[s].task].version => Waiting(saver'[s].task)
               /\ saver'[s].pc = "write" /\ source /\ answered /\ ~saver'[s].replied
                    => saver'[s].overtaken
  <2>1. TaskTypeOK'
    BY <1>0, <1>1, <1>2, TaskColumns DEF TaskTypeOK, Task, Saver
  <2>2. Versioned' /\ WaitingHasNoReply'
    BY <1>1 DEF TaskInv, Versioned, WaitingHasNoReply, Waiting
  <2>3. Informed'
    BY <1>1, <1>2 DEF TaskInv, Informed, Waiting
  <2> QED BY <2>1, <2>2, <2>3 DEF TaskInv
<1>3. ASSUME NEW k \in FollowUps, NEW done \in BOOLEAN, ReadTask(s, k, done)
      PROVE  /\ saver' \in [Savers -> Saver]
             /\ \A t \in Savers : t # s => saver'[t] = saver[t]
             /\ saver'[s].task = k /\ saver'[s].version = task[k].version
             /\ saver'[s].version < MaxTaskVersion
             /\ saver'[s].closed <=> task[k].completed # "no"
             /\ saver'[s].pc = "write" => ~source
  <2>1. task[k] \in Task
    BY <1>0
  <2> DEFINE q == [NoSave(k) EXCEPT !.pc = IF source THEN "message" ELSE "write",
                                    !.version = task[k].version, !.done = done,
                                    !.closed = task[k].completed # "no"]
  <2>2. saver' = [saver EXCEPT ![s] = q] /\ task[k].version < MaxTaskVersion
    BY <1>3 DEF ReadTask
  <2>3. (task[k].completed # "no") \in BOOLEAN /\ task[k].version \in 0..MaxTaskVersion
    BY <2>1, <2>2, TasksAssumption DEF Task
  <2>4. /\ q.pc = IF source THEN "message" ELSE "write"
        /\ q.version = task[k].version /\ q.task = k
        /\ q.closed = (task[k].completed # "no")
    BY DEF NoSave
  <2>5. q \in Saver
    BY <2>3 DEF NoSave, Saver
  <2> HIDE DEF q
  <2>6. saver'[s] = q /\ saver' \in [Savers -> Saver] /\ \A t \in Savers : t # s => saver'[t] = saver[t]
    BY <1>0, <2>2, <2>5
  <2> QED BY <2>2, <2>4, <2>6
<1>4. ASSUME NEW k \in FollowUps, NEW done \in BOOLEAN, ReadTask(s, k, done)
      PROVE  /\ saver'[s].version # 0 /\ ~saver'[s].closed => Waiting(k) /\ task[k].there
             /\ saver'[s].version <= task[k].version
  BY <1>0, <1>3, <1>4 DEF TaskInv, Versioned, Waiting, Task
<1>5. CASE ReadMessage(s)
  BY <1>0, <1>5, IdleSaver DEF ReadMessage, IdleAgain, TaskInv, Informed, Saver
<1>6. CASE ReadReplies(s)
  <2>1. saver[s] \in Saver /\ (answered /\ source) \in BOOLEAN
    BY <1>0
  <2>2. saver' = [saver EXCEPT ![s] = [saver[s] EXCEPT !.pc = "write", !.replied = answered /\ source]]
    BY <1>0, <1>6 DEF ReadReplies
  <2>3. /\ saver'[s] \in Saver /\ saver'[s].pc = "write" /\ saver'[s].replied = (answered /\ source)
        /\ saver'[s].task = saver[s].task /\ saver'[s].version = saver[s].version
        /\ saver'[s].closed = saver[s].closed
    BY <1>0, <2>1, <2>2 DEF Saver
  <2>4. saver' \in [Savers -> Saver] /\ \A t \in Savers : t # s => saver'[t] = saver[t]
    BY <1>0, <2>2, <2>3
  <2> QED BY <1>6, <2>3, <2>4 DEF TaskInv, Informed, ReadReplies
<1> QED BY <1>3, <1>4, <1>5, <1>6

\* What a request writes.
LEMMA WriteStep ==
  ASSUME TaskInv, NEW s \in Savers, WriteTask(s), NEW k \in FollowUps, k = saver[s].task
  PROVE  TaskInv'
<1>0. task \in [FollowUps -> Task] /\ saver \in [Savers -> Saver] /\ TaskTypeOK
  BY TaskColumns DEF TaskInv
<1>1. saver[s] \in Saver /\ task[k] \in Task
  BY <1>0
<1>2. /\ UNCHANGED <<answered, source>>
      /\ saver' \in [Savers -> Saver] /\ saver'[s].pc = "idle" /\ saver'[s].version < MaxTaskVersion
      /\ \A t \in Savers : t # s => saver'[t] = saver[t]
  BY <1>0, <1>1, IdleSaver DEF WriteTask, IdleAgain
<1>3. SUFFICES
        /\ task' \in [FollowUps -> Task] /\ reopened' \subseteq FollowUps
        /\ \A j \in FollowUps \ {k} : task'[j] = task[j] /\ (j \in reopened' <=> j \in reopened)
        /\ task[k].there => task'[k] = task[k] \/ task'[k].version > task[k].version
        /\ task'[k].there <=> task'[k].version # 0
        /\ task[k].there => task'[k].there
        /\ Waiting(k)' => /\ task'[k].version <= MaxTaskVersion
                          /\ answered /\ source => k \in reopened'
        /\ task'[k] = task[k] => (Waiting(k)' <=> Waiting(k))
  <2>1. TaskTypeOK'
    BY <1>0, <1>2, <1>3, TaskColumns DEF TaskTypeOK, Task, Saver
  <2>2. Versioned'
    BY <1>0, <1>1, <1>3 DEF TaskInv, Versioned, Waiting
  <2>3. WaitingHasNoReply'
    BY <1>2, <1>3 DEF TaskInv, WaitingHasNoReply, Waiting
  <2>4. ASSUME NEW t \in Savers
        PROVE  /\ saver'[t].version < MaxTaskVersion
               /\ saver'[t].pc # "idle" /\ saver'[t].version # 0 /\ ~saver'[t].closed =>
                    /\ task'[saver'[t].task].there
                    /\ saver'[t].version <= task'[saver'[t].task].version
                    /\ saver'[t].version = task'[saver'[t].task].version => Waiting(saver[t].task)'
               /\ saver'[t].pc = "write" /\ source' /\ answered' /\ ~saver'[t].replied
                    => saver'[t].overtaken
    <3>1. CASE t = s
      BY <1>2, <3>1
    <3>2. CASE t # s
      <4>1. saver[t] \in Saver /\ saver'[t] = saver[t] /\ saver[t].task \in FollowUps
        BY <1>0, <1>2, <3>2 DEF Saver
      <4>2. task[saver[t].task] \in Task /\ task'[saver[t].task] \in Task
        BY <1>0, <1>3, <4>1
      <4>3. CASE saver[t].task = k
        BY <1>2, <1>3, <4>1, <4>2, <4>3 DEF TaskInv, Informed, Task, Saver
      <4>4. CASE saver[t].task # k
        BY <1>2, <1>3, <4>1, <4>2, <4>4 DEF TaskInv, Informed, Waiting
      <4> QED BY <4>3, <4>4
    <3> QED BY <3>1, <3>2
  <2>5. Informed'
    BY <2>4 DEF Informed, Waiting
  <2> QED BY <2>1, <2>2, <2>3, <2>5 DEF TaskInv
<1>4. Outcome(s) \in Reasons
  BY DEF Outcome, Reasons
<1>5. CASE CreateTask(s) /\ ~task[k].there /\ source
  <2> DEFINE found == Outcome(s) = "no" /\ answered
  <2>1. PICK due \in BOOLEAN :
          task' = [task EXCEPT ![k] = [NoTask EXCEPT !.there = TRUE, !.due = due,
                     !.completed = IF found THEN "replied" ELSE Outcome(s),
                     !.version = IF found THEN 2 ELSE 1]]
    BY <1>5 DEF CreateTask
  <2>2. reopened' = reopened /\ reopened \subseteq FollowUps
    BY <1>0, <1>5 DEF CreateTask, TaskTypeOK
  <2>3. /\ task'[k].there /\ task'[k].version = IF found THEN 2 ELSE 1
        /\ task'[k].completed = IF found THEN "replied" ELSE Outcome(s)
        /\ task'[k] \in Task
    <3>1. (IF found THEN 2 ELSE 1) \in 0..(MaxTaskVersion + 1)
          /\ (IF found THEN "replied" ELSE Outcome(s)) \in Reasons
      BY <1>4, TasksAssumption DEF Reasons
    <3>2. PICK completed \in Reasons, version \in 0..(MaxTaskVersion + 1) :
            /\ completed = (IF found THEN "replied" ELSE Outcome(s))
            /\ version = (IF found THEN 2 ELSE 1)
            /\ task'[k] = [NoTask EXCEPT !.there = TRUE, !.due = due, !.completed = completed,
                                         !.version = version]
      BY <1>0, <2>1, <3>1
    <3>3. task'[k] = [there |-> TRUE, completed |-> completed, version |-> version, due |-> due,
                      notified |-> FALSE, dismissed |-> FALSE]
      BY <3>2 DEF NoTask
    <3>4. task'[k] \in Task /\ task'[k].there
      BY <3>3 DEF Task
    <3>5. task'[k].completed = completed /\ task'[k].version = version
      BY <3>3
    <3> QED BY <3>2, <3>4, <3>5
  <2>4. task' \in [FollowUps -> Task] /\ \A j \in FollowUps \ {k} : task'[j] = task[j]
    BY <1>0, <1>1, <2>1, <2>3
  <2>5. Waiting(k)' => Outcome(s) = "no" /\ ~answered /\ task'[k].version = 1
    BY <2>3 DEF Waiting
  <2> QED BY <1>5, <2>2, <2>3, <2>4, <2>5, TasksAssumption
<1>6. CASE UpdateTask(s) /\ task[k].there /\ task[k].version = saver[s].version /\ saver[s].version > 0
  <2> DEFINE open == Outcome(s) = "no"
  <2>1. PICK due \in BOOLEAN, same \in BOOLEAN, kept \in BOOLEAN :
          task' = [task EXCEPT ![k] =
            [task[k] EXCEPT !.completed = Outcome(s), !.version = @ + 1,
                            !.due = IF same THEN @ ELSE due,
                      !.notified = kept /\ @, !.dismissed = kept /\ @]]
    <3>1. PICK due \in BOOLEAN, same \in BOOLEAN :
            LET kept == same /\ (open <=> task[k].completed = "no") IN
            task' = [task EXCEPT ![k] =
              [task[k] EXCEPT !.completed = Outcome(s), !.version = @ + 1,
                              !.due = IF same THEN @ ELSE due,
                        !.notified = kept /\ @, !.dismissed = kept /\ @]]
      BY <1>6 DEF UpdateTask
    <3>2. (same /\ (open <=> task[k].completed = "no")) \in BOOLEAN
      OBVIOUS
    <3> QED BY <3>1, <3>2
  <2>2. task[k].version < MaxTaskVersion
    BY <1>6 DEF TaskInv, Informed
  <2>3. /\ task'[k].there = task[k].there /\ task'[k].version = task[k].version + 1
        /\ task'[k].completed = Outcome(s)
        /\ task'[k] \in Task
    <3>1. task[k].due \in BOOLEAN /\ task[k].notified \in BOOLEAN /\ task[k].dismissed \in BOOLEAN
      BY <1>1 DEF Task
    <3>2. /\ (IF same THEN task[k].due ELSE due) \in BOOLEAN
          /\ (kept /\ task[k].notified) \in BOOLEAN /\ (kept /\ task[k].dismissed) \in BOOLEAN
      BY <3>1, <2>1
    <3>3. task[k].version \in 0..(MaxTaskVersion + 1)
      BY <1>1 DEF Task
    <3>4. task[k].version + 1 \in 0..(MaxTaskVersion + 1)
      BY <2>2, <3>3, TasksAssumption
    <3>5. PICK remind \in BOOLEAN, notified \in BOOLEAN, dismissed \in BOOLEAN :
            task'[k] = [task[k] EXCEPT !.completed = Outcome(s), !.version = task[k].version + 1,
                          !.due = remind, !.notified = notified, !.dismissed = dismissed]
      BY <1>0, <2>1, <3>2
    <3> QED BY <1>1, <1>4, <3>4, <3>5 DEF Task
  <2>4. task' \in [FollowUps -> Task] /\ \A j \in FollowUps \ {k} : task'[j] = task[j]
    BY <1>0, <1>1, <2>1, <2>3
  <2>5. reopened' = IF ~open THEN reopened \ {k}
                    ELSE IF saver[s].overtaken /\ saver[s].closed THEN reopened \cup {k} ELSE reopened
    BY <1>6 DEF UpdateTask
  <2>6. reopened' \subseteq FollowUps /\ \A j \in FollowUps \ {k} : j \in reopened' <=> j \in reopened
    BY <1>0, <1>1, <2>5 DEF TaskTypeOK
  <2>7. ASSUME Waiting(k)', answered, source
        PROVE  k \in reopened'
    <3>1. open /\ ~saver[s].replied
      BY <2>3, <2>7 DEF Waiting, Outcome
    <3>2. saver[s].overtaken
      BY <2>7, <3>1 DEF TaskInv, Informed, WriteTask
    <3>3. ~saver[s].closed => k \in reopened
      BY <1>6, <1>1, <2>7 DEF TaskInv, Informed, WaitingHasNoReply, WriteTask, Saver, Task
    <3> QED BY <2>5, <3>1, <3>2, <3>3
  <2> HIDE DEF open
  <2>8. task'[k].version > task[k].version /\ task'[k].version # 0 /\ task'[k].version <= MaxTaskVersion
        /\ task'[k].there /\ task'[k] # task[k]
    BY <1>1, <1>6, <2>2, <2>3, TasksAssumption DEF Task
  <2> QED BY <2>4, <2>6, <2>7, <2>8
<1>7. CASE UNCHANGED <<task, reopened>>
  <2>1. task' = task /\ reopened' = reopened /\ reopened \subseteq FollowUps
    BY <1>0, <1>7 DEF TaskTypeOK
  <2>2. Waiting(k)' <=> Waiting(k)
    BY <2>1 DEF Waiting
  <2> QED BY <1>0, <1>1, <2>1, <2>2 DEF TaskInv, Versioned, WaitingHasNoReply
<1> QED BY <1>5, <1>6, <1>7 DEF WriteTask


\* The single statements.
LEMMA StatementStep ==
  ASSUME TaskInv,
         \/ \E k \in FollowUps : \/ DeleteTask(k) \/ TaskComesDue(k) \/ RemindOfTask(k)
                                \/ \E snooze \in BOOLEAN : DismissTask(k, snooze)
         \/ Reply \/ DestroyReplies \/ DestroySource
  PROVE  TaskInv'
<1>0. task \in [FollowUps -> Task] /\ saver \in [Savers -> Saver] /\ TaskTypeOK
  BY TaskColumns DEF TaskInv
<1>1. ASSUME NEW k \in FollowUps, DeleteTask(k)
      PROVE  TaskInv'
  <2>1. NoTask \in Task /\ ~NoTask.there /\ NoTask.version = 0
    BY TasksAssumption DEF NoTask, Task, Reasons
  <2>2. /\ task' \in [FollowUps -> Task] /\ task'[k] = NoTask
        /\ \A j \in FollowUps \ {k} : task'[j] = task[j]
        /\ UNCHANGED <<answered, source>> /\ reopened' = reopened \ {k}
    BY <1>0, <1>1, <2>1 DEF DeleteTask
  <2>3. ASSUME NEW s \in Savers
        PROVE  /\ saver'[s] \in Saver
               /\ saver'[s].pc = saver[s].pc /\ saver'[s].task = saver[s].task
               /\ saver'[s].version = saver[s].version /\ saver'[s].replied = saver[s].replied
               /\ saver'[s].overtaken = saver[s].overtaken
               /\ \/ saver'[s].closed
                  \/ saver'[s] = saver[s] /\ (saver[s].pc = "idle" \/ saver[s].task # k)
    <3>1. saver[s] \in Saver
      BY <1>0
    <3> QED BY <1>1, <3>1 DEF DeleteTask, Saver
  <2>4. saver' \in [Savers -> Saver]
    <3>1. saver' = [s \in Savers |-> saver'[s]]
      BY <1>1 DEF DeleteTask
    <3> QED BY <2>3, <3>1
  <2>5. TaskTypeOK'
    BY <1>0, <2>2, <2>4, TaskColumns DEF TaskTypeOK, Task, Saver
  <2>6. Versioned' /\ WaitingHasNoReply'
    BY <2>1, <2>2 DEF TaskInv, Versioned, WaitingHasNoReply, Waiting
  <2>7. Informed'
    <3> SUFFICES ASSUME NEW s \in Savers
                 PROVE  /\ saver'[s].version < MaxTaskVersion
                        /\ saver'[s].pc # "idle" /\ saver'[s].version # 0 /\ ~saver'[s].closed =>
                             /\ task'[saver'[s].task].there
                             /\ saver'[s].version <= task'[saver'[s].task].version
                             /\ saver'[s].version = task'[saver'[s].task].version
                                  => Waiting(saver[s].task)'
                        /\ saver'[s].pc = "write" /\ source' /\ answered' /\ ~saver'[s].replied
                             => saver'[s].overtaken
      BY DEF Informed, Waiting
    <3>1. saver[s].task \in FollowUps
      BY <1>0 DEF Saver
    <3> QED BY <2>2, <2>3, <3>1 DEF TaskInv, Informed, Waiting
  <2> QED BY <2>5, <2>6, <2>7 DEF TaskInv
<1>2. ASSUME NEW k \in FollowUps, task' \in [FollowUps -> Task],
             \A j \in FollowUps \ {k} : task'[j] = task[j],
             task'[k].there = task[k].there, task'[k].completed = task[k].completed,
             \/ task'[k].version = task[k].version
             \/ task'[k].version = task[k].version + 1 /\ task[k].version < MaxTaskVersion
                 /\ task[k].there,
             UNCHANGED <<answered, source, saver, reopened>>, Waiting(k)
      PROVE  TaskInv'
  <2>1. TaskTypeOK'
    BY <1>0, <1>2, TaskColumns DEF TaskTypeOK, Task, Saver
  <2>2. \A j \in FollowUps : Waiting(j)' <=> Waiting(j)
    BY <1>2 DEF Waiting
  <2>3. \A j \in FollowUps : task[j].version \in Nat /\ task'[j].version \in Nat
    BY <1>0, <1>2, TasksAssumption DEF Task
  <2>4. Versioned' /\ WaitingHasNoReply'
    BY <1>2, <2>2, <2>3, TasksAssumption DEF TaskInv, Versioned, WaitingHasNoReply
  <2>5. Informed'
    <3> SUFFICES ASSUME NEW s \in Savers, saver[s].pc # "idle", saver[s].version # 0, ~saver[s].closed
                 PROVE  /\ task'[saver[s].task].there
                        /\ saver[s].version <= task'[saver[s].task].version
                        /\ saver[s].version = task'[saver[s].task].version => Waiting(saver[s].task)'
      BY <1>2 DEF TaskInv, Informed, Waiting
    <3>1. saver[s].task \in FollowUps /\ saver[s].version \in Nat
      BY <1>0, TasksAssumption DEF Saver
    <3>2. Waiting(saver[s].task)' <=> Waiting(saver[s].task)
      BY <1>2, <3>1 DEF Waiting
    <3> QED BY <1>2, <2>3, <3>1, <3>2 DEF TaskInv, Informed
  <2> QED BY <2>1, <2>4, <2>5 DEF TaskInv
<1>3. ASSUME NEW k \in FollowUps,
             TaskComesDue(k) \/ RemindOfTask(k) \/ \E snooze \in BOOLEAN : DismissTask(k, snooze)
      PROVE  TaskInv'
  <2>1. task[k] \in Task
    BY <1>0
  <2>2. CASE TaskComesDue(k)
    BY <1>0, <1>2, <2>1, <2>2 DEF TaskComesDue, Task
  <2>3. CASE RemindOfTask(k)
    BY <1>0, <1>2, <2>1, <2>3 DEF RemindOfTask, Task
  <2>4. ASSUME NEW snooze \in BOOLEAN, DismissTask(k, snooze)
        PROVE  TaskInv'
    <3>1. /\ (task[k].due /\ ~snooze) \in BOOLEAN /\ (task[k].notified /\ ~snooze) \in BOOLEAN
          /\ (~snooze) \in BOOLEAN
      OBVIOUS
    <3>5. task[k].version + 1 \in 0..(MaxTaskVersion + 1)
      <4>1. task[k].version < MaxTaskVersion
        BY <2>4 DEF DismissTask
      <4>2. task[k].version \in 0..(MaxTaskVersion + 1)
        BY <2>1 DEF Task
      <4> QED BY <4>1, <4>2, TasksAssumption
    <3>2. task' = [task EXCEPT ![k] =
            [task[k] EXCEPT !.dismissed = ~snooze, !.due = @ /\ ~snooze, !.notified = @ /\ ~snooze,
                      !.version = @ + 1]]
      BY <2>4 DEF DismissTask
    <3>3. /\ task'[k] \in Task /\ task'[k].version = task[k].version + 1
          /\ task'[k].there = task[k].there /\ task'[k].completed = task[k].completed
      <4>1. task'[k] = [task[k] EXCEPT
              !.dismissed = ~snooze, !.due = task[k].due /\ ~snooze,
              !.notified = task[k].notified /\ ~snooze, !.version = task[k].version + 1]
        BY <1>0, <3>2
      <4> QED BY <2>1, <3>1, <3>5, <4>1 DEF Task
    <3>4. task' \in [FollowUps -> Task] /\ \A j \in FollowUps \ {k} : task'[j] = task[j]
      BY <1>0, <3>2, <3>3
    <3> QED BY <1>2, <2>4, <3>3, <3>4 DEF DismissTask, Waiting
  <2> QED BY <1>3, <2>2, <2>3, <2>4
<1>4. CASE Reply
  <2>1. ASSUME NEW j \in FollowUps
        PROVE  /\ task'[j] \in Task /\ ~Waiting(j)'
               /\ task'[j].there = task[j].there
               /\ \/ task'[j] = task[j] /\ ~Waiting(j)
                  \/ task'[j].version = task[j].version + 1 /\ Waiting(j)
    <3>1. task[j] \in Task /\ (Waiting(j) => task[j].version + 1 \in 0..(MaxTaskVersion + 1))
      BY <1>0, TasksAssumption DEF TaskInv, Versioned, Task
    <3>2. CASE Waiting(j)
      <4>1. task'[j] = [task[j] EXCEPT !.completed = "replied", !.version = task[j].version + 1]
        BY <1>4, <3>2 DEF Reply
      <4>2. PICK version \in 0..(MaxTaskVersion + 1) :
              version = task[j].version + 1
              /\ task'[j] = [task[j] EXCEPT !.completed = "replied", !.version = version]
        BY <3>1, <3>2, <4>1
      <4>3. "replied" \in Reasons /\ "replied" # "no"
        BY DEF Reasons
      <4> QED BY <3>1, <3>2, <4>2, <4>3 DEF Task, Waiting
    <3>3. CASE ~Waiting(j)
      <4>1. task'[j] = task[j]
        BY <1>4, <3>3 DEF Reply
      <4> QED BY <3>1, <3>3, <4>1 DEF Waiting
    <3> QED BY <3>2, <3>3
  <2>2. task' \in [FollowUps -> Task]
    <3>1. task' = [j \in FollowUps |-> task'[j]]
      BY <1>4 DEF Reply
    <3> QED BY <2>1, <3>1
  <2>3. ASSUME NEW s \in Savers
        PROVE  /\ saver'[s] \in Saver
               /\ saver'[s].pc = saver[s].pc /\ saver'[s].task = saver[s].task
               /\ saver'[s].version = saver[s].version /\ saver'[s].closed = saver[s].closed
               /\ saver[s].pc = "write" => saver'[s].overtaken
    <3>1. saver[s] \in Saver
      BY <1>0
    <3> QED BY <1>4, <3>1 DEF Reply, Overtake, Saver
  <2>4. saver' \in [Savers -> Saver]
    <3>1. saver' = [s \in Savers |-> saver'[s]]
      BY <1>4 DEF Reply, Overtake
    <3> QED BY <2>3, <3>1
  <2>5. TaskTypeOK'
    <3>1. UNCHANGED <<source, reopened>> /\ answered' = TRUE
      BY <1>4 DEF Reply
    <3> QED BY <1>0, <2>2, <2>4, <3>1, TaskColumns DEF TaskTypeOK, Task, Saver
  <2>6. Versioned' /\ WaitingHasNoReply'
    <3>1. \A j \in FollowUps : task[j].version \in Nat
      BY <1>0, TasksAssumption DEF Task
    <3> QED BY <2>1, <3>1 DEF TaskInv, Versioned, WaitingHasNoReply, Waiting
  <2>7. Informed'
    <3> SUFFICES ASSUME NEW s \in Savers
                 PROVE  /\ saver'[s].version < MaxTaskVersion
                        /\ saver'[s].pc # "idle" /\ saver'[s].version # 0 /\ ~saver'[s].closed =>
                             /\ task'[saver'[s].task].there
                             /\ saver'[s].version <= task'[saver'[s].task].version
                             /\ saver'[s].version # task'[saver'[s].task].version
                        /\ saver'[s].pc = "write" => saver'[s].overtaken
      BY DEF Informed
    <3>1. saver[s].task \in FollowUps /\ saver[s].version \in Nat
      BY <1>0, TasksAssumption DEF Saver
    <3>2. task[saver[s].task].version \in Nat
      BY <1>0, <3>1, TasksAssumption DEF Task
    <3> QED BY <2>1, <2>3, <3>1, <3>2 DEF TaskInv, Informed
  <2> QED BY <2>5, <2>6, <2>7 DEF TaskInv
<1>5. CASE DestroyReplies \/ DestroySource
  <2>1. UNCHANGED <<task, saver, reopened>> /\ (answered' => answered) /\ (source' => source)
        /\ answered' \in BOOLEAN /\ source' \in BOOLEAN
    <3>1. CASE DestroyReplies
      BY <1>0, <3>1 DEF DestroyReplies, TaskTypeOK
    <3>2. CASE DestroySource
      BY <1>0, <3>2 DEF DestroySource, TaskTypeOK
    <3> QED BY <1>5, <3>1, <3>2
  <2>2. TaskTypeOK'
    BY <1>0, <2>1, TaskColumns DEF TaskTypeOK, Task, Saver
  <2> QED BY <2>1, <2>2 DEF TaskInv, Versioned, Informed, WaitingHasNoReply, Waiting
<1> QED BY <1>1, <1>3, <1>4, <1>5

\* The invariant of the follow-ups holds.
LEMMA TaskInvariant == TaskSpec => []TaskInv
<1>1. TaskInv /\ [TaskNext]_taskVars => TaskInv'
  <2> SUFFICES ASSUME TaskInv, [TaskNext]_taskVars PROVE TaskInv'
    OBVIOUS
  <2>1. ASSUME NEW s \in Savers, WriteTask(s)
        PROVE  TaskInv'
    <3>1. saver[s].task \in FollowUps
      BY TaskColumns DEF TaskInv, Saver
    <3> QED BY <2>1, <3>1, WriteStep
  <2>2. CASE UNCHANGED taskVars
    BY <2>2 DEF taskVars, TaskInv, TaskTypeOK, Versioned, Informed, WaitingHasNoReply, Waiting
  <2> QED BY <2>1, <2>2, LookStep, StatementStep DEF TaskNext
<1> QED BY <1>1, TaskStart, PTL DEF TaskSpec

\* Follow-ups keep their types.
THEOREM TaskTypeCorrect == TaskSpec => []TaskTypeOK
<1>1. TaskInv => TaskTypeOK
  BY DEF TaskInv
<1> QED BY <1>1, TaskInvariant, PTL

\* A follow-up that waits although its reply is there was opened by a request the reply overtook.
THEOREM RepliesClearFollowUps == TaskSpec => []WaitingHasNoReply
<1>1. TaskInv => WaitingHasNoReply
  BY DEF TaskInv
<1> QED BY <1>1, TaskInvariant, PTL


-----------------------------------------------------------------------------
(* The chat tab *)

\* A finite set of numbers has a largest and a smallest one.
LEMMA Extremes ==
  ASSUME NEW S \in SUBSET Nat, IsFiniteSet(S), S # {}
  PROVE  /\ Max(S) \in S /\ \A n \in S : n <= Max(S)
         /\ Min(S) \in S /\ \A n \in S : Min(S) <= n
<1> DEFINE Above(n) == {m \in S : m > n}
           Below(n) == {m \in S : m < n}
<1>0. IsWellFoundedOn(StrictSubsetOrdering(S), FiniteSubsetsOf(S))
  BY FS_StrictSubsetOrderingWellFounded
<1>1. \E n \in S : \A m \in S : n >= m
  <2> DEFINE T == {Above(n) : n \in S}
  <2>1. T \subseteq FiniteSubsetsOf(S) /\ T # {}
    <3>1. \A n \in S : Above(n) \in SUBSET S /\ IsFiniteSet(Above(n))
      BY FS_Subset
    <3> QED BY <3>1 DEF FiniteSubsetsOf
  <2>2. PICK A \in T : \A B \in T : ~ (<<B, A>> \in StrictSubsetOrdering(S))
    BY <1>0, <2>1, WFMin
  <2>3. PICK n \in S : A = Above(n)
    BY <2>2
  <2>4. ASSUME NEW m \in S, m > n
        PROVE  FALSE
    <3>0. m \in Nat /\ n \in Nat /\ \A o \in S : o \in Nat
      OBVIOUS
    <3>1. Above(m) \subseteq Above(n) /\ m \in Above(n) /\ m \notin Above(m)
      <4>1. \A o \in S : o > m => o > n
        BY <2>4, <3>0
      <4>2. m > n /\ ~(m > m)
        BY <2>4, <3>0
      <4> QED BY <4>1, <4>2
    <3> HIDE DEF Above
    <3>3. Above(m) \in T
      OBVIOUS
    <3>4. Above(m) \in SUBSET S /\ Above(n) \in SUBSET S
      BY DEF Above
    <3>2. <<Above(m), A>> \in StrictSubsetOrdering(S)
      BY <2>3, <3>1, <3>4 DEF StrictSubsetOrdering
    <3> QED BY <2>2, <3>2, <3>3
  <2> QED BY <2>4
<1>2. \E n \in S : \A m \in S : n =< m
  <2> DEFINE T == {Below(n) : n \in S}
  <2>1. T \subseteq FiniteSubsetsOf(S) /\ T # {}
    <3>1. \A n \in S : Below(n) \in SUBSET S /\ IsFiniteSet(Below(n))
      BY FS_Subset
    <3> QED BY <3>1 DEF FiniteSubsetsOf
  <2>2. PICK A \in T : \A B \in T : ~ (<<B, A>> \in StrictSubsetOrdering(S))
    BY <1>0, <2>1, WFMin
  <2>3. PICK n \in S : A = Below(n)
    BY <2>2
  <2>4. ASSUME NEW m \in S, m < n
        PROVE  FALSE
    <3>0. m \in Nat /\ n \in Nat /\ \A o \in S : o \in Nat
      OBVIOUS
    <3>1. Below(m) \subseteq Below(n) /\ m \in Below(n) /\ m \notin Below(m)
      <4>1. \A o \in S : o < m => o < n
        BY <2>4, <3>0
      <4>2. m < n /\ ~(m < m)
        BY <2>4, <3>0
      <4> QED BY <4>1, <4>2
    <3> HIDE DEF Below
    <3>3. Below(m) \in T
      OBVIOUS
    <3>4. Below(m) \in SUBSET S /\ Below(n) \in SUBSET S
      BY DEF Below
    <3>2. <<Below(m), A>> \in StrictSubsetOrdering(S)
      BY <2>3, <3>1, <3>4 DEF StrictSubsetOrdering
    <3> QED BY <2>2, <3>2, <3>3
  <2> QED BY <2>4
<1> QED BY <1>1, <1>2 DEF Max, Min

\* An answer is a stretch of the conversation: it follows the message it was asked to follow, or
\* reaches up to the one it was asked to precede, and it stores nothing.
LEMMA Stretch ==
  ASSUME lastSeq \in Nat, NEW after \in Nat, NEW before \in Nat, after = 0 \/ before = 0,
         before <= lastSeq
  PROVE  \E a \in Nat, b \in 0..lastSeq :
           /\ ListMessages(after, before).seqs = a..b
           /\ a > 0
           /\ after > 0 => a = after + 1
           /\ before > 0 => b = before - 1
<1> DEFINE found == {n \in 1..lastSeq : n > after /\ (before = 0 \/ n < before)}
           closer(n) == {o \in found : IF after > 0 THEN o < n ELSE o > n}
           seqs == {n \in found : Cardinality(closer(n)) < Page}
<1>0. ListMessages(after, before).seqs = seqs
  BY DEF ListMessages
<1>1. CASE after > 0
  <2>1. \A n \in found : closer(n) = (after + 1)..(n - 1) /\ n > after
    BY <1>1
  <2>2. \A n \in found : Cardinality(closer(n)) = n - 1 - after
    <3> SUFFICES ASSUME NEW n \in found PROVE Cardinality(closer(n)) = n - 1 - after
      OBVIOUS
    <3>1. Cardinality((after + 1)..(n - 1)) =
            IF after + 1 > n - 1 THEN 0 ELSE (n - 1) - (after + 1) + 1
      BY FS_Interval
    <3> HIDE DEF closer
    <3> QED BY <2>1, <3>1
  <2> HIDE DEF closer
  <2> DEFINE b == IF lastSeq < after + Page THEN lastSeq ELSE after + Page
  <2>3. seqs = (after + 1)..b
    BY <1>1, <2>2, ChatAssumption
  <2> QED BY <1>0, <1>1, <2>3, ChatAssumption
<1>2. CASE after = 0
  <2> DEFINE u == IF before = 0 THEN lastSeq ELSE before - 1
  <2>0. u \in 0..lastSeq
    OBVIOUS
  <2>1. found = 1..u
    BY <1>2
  <2>2. \A n \in 1..u : closer(n) = (n + 1)..u
    BY <1>2, <2>0, <2>1
  <2>3. \A n \in 1..u : Cardinality(closer(n)) = u - n
    <3> SUFFICES ASSUME NEW n \in 1..u PROVE Cardinality(closer(n)) = u - n
      OBVIOUS
    <3> HIDE DEF closer, u
    <3>1. Cardinality((n + 1)..u) = IF n + 1 > u THEN 0 ELSE u - (n + 1) + 1
      BY <2>0, FS_Interval
    <3> QED BY <2>0, <2>2, <3>1
  <2> HIDE DEF closer, found
  <2> DEFINE a == IF u <= Page THEN 1 ELSE u - Page + 1
  <2>4. seqs = a..u
    BY <2>0, <2>1, <2>3, ChatAssumption
  <2>5. a \in Nat /\ a > 0
    BY <2>0, ChatAssumption
  <2> QED BY <1>0, <1>2, <2>0, <2>4, <2>5
<1> QED BY <1>1, <1>2

LoadRow == [pc : {"idle", "asked", "answered"}, stale : BOOLEAN, after : 0..MaxMessages,
            before : 0..MaxMessages, answer : SUBSET Seqs, more : BOOLEAN]

\* What the tab and its requests know of has been stored.
Known ==
  /\ shown \subseteq 1..lastSeq
  /\ \A l \in Loads : /\ load[l].answer \subseteq 1..lastSeq
                      /\ load[l].after <= lastSeq /\ load[l].before <= lastSeq
                      /\ load[l].after = 0 \/ load[l].before = 0

\* A request was asked to go on from a message of the tab, and its answer does.
Placed(q) ==
  /\ q.after > 0 => q.after \in shown
  /\ q.before > 0 => q.before \in shown
  /\ q.pc = "answered" => \E a \in Nat, b \in Nat : /\ q.answer = a..b
                                                    /\ q.after > 0 => a = q.after + 1
                                                    /\ q.before > 0 => b = q.before - 1

\* The inductive invariant of the tab.
ChatInv ==
  /\ ChatTypeOK /\ Known
  /\ \A l \in Loads : load[l].pc # "idle" /\ ~load[l].stale => Placed(load[l])
  /\ ShownWithoutHoles

\* The columns of the tab.
LEMMA ChatColumns ==
  ChatTypeOK <=> /\ lastSeq \in 0..MaxMessages /\ lastRead \in 0..MaxMessages
                 /\ shown \subseteq Seqs /\ more \in BOOLEAN
                 /\ readSeq \in 0..MaxMessages /\ reports \subseteq Seqs
                 /\ load \in [Loads -> LoadRow] /\ overlaid \in BOOLEAN
BY DEF ChatTypeOK, LoadRow

\* The newest message of the tab is one of its messages.
LEMMA Bounds ==
  ASSUME NEW n \in Nat, NEW S \in SUBSET (1..n), S # {}
  PROVE  Max(S) \in S /\ Min(S) \in S /\ Max(S) \in 1..n /\ Min(S) \in 1..n
<1>1. IsFiniteSet(1..n) /\ S \in SUBSET Nat
  BY FS_Interval
<1>2. IsFiniteSet(S)
  BY <1>1, FS_Subset
<1> QED BY <1>1, <1>2, Extremes

\* A stretch that goes on from a message of another leaves no hole between them.
LEMMA Joined ==
  ASSUME NEW S \in SUBSET Nat, \A m, n \in S : m..n \subseteq S,
         NEW a \in Nat, NEW b \in Nat, NEW c \in S, c = a - 1 \/ c = b + 1
  PROVE  \A m, n \in S \cup (a..b) : m..n \subseteq S \cup (a..b)
<1> SUFFICES ASSUME NEW m \in S \cup (a..b), NEW n \in S \cup (a..b), NEW o \in m..n, o \notin a..b
             PROVE  o \in S
  OBVIOUS
<1>1. m \in Nat /\ n \in Nat /\ o \in Nat /\ c \in Nat
  OBVIOUS
<1>2. CASE m \in S /\ n \in S
  BY <1>2
<1>3. CASE m \in S /\ n \in a..b
  <2>1. o \in m..c
    BY <1>1, <1>3
  <2> QED BY <1>3, <2>1
<1>4. CASE m \in a..b /\ n \in S
  <2>1. o \in c..n
    BY <1>1, <1>4
  <2> QED BY <1>4, <2>1
<1>5. CASE m \in a..b /\ n \in a..b
  BY <1>1, <1>5
<1> QED BY <1>2, <1>3, <1>4, <1>5

\* The tab starts empty.
LEMMA ChatStart == ChatInit => ChatInv
<1> SUFFICES ASSUME ChatInit PROVE ChatInv
  OBVIOUS
<1>1. /\ NoLoad \in LoadRow /\ NoLoad.pc = "idle"
      /\ NoLoad.answer = {} /\ NoLoad.after = 0 /\ NoLoad.before = 0
  BY ChatAssumption DEF NoLoad, LoadRow
<1>2. \A l \in Loads : load[l] = NoLoad
  BY DEF ChatInit
<1>3. ChatTypeOK
  <2>1. 0 \in 0..MaxMessages /\ load \in [Loads -> LoadRow]
    BY <1>1, ChatAssumption DEF ChatInit
  <2> QED BY <2>1, ChatColumns DEF ChatInit
<1>4. Known
  BY <1>1, <1>2 DEF ChatInit, Known
<1> QED BY <1>1, <1>2, <1>3, <1>4 DEF ChatInit, ChatInv, ShownWithoutHoles

\* What the tab reports as read is a message it shows.
LEMMA VisibleStep ==
  ASSUME NEW S \in SUBSET Seqs, readSeq \in 0..MaxMessages, reports \subseteq Seqs, ReadVisible(S)
  PROVE  readSeq' \in 0..MaxMessages /\ reports' \subseteq Seqs
<1> DEFINE last == IF S = {} THEN 0 ELSE Max(S)
<1>1. last = 0 \/ last \in Seqs
  BY Bounds, ChatAssumption DEF Seqs
<1>2. \/ UNCHANGED <<readSeq, reports>>
      \/ last > readSeq /\ readSeq' = last /\ reports' = reports \cup {last}
  BY DEF ReadVisible
<1> HIDE DEF last
<1>3. CASE UNCHANGED <<readSeq, reports>>
  BY <1>3
<1>4. CASE last > readSeq /\ readSeq' = last /\ reports' = reports \cup {last}
  <2>1. last \in Seqs
    BY <1>1, <1>4, ChatAssumption
  <2>2. last \in 0..MaxMessages
    BY <2>1, ChatAssumption DEF Seqs
  <2> QED BY <1>4, <2>1, <2>2
<1> QED BY <1>2, <1>3, <1>4

\* Steps that change neither what is shown nor what is asked.
LEMMA StoreStep ==
  ASSUME ChatInv, StoreMessage \/ Look \/ \E seq \in Seqs : MarkRead(seq) \/ LoseReport(seq)
  PROVE  ChatInv'
<1>1. UNCHANGED <<shown, more, load, overlaid>>
  BY DEF StoreMessage, Look, MarkRead, LoseReport
<1>2. lastSeq' \in 0..MaxMessages /\ lastSeq <= lastSeq'
  BY ChatAssumption DEF StoreMessage, Look, MarkRead, LoseReport, ChatInv, ChatTypeOK, ReadVisible
<1>3. lastRead' \in 0..MaxMessages /\ readSeq' \in 0..MaxMessages /\ reports' \subseteq Seqs
  <2>1. CASE Look
    <3>1. /\ lastRead' = lastRead /\ lastRead \in 0..MaxMessages /\ ReadVisible(shown)
          /\ shown \in SUBSET Seqs /\ readSeq \in 0..MaxMessages /\ reports \subseteq Seqs
      BY <2>1 DEF Look, ChatInv, ChatTypeOK
    <3> QED BY <3>1, VisibleStep
  <2>2. CASE StoreMessage
    BY <2>2 DEF StoreMessage, ChatInv, ChatTypeOK
  <2>3. ASSUME NEW seq \in Seqs, MarkRead(seq) \/ LoseReport(seq)
        PROVE  lastRead' \in 0..MaxMessages /\ readSeq' \in 0..MaxMessages /\ reports' \subseteq Seqs
    <3>1. /\ lastRead \in 0..MaxMessages /\ readSeq \in 0..MaxMessages /\ reports \subseteq Seqs
          /\ seq \in 0..MaxMessages /\ 0 \in 0..MaxMessages
      BY ChatAssumption DEF ChatInv, ChatTypeOK, Seqs
    <3>2. CASE MarkRead(seq)
      BY <3>1, <3>2 DEF MarkRead
    <3>3. CASE LoseReport(seq)
      BY <3>1, <3>3 DEF LoseReport
    <3> QED BY <2>3, <3>2, <3>3
  <2> QED BY <2>1, <2>2, <2>3
<1>4. ChatTypeOK'
  BY <1>1, <1>2, <1>3 DEF ChatInv, ChatTypeOK
<1>5. Known'
  <2>1. \A l \in Loads : load[l].after \in Nat /\ load[l].before \in Nat
    BY ChatColumns, ChatAssumption DEF ChatInv, LoadRow
  <2>2. lastSeq \in Nat /\ lastSeq' \in Nat /\ 1..lastSeq \subseteq 1..lastSeq'
    BY <1>2, ChatAssumption DEF ChatInv, ChatTypeOK
  <2> QED BY <1>1, <1>2, <2>1, <2>2 DEF ChatInv, Known
<1> QED BY <1>1, <1>4, <1>5 DEF ChatInv, ShownWithoutHoles, Placed

\* A step that asks, answers, loses or drops one request.
LEMMA LoadStep ==
  ASSUME ChatInv, NEW l \in Loads,
         UNCHANGED <<lastSeq, lastRead, shown, more, readSeq, reports, overlaid>>,
         load' \in [Loads -> LoadRow], \A o \in Loads : o # l => load'[o] = load[o],
         load'[l].answer \subseteq 1..lastSeq,
         load'[l].after <= lastSeq, load'[l].before <= lastSeq,
         load'[l].after = 0 \/ load'[l].before = 0,
         load'[l].pc # "idle" /\ ~load'[l].stale => Placed(load'[l])
  PROVE  ChatInv'
<1>1. ChatTypeOK'
  BY ChatColumns DEF ChatInv, ChatTypeOK, LoadRow
<1>2. Known'
  BY DEF ChatInv, Known
<1>3. ASSUME NEW o \in Loads, load'[o].pc # "idle", ~load'[o].stale
      PROVE  Placed(load[o])'
  <2>1. CASE o = l
    BY <1>3, <2>1 DEF Placed
  <2>2. CASE o # l
    BY <1>3, <2>2 DEF ChatInv, Placed
  <2> QED BY <2>1, <2>2
<1>4. ShownWithoutHoles'
  BY DEF ChatInv, ShownWithoutHoles
<1> QED BY <1>1, <1>2, <1>3, <1>4 DEF ChatInv

\* A request forgotten.
LEMMA IdleLoad ==
  /\ NoLoad \in LoadRow /\ NoLoad.pc = "idle" /\ ~NoLoad.stale
  /\ NoLoad.answer = {} /\ NoLoad.after = 0 /\ NoLoad.before = 0
BY ChatAssumption DEF NoLoad, LoadRow

\* A request that is lost, or dropped, changes nothing else.
LEMMA ForgetStep ==
  ASSUME ChatInv, NEW l \in Loads, load' = [load EXCEPT ![l] = NoLoad],
         UNCHANGED <<lastSeq, lastRead, shown, more, readSeq, reports, overlaid>>
  PROVE  ChatInv'
<1>1. load \in [Loads -> LoadRow] /\ lastSeq \in Nat
  BY ChatColumns, ChatAssumption DEF ChatInv
<1>2. load'[l] = NoLoad /\ load' \in [Loads -> LoadRow] /\ \A o \in Loads : o # l => load'[o] = load[o]
  BY <1>1, IdleLoad
<1>3. 0 <= lastSeq /\ {} \subseteq 1..lastSeq
  BY <1>1
<1> QED BY <1>2, <1>3, IdleLoad, LoadStep

\* Requests.
LEMMA RequestStep ==
  ASSUME ChatInv, NEW l \in Loads, AskNew(l) \/ AskOlder(l) \/ ServeLoad(l) \/ LoseLoad(l)
  PROVE  ChatInv'
<1>0. /\ load \in [Loads -> LoadRow] /\ load[l] \in LoadRow
      /\ lastSeq \in 0..MaxMessages /\ shown \subseteq Seqs /\ lastSeq \in Nat
      /\ shown \in SUBSET (1..lastSeq)
  BY ChatColumns, ChatAssumption DEF ChatInv, Known
<1>1. CASE AskNew(l)
  <2> DEFINE q == [NoLoad EXCEPT !.pc = "asked", !.after = Newest]
  <2>1. Newest \in 0..lastSeq /\ (Newest > 0 => Newest \in shown)
    BY <1>0, Bounds DEF Newest
  <2>2. Newest \in 0..MaxMessages
    BY <1>0, <2>1, ChatAssumption
  <2>3. /\ q \in LoadRow /\ q.answer = {} /\ q.after = Newest /\ q.before = 0 /\ q.pc = "asked"
    <3> HIDE DEF Newest
    <3> QED BY <2>2, ChatAssumption, IdleLoad DEF LoadRow
  <2>4. /\ load' = [load EXCEPT ![l] = q]
        /\ UNCHANGED <<lastSeq, lastRead, shown, more, readSeq, reports, overlaid>>
    BY <1>1 DEF AskNew
  <2> HIDE DEF q
  <2>5. Placed(q) /\ q.answer \subseteq 1..lastSeq /\ q.after <= lastSeq /\ q.before <= lastSeq
    BY <1>0, <2>1, <2>3 DEF Placed
  <2>6. load'[l] = q /\ load' \in [Loads -> LoadRow] /\ \A o \in Loads : o # l => load'[o] = load[o]
    BY <1>0, <2>3, <2>4
  <2> QED BY <2>3, <2>4, <2>5, <2>6, LoadStep
<1>2. CASE AskOlder(l)
  <2> DEFINE q == [NoLoad EXCEPT !.pc = "asked", !.before = Min(shown)]
  <2>1. Min(shown) \in 1..lastSeq /\ Min(shown) \in shown
    BY <1>0, <1>2, Bounds DEF AskOlder
  <2>2. Min(shown) \in 0..MaxMessages
    BY <1>0, <2>1, ChatAssumption
  <2>3. /\ q \in LoadRow /\ q.answer = {} /\ q.after = 0 /\ q.before = Min(shown) /\ q.pc = "asked"
    BY <2>2, IdleLoad DEF LoadRow
  <2>4. /\ load' = [load EXCEPT ![l] = q]
        /\ UNCHANGED <<lastSeq, lastRead, shown, more, readSeq, reports, overlaid>>
    BY <1>2 DEF AskOlder
  <2> HIDE DEF q
  <2>5. Placed(q) /\ q.answer \subseteq 1..lastSeq /\ q.after <= lastSeq /\ q.before <= lastSeq
    BY <1>0, <2>1, <2>3 DEF Placed
  <2>6. load'[l] = q /\ load' \in [Loads -> LoadRow] /\ \A o \in Loads : o # l => load'[o] = load[o]
    BY <1>0, <2>3, <2>4
  <2> QED BY <2>3, <2>4, <2>5, <2>6, LoadStep
<1>3. CASE ServeLoad(l)
  <2> DEFINE answer == ListMessages(load[l].after, load[l].before)
             q == [load[l] EXCEPT !.pc = "answered", !.answer = answer.seqs, !.more = answer.more]
  <2>1. /\ load[l].after \in Nat /\ load[l].before \in Nat /\ load[l].after <= lastSeq
        /\ load[l].before <= lastSeq /\ (load[l].after = 0 \/ load[l].before = 0)
    BY <1>0, ChatAssumption DEF ChatInv, Known, LoadRow
  <2>2. PICK a \in Nat, b \in 0..lastSeq :
          /\ answer.seqs = a..b /\ a > 0
          /\ load[l].after > 0 => a = load[l].after + 1
          /\ load[l].before > 0 => b = load[l].before - 1
    <3> DEFINE after == load[l].after
               before == load[l].before
    <3>1. after \in Nat /\ before \in Nat /\ (after = 0 \/ before = 0) /\ before <= lastSeq
      BY <2>1
    <3> HIDE DEF after, before
    <3>2. \E a \in Nat, b \in 0..lastSeq :
            /\ ListMessages(after, before).seqs = a..b /\ a > 0
            /\ after > 0 => a = after + 1
            /\ before > 0 => b = before - 1
      BY <1>0, <3>1, Stretch
    <3> QED BY <3>2 DEF after, before
  <2>3. answer.seqs \subseteq 1..lastSeq /\ answer.seqs \subseteq Seqs /\ b \in Nat
    BY <1>0, <2>2, ChatAssumption DEF Seqs
  <2>4. answer.more \in BOOLEAN
    BY DEF ListMessages
  <2>5. /\ load' = [load EXCEPT ![l] = q]
        /\ UNCHANGED <<lastSeq, lastRead, shown, more, readSeq, reports, overlaid>>
    BY <1>0, <1>3 DEF ServeLoad
  <2> HIDE DEF answer
  <2>6. /\ q \in LoadRow /\ q.answer = answer.seqs /\ q.pc = "answered"
        /\ q.after = load[l].after /\ q.before = load[l].before /\ q.stale = load[l].stale
    BY <1>0, <2>3, <2>4 DEF LoadRow
  <2> HIDE DEF q
  <2>7. ~q.stale => Placed(q)
    <3> SUFFICES ASSUME ~q.stale PROVE Placed(q)
      OBVIOUS
    <3>1. Placed(load[l])
      BY <1>3, <2>6 DEF ChatInv, ServeLoad
    <3> QED BY <2>2, <2>3, <2>6, <3>1 DEF Placed
  <2>8. load'[l] = q /\ load' \in [Loads -> LoadRow] /\ \A o \in Loads : o # l => load'[o] = load[o]
    BY <1>0, <2>5, <2>6
  <2> QED BY <2>1, <2>3, <2>5, <2>6, <2>7, <2>8, LoadStep
<1>4. CASE LoseLoad(l)
  BY <1>4, ForgetStep DEF LoseLoad
<1> QED BY <1>1, <1>2, <1>3, <1>4

\* The tab selects the conversation anew.
LEMMA SelectStep == ASSUME ChatInv, Select PROVE ChatInv'
<1>1. load \in [Loads -> LoadRow]
  BY ChatColumns DEF ChatInv
<1>2. ASSUME NEW l \in Loads
      PROVE  /\ load'[l] \in LoadRow /\ load'[l].answer = load[l].answer
             /\ load'[l].after = load[l].after /\ load'[l].before = load[l].before
             /\ load'[l].pc = "idle" \/ load'[l].stale
  <2>1. load[l] \in LoadRow
    BY <1>1
  <2>2. CASE load[l].pc = "idle"
    BY <2>1, <2>2 DEF Select
  <2>3. CASE load[l].pc # "idle"
    <3>1. load'[l] = [load[l] EXCEPT !.stale = TRUE]
      BY <2>3 DEF Select
    <3> QED BY <2>1, <3>1 DEF LoadRow
  <2> QED BY <2>2, <2>3
<1>3. load' \in [Loads -> LoadRow]
  <2>1. load' = [l \in Loads |-> load'[l]]
    BY DEF Select
  <2> QED BY <1>2, <2>1
<1>4. /\ UNCHANGED <<lastSeq, lastRead, reports>> /\ shown' = {} /\ more' = FALSE /\ readSeq' = 0
      /\ overlaid' = FALSE
  BY DEF Select
<1>5. ChatTypeOK'
  <2>1. 0 \in 0..MaxMessages
    BY ChatAssumption
  <2> QED BY <1>3, <1>4, <2>1 DEF ChatInv, ChatTypeOK, LoadRow
<1>6. Known'
  BY <1>2, <1>4 DEF ChatInv, Known
<1> QED BY <1>2, <1>4, <1>5, <1>6 DEF ChatInv, ShownWithoutHoles

\* An answer arrives.
LEMMA MergeStep ==
  ASSUME ChatInv, NEW l \in Loads, TakeAnswer(l)
  PROVE  ChatInv'
<1> DEFINE seqs == shown \cup load[l].answer
<1>0. /\ load \in [Loads -> LoadRow] /\ load[l] \in LoadRow /\ lastSeq \in Nat /\ lastSeq <= MaxMessages
      /\ load[l].answer \subseteq 1..lastSeq /\ shown \in SUBSET (1..lastSeq)
  BY ChatColumns, ChatAssumption DEF ChatInv, Known
<1>2. CASE load[l].stale
  BY <1>2, ForgetStep DEF TakeAnswer
<1>3. CASE ~load[l].stale
  <2>1. load[l].pc = "answered" /\ Merge(l)
    BY <1>3 DEF TakeAnswer
  <2>2. /\ shown' = seqs /\ UNCHANGED <<lastSeq, lastRead>>
        /\ more' = IF load[l].after > 0 THEN more ELSE load[l].more
        /\ overlaid' = (overlaid \/ (~(load[l].before > 0) /\ ~(load[l].after > 0) /\ shown # {}))
    BY <2>1 DEF Merge
  <2>3. seqs \in SUBSET (1..lastSeq) /\ seqs \subseteq Seqs
    BY <1>0, ChatAssumption DEF Seqs
  <2>4. seqs # {} => Max(seqs) \in seqs /\ Max(seqs) \in 1..lastSeq /\ Max(seqs) \in Seqs
    BY <1>0, <2>3, Bounds
  <2>5. Placed(load[l])
    BY <1>3, <2>1 DEF ChatInv
  <2>6. /\ load' \in [Loads -> LoadRow] /\ \A o \in Loads : o # l => load'[o] = load[o]
        /\ load'[l].answer = {} /\ load'[l].before = 0 /\ load'[l].after <= lastSeq
        /\ load'[l].pc # "answered" /\ (load'[l].after > 0 => load'[l].after \in seqs)
    <3>1. CASE load[l].after > 0 /\ load[l].more
      <4> DEFINE q == [NoLoad EXCEPT !.pc = "asked", !.after = Max(seqs)]
      <4>1. load' = [load EXCEPT ![l] = q]
        BY <2>1, <3>1 DEF Merge
      <4>2. Max(seqs) \in seqs /\ Max(seqs) \in 1..lastSeq /\ Max(seqs) \in 0..MaxMessages
        BY <1>0, <2>4, <2>5, <3>1, ChatAssumption DEF Placed, Seqs
      <4> HIDE DEF seqs
      <4>3. /\ q \in LoadRow /\ q.answer = {} /\ q.before = 0 /\ q.after = Max(seqs) /\ q.pc = "asked"
        BY <4>2, IdleLoad DEF LoadRow
      <4> HIDE DEF q
      <4>4. load'[l] = q /\ load' \in [Loads -> LoadRow] /\ \A o \in Loads : o # l => load'[o] = load[o]
        BY <1>0, <4>1, <4>3
      <4> QED BY <1>0, <4>2, <4>3, <4>4
    <3>2. CASE ~(load[l].after > 0 /\ load[l].more)
      <4>1. load' = [load EXCEPT ![l] = NoLoad]
        BY <2>1, <3>2 DEF Merge
      <4>2. /\ load'[l] = NoLoad /\ load' \in [Loads -> LoadRow]
            /\ \A o \in Loads : o # l => load'[o] = load[o]
        BY <1>0, <4>1, IdleLoad
      <4> QED BY <1>0, <4>2, IdleLoad
    <3> QED BY <3>1, <3>2
  <2>7. readSeq' \in 0..MaxMessages /\ reports' \subseteq Seqs
    <3>1. readSeq \in 0..MaxMessages /\ reports \subseteq Seqs
      BY DEF ChatInv, ChatTypeOK
    <3>2. UNCHANGED <<readSeq, reports>> \/ ReadVisible(seqs)
      BY <2>1 DEF Merge
    <3>3. seqs \in SUBSET Seqs
      BY <2>3
    <3> HIDE DEF seqs
    <3> QED BY <3>1, <3>2, <3>3, VisibleStep
  <2>8. ChatTypeOK'
    <3>1. more \in BOOLEAN /\ overlaid \in BOOLEAN /\ load[l].more \in BOOLEAN
      BY <1>0, ChatColumns DEF ChatInv, LoadRow
    <3>2. more' \in BOOLEAN /\ overlaid' \in BOOLEAN
      BY <2>2, <3>1
    <3>3. lastSeq' \in 0..MaxMessages /\ lastRead' \in 0..MaxMessages
      BY <2>2 DEF ChatInv, ChatTypeOK
    <3> QED BY <2>2, <2>3, <2>6, <2>7, <3>2, <3>3 DEF ChatTypeOK, LoadRow
  <2>9. Known'
    <3>1. load'[l].answer \subseteq 1..lastSeq /\ load'[l].before <= lastSeq
      BY <1>0, <2>6
    <3> HIDE DEF seqs
    <3> QED BY <2>2, <2>3, <2>6, <3>1 DEF ChatInv, Known
  <2>10. ASSUME NEW o \in Loads, load'[o].pc # "idle", ~load'[o].stale
         PROVE  Placed(load[o])'
    <3>1. CASE o = l
      BY <1>0, <2>2, <2>6, <3>1 DEF Placed
    <3>2. CASE o # l
      BY <2>2, <2>6, <2>10, <3>2 DEF ChatInv, Placed
    <3> QED BY <3>1, <3>2
  <2>11. ShownWithoutHoles'
    <3> SUFFICES ASSUME ~overlaid' PROVE \A m, n \in seqs : m..n \subseteq seqs
      BY <2>2 DEF ShownWithoutHoles
    <3>1. \A m, n \in shown : m..n \subseteq shown
      BY <2>2 DEF ChatInv, ShownWithoutHoles
    <3>2. PICK a \in Nat, b \in Nat : /\ load[l].answer = a..b
                                      /\ load[l].after > 0 => a = load[l].after + 1
                                      /\ load[l].before > 0 => b = load[l].before - 1
      BY <2>1, <2>5 DEF Placed
    <3>3. shown \in SUBSET Nat /\ load[l].after \in Nat /\ load[l].before \in Nat
      BY <1>0, ChatAssumption DEF LoadRow
    <3>4. CASE load[l].after > 0
      BY <2>5, <3>1, <3>2, <3>3, <3>4, Joined DEF Placed
    <3>5. CASE load[l].before > 0
      BY <2>5, <3>1, <3>2, <3>3, <3>5, Joined DEF Placed
    <3>6. CASE ~(load[l].after > 0) /\ ~(load[l].before > 0)
      <4>1. shown = {} /\ seqs = a..b
        BY <2>2, <3>2, <3>6
      <4> QED BY <4>1
    <3> QED BY <3>4, <3>5, <3>6
  <2> QED BY <2>8, <2>9, <2>10, <2>11 DEF ChatInv
<1> QED BY <1>2, <1>3

\* The invariant of the tab holds.
LEMMA ChatInvariant == ChatSpec => []ChatInv
<1>1. ChatInv /\ [ChatNext]_chatVars => ChatInv'
  <2> SUFFICES ASSUME ChatInv, [ChatNext]_chatVars PROVE ChatInv'
    OBVIOUS
  <2>1. CASE UNCHANGED chatVars
    BY <2>1 DEF chatVars, ChatInv, ChatTypeOK, Known, Placed, ShownWithoutHoles
  <2> QED BY <2>1, StoreStep, RequestStep, SelectStep, MergeStep DEF ChatNext
<1> QED BY <1>1, ChatStart, PTL DEF ChatSpec

\* The tab keeps its types.
THEOREM ChatTypeCorrect == ChatSpec => []ChatTypeOK
<1>1. ChatInv => ChatTypeOK
  BY DEF ChatInv
<1> QED BY <1>1, ChatInvariant, PTL

\* For pages of every size and any number of requests, what the tab shows has no holes.
THEOREM NoMessageIsSkipped == ChatSpec => []ShownWithoutHoles
<1>1. ChatInv => ShownWithoutHoles
  BY DEF ChatInv
<1> QED BY <1>1, ChatInvariant, PTL

=============================================================================
