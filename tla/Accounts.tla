------------------------------ MODULE Accounts ------------------------------
(***************************************************************************)
(* The accounts of an instance: first setup, an administrator's requests   *)
(* to add, promote, demote and delete users (server auth.ts and the admin  *)
(* routes), and mail that arrives for a user while he is deleted           *)
(* (insertEmail, insertAttachments).                                       *)
(*                                                                         *)
(* An await is a step, a batch is atomic, and an invocation may end at any *)
(* await.  Who asks is an administrator when the request is accepted; by   *)
(* the time it acts he may be one no longer.  Foreign keys are enforced.   *)
(***************************************************************************)
EXTENDS Naturals, FiniteSets

CONSTANTS
  Users,      \* user ids, never used twice, each with an email address of its own
  Workers,    \* requests of administrators at the same time
  Objects     \* attachments that arrive, one to a message

ASSUME AccountsAssumption == IsFiniteSet(Users)

VARIABLES
  user,       \* users: is_admin and must_change_password
  worker,     \* requests, and the keys a deletion has collected
  arrival,    \* a message on its way in: its user, and how far it got
  mailed,     \* emails rows
  attached,   \* email_attachments rows
  bucket,     \* objects in R2
  committed,  \* history: attachments that had a row
  stray,      \* history: objects whose deletion was rejected, and logged
  leaked,     \* history: objects left behind when a purge ended before its answers were in
  undone      \* history: a new administrator was taken back

accountVars == <<user, worker, arrival, mailed, attached, bucket, committed, stray, leaked, undone>>

Nobody == "nobody"
NoUser == [is |-> "unused", admin |-> FALSE, pending |-> FALSE]
Gone == [NoUser EXCEPT !.is = "gone"]
Unasked == [pc |-> "idle", target |-> Nobody, admin |-> FALSE, keys |-> {}]

AccountTypeOK ==
  /\ user \in [Users -> [is : {"unused", "there", "gone"}, admin : BOOLEAN, pending : BOOLEAN]]
  /\ worker \in [Workers -> [pc : {"idle", "count", "bootstrap", "create", "address", "rollback",
                                   "promote", "demote", "delete", "purge"},
                             target : Users \cup {Nobody}, admin : BOOLEAN,
                             keys : SUBSET Objects]]
  /\ arrival \in [Objects -> [pc : {"out", "put", "attach", "done"}, to : Users \cup {Nobody}]]
  /\ mailed \subseteq Objects /\ attached \subseteq mailed /\ bucket \subseteq Objects
  /\ committed \subseteq Objects /\ stray \subseteq Objects /\ leaked \subseteq Objects
  /\ undone \in BOOLEAN

AccountInit ==
  /\ user = [u \in Users |-> NoUser]
  /\ worker = [w \in Workers |-> Unasked]
  /\ arrival = [o \in Objects |-> [pc |-> "out", to |-> Nobody]]
  /\ mailed = {} /\ attached = {} /\ bucket = {}
  /\ committed = {} /\ stray = {} /\ leaked = {} /\ undone = FALSE

Present == {u \in Users : user[u].is = "there"}
Admins == {u \in Present : user[u].admin}
\* Who may ask: a temporary password opens nothing but its own replacement.
Askers == {u \in Admins : ~user[u].pending}

Stays == UNCHANGED <<arrival, mailed, attached, bucket, committed, stray, leaked, undone>>
Take(w, pc, target, admin) ==
  /\ worker[w].pc = "idle"
  /\ worker' = [worker EXCEPT ![w] = [Unasked EXCEPT !.pc = pc, !.target = target, !.admin = admin]]
  /\ UNCHANGED user /\ Stays
Finish(w) == worker' = [worker EXCEPT ![w] = Unasked]
Advance(w, pc) == worker' = [worker EXCEPT ![w].pc = pc]

-----------------------------------------------------------------------------
(* Setup *)

\* POST /api/setup: nobody is there yet.
AskSetup(w, u) == Present = {} /\ user[u] = NoUser /\ Take(w, "count", u, TRUE)
\* bootstrapAdmin counts again.
Count(w) ==
  /\ worker[w].pc = "count"
  /\ IF Present = {} THEN Advance(w, "bootstrap") ELSE Finish(w)
  /\ UNCHANGED user /\ Stays
\* createUser; an email address is taken once.
Bootstrap(w) ==
  /\ worker[w].pc = "bootstrap"
  /\ LET u == worker[w].target IN
       user' = IF user[u].is # "unused" THEN user
               ELSE [user EXCEPT ![u] = [is |-> "there", admin |-> TRUE, pending |-> FALSE]]
  /\ Finish(w) /\ Stays

-----------------------------------------------------------------------------
(* Administrators *)

\* POST /api/admin/users
AskCreate(w, u, admin) == Askers # {} /\ user[u] = NoUser /\ Take(w, "create", u, admin)
Create(w) ==
  /\ worker[w].pc = "create"
  /\ LET u == worker[w].target IN
       IF user[u].is # "unused" THEN Finish(w) /\ UNCHANGED user
       ELSE /\ user' = [user EXCEPT ![u] =
                 [is |-> "there", admin |-> worker[w].admin, pending |-> TRUE]]
            /\ Advance(w, "address")
  /\ Stays
\* createAddress, which may fail.
Address(w) ==
  /\ worker[w].pc = "address"
  /\ Finish(w) \/ Advance(w, "rollback")
  /\ UNCHANGED user /\ Stays
\* deletePendingUser
Rollback(w) ==
  /\ worker[w].pc = "rollback"
  /\ LET u == worker[w].target
         deletes == u \in Present /\ user[u].pending
     IN /\ user' = IF deletes THEN [user EXCEPT ![u] = Gone] ELSE user
        /\ undone' = (undone \/ (deletes /\ user[u].admin))
  /\ Finish(w)
  /\ UNCHANGED <<arrival, mailed, attached, bucket, committed, stray, leaked>>

\* The user logs in for the first time and sets a password.
FirstLogin(u) ==
  /\ u \in Present /\ user[u].pending
  /\ user' = [user EXCEPT ![u].pending = FALSE]
  /\ UNCHANGED worker /\ Stays

\* PATCH /api/admin/users/[id] up to the read of the target; nobody changes himself.
AskRole(w, u, admin) ==
  /\ Askers \ {u} # {} /\ u \in Present
  /\ Take(w, IF admin THEN "promote" ELSE "demote", u, admin)
Promote(w) ==
  /\ worker[w].pc = "promote"
  /\ LET u == worker[w].target IN
       user' = IF u \in Present THEN [user EXCEPT ![u].admin = TRUE] ELSE user
  /\ Finish(w) /\ Stays

\* The last administrator stays one.
Spared(u) == user[u].admin /\ Cardinality(Admins) <= 1

\* Wrong on purpose: the UPDATE trusts that the one who asked still is an administrator.
DemoteAnyway(w) ==
  /\ worker[w].pc = "demote"
  /\ LET u == worker[w].target IN
       user' = IF u \in Present THEN [user EXCEPT ![u].admin = FALSE] ELSE user
  /\ Finish(w) /\ Stays

Demote(w) ==
  /\ worker[w].pc = "demote"
  /\ LET u == worker[w].target IN
       user' = IF u \in Present /\ ~Spared(u) THEN [user EXCEPT ![u].admin = FALSE] ELSE user
  /\ Finish(w) /\ Stays

-----------------------------------------------------------------------------
(* Deletion *)

\* DELETE /api/admin/users/[id] up to the read of the target.
AskDelete(w, u) == Askers \ {u} # {} /\ u \in Present /\ Take(w, "delete", u, FALSE)

Of(u) == {o \in mailed : arrival[o].to = u}

\* Wrong on purpose: the keys are collected when the rows are gone.
DeleteUserFirst(w) ==
  /\ worker[w].pc = "delete"
  /\ LET u == worker[w].target IN
       IF u \notin Present \/ Spared(u)
       THEN Finish(w) /\ UNCHANGED <<user, mailed, attached>>
       ELSE /\ user' = [user EXCEPT ![u] = Gone]
            /\ mailed' = mailed \ Of(u)
            /\ attached' = attached \ Of(u)
            /\ worker' = [worker EXCEPT ![w].pc = "purge", ![w].keys = attached' \cap Of(u)]
  /\ UNCHANGED <<arrival, bucket, committed, stray, leaked, undone>>

\* deleteUser's batch: the keys, the user, and what belongs to him.
DeleteUser(w) ==
  /\ worker[w].pc = "delete"
  /\ LET u == worker[w].target IN
       IF u \notin Present \/ Spared(u)
       THEN Finish(w) /\ UNCHANGED <<user, mailed, attached>>
       ELSE /\ worker' = [worker EXCEPT ![w].pc = "purge", ![w].keys = attached \cap Of(u)]
            /\ user' = [user EXCEPT ![u] = Gone]
            /\ mailed' = mailed \ Of(u)
            /\ attached' = attached \ Of(u)
  /\ UNCHANGED <<arrival, bucket, committed, stray, leaked, undone>>

\* Promise.allSettled: an object is deleted, or its rejection is logged.
Purge(w) ==
  /\ worker[w].pc = "purge"
  /\ \E failed \in SUBSET worker[w].keys :
       /\ bucket' = bucket \ (worker[w].keys \ failed)
       /\ stray' = stray \cup failed
  /\ Finish(w)
  /\ UNCHANGED <<user, arrival, mailed, attached, committed, leaked, undone>>

\* The invocation ends where it is, or the batch's answer is lost and an error ends it.  Some of
\* a purge's deletions may have been carried out; nothing tells of the others.
WorkerDies(w) ==
  /\ worker[w].pc # "idle"
  /\ \E deleted \in SUBSET worker[w].keys :
       /\ bucket' = bucket \ deleted
       /\ leaked' = leaked \cup (worker[w].keys \ deleted)
  /\ Finish(w)
  /\ UNCHANGED <<user, arrival, mailed, attached, committed, stray, undone>>

-----------------------------------------------------------------------------
(* Mail that arrives *)

StoreMail(o, u) ==
  /\ arrival[o].pc = "out" /\ u \in Present
  /\ mailed' = mailed \cup {o}
  /\ arrival' = [arrival EXCEPT ![o] = [pc |-> "put", to |-> u]]
  /\ UNCHANGED <<user, worker, attached, bucket, committed, stray, leaked, undone>>
PutObject(o) ==
  /\ arrival[o].pc = "put"
  /\ bucket' = bucket \cup {o}
  /\ arrival' = [arrival EXCEPT ![o].pc = "attach"]
  /\ UNCHANGED <<user, worker, mailed, attached, committed, stray, leaked, undone>>
\* Wrong on purpose: the row is inserted whether or not its message is there.
AttachAnyway(o) ==
  /\ arrival[o].pc = "attach"
  /\ attached' = attached \cup {o}
  /\ committed' = committed \cup {o}
  /\ arrival' = [arrival EXCEPT ![o].pc = "done"]
  /\ UNCHANGED <<user, worker, mailed, bucket, stray, leaked, undone>>

\* The row needs its message; without one the INSERT fails.
Attach(o) ==
  /\ arrival[o].pc = "attach"
  /\ attached' = attached \cup ({o} \cap mailed)
  /\ committed' = committed \cup ({o} \cap mailed)
  /\ arrival' = [arrival EXCEPT ![o].pc = "done"]
  /\ UNCHANGED <<user, worker, mailed, bucket, stray, leaked, undone>>

AccountNext ==
  \/ \E w \in Workers :
       \/ \E u \in Users :
            \/ AskSetup(w, u) \/ AskDelete(w, u)
            \/ \E admin \in BOOLEAN : AskCreate(w, u, admin) \/ AskRole(w, u, admin)
       \/ Count(w) \/ Bootstrap(w) \/ Create(w) \/ Address(w) \/ Rollback(w)
       \/ Promote(w) \/ Demote(w) \/ DeleteUser(w) \/ Purge(w) \/ WorkerDies(w)
  \/ \E u \in Users : FirstLogin(u)
  \/ \E o \in Objects : PutObject(o) \/ Attach(o) \/ \E u \in Users : StoreMail(o, u)

AccountSpec == AccountInit /\ [][AccountNext]_accountVars

-----------------------------------------------------------------------------
(* Properties *)

\* An instance that has been set up keeps an administrator, however administrators demote and
\* delete each other at the same time.  One way remains: the last administrator is a new one
\* whose mailbox could not be made, and taking him back asks for no other.
LastAdminKept == Present # {} => Admins # {} \/ undone

\* Deleting a user purges exactly his attachments: one that had a row and lost it is deleted,
\* about to be, or logged, whenever it arrived, unless the deletion's invocation ended before
\* its answers were in; and no object goes that a row still names.
PurgeIsExact ==
  /\ attached \subseteq bucket
  /\ \A o \in committed \cap bucket :
       \/ o \in attached \cup stray \cup leaked
       \/ \E w \in Workers : o \in worker[w].keys

=============================================================================
