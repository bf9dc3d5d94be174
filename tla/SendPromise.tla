----------------------------- MODULE SendPromise -----------------------------
(***************************************************************************)
(* What the outbox promises the sender of a message, without saying how:   *)
(* the message may leave once, and once more each time the sender accepts  *)
(* the risk of a duplicate or is told that nothing was sent; it is closed  *)
(* (shown as accepted) only when a copy did leave, and only such a denial  *)
(* reopens it.  Outbox implements it: see PromiseKept there.               *)
(***************************************************************************)
EXTENDS Naturals
CONSTANT Keys
VARIABLES granted,  \* how many copies the sender has agreed to
          copies,   \* how many have left
          closed    \* messages shown as accepted

Init ==
  /\ granted = [k \in Keys |-> 1]
  /\ copies = [k \in Keys |-> 0]
  /\ closed = [k \in Keys |-> FALSE]

Transmit(k) ==
  /\ copies[k] < granted[k]
  /\ copies' = [copies EXCEPT ![k] = @ + 1]
  /\ UNCHANGED <<granted, closed>>

Acknowledge(k) ==
  /\ ~closed[k]
  /\ granted' = [granted EXCEPT ![k] = @ + 1]
  /\ UNCHANGED <<copies, closed>>

Close(k) ==
  /\ copies[k] > 0
  /\ closed' = [closed EXCEPT ![k] = TRUE]
  /\ UNCHANGED <<granted, copies>>

\* The message is reported as not sent, whether or not it was: the sender may send again.
Disclaim(k) ==
  /\ granted' = [granted EXCEPT ![k] = @ + 1]
  /\ closed' = [closed EXCEPT ![k] = FALSE]
  /\ UNCHANGED copies

Next == \E k \in Keys : Transmit(k) \/ Acknowledge(k) \/ Close(k) \/ Disclaim(k)
Spec == Init /\ [][Next]_<<granted, copies, closed>>
=============================================================================
