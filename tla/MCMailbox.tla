----------------------------- MODULE MCMailbox -----------------------------
(* Instances of Mailbox for TLC. *)
EXTENDS Mailbox, TLC

MailSymmetry == Permutations(Mails) \cup Permutations(Hands)
=============================================================================
