----------------------------- MODULE MCInbound -----------------------------
(* Instances of Inbound: messages, envelope recipients and invocations are model values. *)
EXTENDS Inbound
CONSTANTS m1, m2, e1, e2, h1, h2
=============================================================================
