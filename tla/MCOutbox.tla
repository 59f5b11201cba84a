------------------------------- MODULE MCOutbox -------------------------------
(* Small instances of Outbox: a reset code and a receipt, the sweep and one      *)
(* immediate send.                                                               *)
EXTENDS Outbox

CONSTANTS code, receipt, f1
=============================================================================
