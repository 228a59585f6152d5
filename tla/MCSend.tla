------------------------------- MODULE MCSend -------------------------------
(* Three threads and four sends: a completion, a sender that wins the flag   *)
(* and a sender that loses it can be in progress together, and a batch can   *)
(* hold several buffers while another one waits behind it.                   *)
EXTENDS SendPipeline

CONSTANTS t1, t2, t3

MCThreads == {t1, t2, t3}
=============================================================================
