------------------------ MODULE MCMessageProcessing -------------------------
(* Instances of MessageProcessing for TLC.                                 *)
EXTENDS MessageProcessing

CONSTANTS w1, w2, good, text, poison, event  \* model values: workers and messages

=============================================================================
