----------------------------- MODULE MCFakeTcp ------------------------------
(* The client is restarted once, and its first numbers wrap. *)
EXTENDS FakeTcp

MCInitialSequence == [e \in Ends |-> IF e = "client" THEN <<14, 6>> ELSE <<3, 11>>]
MCMaxFrames == [e \in Ends |-> IF e = "client" THEN 3 ELSE 1]
=============================================================================
