------------------------------ MODULE MCRunTranscript ------------------------------
(* Two messages may say the same, one may begin as another ended or as the   *)
(* whole run, and all may differ.                                            *)
EXTENDS RunTranscript

MCWord == <<1, 1, 2>>
=============================================================================
