------------------------------- MODULE MCLlp -------------------------------
(* Two nodes; one of them talks. *)
EXTENDS LlpInv

MCSides   == {"host", "radio"}
OneTalker == {"host"}
MCMajors  == [host |-> {1}, radio |-> {1, 2}]
OneEach   == [line |-> 1, node |-> 1]
=============================================================================
