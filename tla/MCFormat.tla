------------------------------ MODULE MCFormat ------------------------------
(* One format of at most 5 payload bytes, three topics, every token that    *)
(* message fields of six values can express.                                *)
EXTENDS Format
MCSizes == {0, 4, 5}
=============================================================================
