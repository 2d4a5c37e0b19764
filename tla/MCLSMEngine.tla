----------------------------- MODULE MCLSMEngine ----------------------------
(* LSMEngine for TLC: the configurations give every constant its value.    *)
EXTENDS LSMEngine
=============================================================================
