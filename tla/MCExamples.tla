------------------------------ MODULE MCExamples ------------------------------
(* Small instances of Examples for TLC. *)
EXTENDS Examples
===============================================================================
