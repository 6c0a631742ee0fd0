------------------------------ MODULE MCTrace ------------------------------
(* Objects of two kinds; by kind, by category, or both. *)
EXTENDS Trace

MCAsks == {[kinds |-> {"bucket"}, categories |-> {}], [kinds |-> {"vpc"}, categories |-> {"managed"}],
           [kinds |-> {}, categories |-> {"managed"}]}
MCKindOf == [o \in Traced |-> IF o = 1 THEN "bucket" ELSE "vpc"]
=============================================================================
