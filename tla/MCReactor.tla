------------------------------ MODULE MCReactor ------------------------------
(* Small instances of Reactor for TLC.                                      *)
EXTENDS Reactor, TLC

CONSTANTS d1, d2, d3, f1, f2, f3, f4

ReadOnly == {{"POLLIN"}}
ReadWrite == {{"POLLIN"}, {"POLLIN", "POLLOUT"}}

InOut == {"POLLIN", "POLLOUT"}
InOnly == {"POLLIN"}

Sym12 == Permutations({d1, d2}) \cup Permutations({f1, f2, f3})
==============================================================================
