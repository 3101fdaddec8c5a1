--------------------------- MODULE MCDomainFiles ---------------------------
(* DomainFiles for TLC: ids, ports and files are interchangeable, domains  *)
(* are numbered in the order of their creation.                            *)
EXTENDS DomainFiles, TLC

ThreeDomains == 1 .. 3
TwoDomains == 1 .. 2

Symmetry == Permutations(Ids) \cup Permutations(Ports) \cup Permutations(Files)
=============================================================================
