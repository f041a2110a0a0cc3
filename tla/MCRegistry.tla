----------------------------- MODULE MCRegistry -----------------------------
(* Model-checking instances of Registry: two servers that share a name, of which a
   user closes one beside its start(). *)
EXTENDS RegistryTCP

CONSTANTS s1, s2, n1, n2, start

SharedName == [s \in Server |-> IF s = s1 THEN {n1} ELSE Name]

BothCloseOne == [s \in Server |-> IF s = s1 THEN Closer ELSE {start}]
=============================================================================
