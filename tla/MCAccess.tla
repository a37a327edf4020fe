------------------------------ MODULE MCAccess ------------------------------
(* Access on a small instance: an administrator, an account that signs in with *)
(* Microsoft under two addresses, and one whose domain may be listed.          *)
EXTENDS Access, TLC

CONSTANTS boss, ana, neo, pana, pneo, inhouse, admin, consulta, r1, r2

Addresses == {boss, ana, neo}
People    == {pana, pneo}
Mails     == [p \in People |-> Addresses]
Domains   == {inhouse}
DomainsOf == [a \in Addresses |-> inhouse]
Seeds     == {boss, ana}
Roles     == {admin, consulta}
Firsts    == [a \in Seeds |-> IF a = boss THEN admin ELSE consulta]
Slots     == {r1, r2}

\* Persons differ in nothing: any of them may state any address.
AccessSymmetry == Permutations(Slots) \cup Permutations(People)
=============================================================================
