------------------------------ MODULE MCStartup ------------------------------
(***************************************************************************)
(* An instance of Startup for TLC.                                         *)
(***************************************************************************)
EXTENDS StartupProperties, TLC
CONSTANTS p1, p2, k1, k2, a, b, c

TwoProcesses == {p1, p2}
TwoKeys      == {k1, k2}
MCCredentials == {a, b, c}
\* One key twice, in the file and in the list.
MCLegacyKeys == <<a, b, a>>

x  == <<"x">>
ax == <<"A", "/", "x">>
ay == <<"A", "/", "y">>
\* "C/A/x" is "A/x" for short, which is another model.
cax == <<"C", "/", "A", "/", "x">>
\* Variants that have one short name.
axfree == <<"A", "/", "x", ":", "free">>
bxfree == <<"B", "/", "x", ":", "free">>
\* A model named like the runner id of A/x.
aax == <<"A", ":", "A", "/", "x">>

MCCatalogs == {{ax, ay, axfree}, {ax, bxfree, cax}, {x, ax, cax, ay, aax}}
MCDefault == <<"B", ":", "B", "/", "x", ":", "free">>
\* One alias of a model and one that takes another's public id.
MCAliases == [id \in {<<"fast">>, <<"y">>} |-> <<"A", ":", "A", "/", "x">>]

Symmetry == Permutations(Processes) \cup Permutations(MasterKeys)
=============================================================================
