---------------------------- MODULE MCResolution ----------------------------
(* Instances of ZoneModel with its lookups for TLC. *)
EXTENDS Resolution, TLC

MCZones == {"z1", "z2", "z3"}

\* z1 has two names, one inside the other; z2 is ambiguous below z3 only.
MCDomainNames ==
    [z1 |-> {<<"d">>, <<"b", "d">>}, z2 |-> {<<"a">>}, z3 |-> {<<"c">>, <<"a", "c">>}]

Entry(zone, names, ns) == [zone |-> zone, names |-> names, ns |-> ns, addressed |-> ~ns]

MCEntries ==
    {Entry("z1", {<<"x">>}, TRUE), Entry("z1", {<<"y", "x">>}, FALSE),
     Entry("z2", {<<"x">>, <<"y">>}, FALSE), Entry("z2", {<<"y", "y">>}, TRUE),
     Entry("z3", {<<"y", "x">>}, FALSE)}

\* Hosts below one zone, below a nested one, and below two levels of nesting.
MCQueries ==
    {h \o z : h \in {<<>>, <<"x">>, <<"y", "x">>, <<"z", "y", "y">>},
              z \in {<<"d">>, <<"a", "d">>, <<"a", "b", "d">>, <<"c", "a", "b", "d">>,
                     <<"a", "c", "d">>, <<"b", "d", "a">>, <<"d", "a", "c">>}}

ObjSymmetry == Permutations(Obj)
=============================================================================
