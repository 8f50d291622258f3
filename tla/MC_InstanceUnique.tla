------------------------- MODULE MC_InstanceUnique -------------------------
EXTENDS InstanceSetReads, TLC

\* a constraint on ip alone, skipped when ip is empty; one on ip and name
\* that MustCheck keeps even with an empty value; one with a key that
\* idToProperty does not know
uIp == [keys |-> {"ip"}, must |-> FALSE]
uIpName == [keys |-> {"ip", "name"}, must |-> TRUE]
uBad == [keys |-> {"ip", "k9"}, must |-> FALSE]

\* the two checked together, or one whose key check fails (with no
\* constraint at all the validator returns nil and nothing is checked)
MCUniqueSets == {{uIp, uIpName}, {uBad}}

\* the requests are interchangeable: no property names one of them
MCSymmetry == Permutations(Reqs)
====
