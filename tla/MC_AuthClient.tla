---------------------------- MODULE MC_AuthClient ----------------------------
EXTENDS AuthClient

\* strings.Split of "a1", "a2,a1", "a1,a2/,a3", "a4,a3,a2/,a1", "" and
\* ",a1"; a value such as "," that names one server twice is left out, as
\* RoundRobin tells the servers apart by address
MCAddresses == {<<"a1">>, <<"a2", "a1">>, <<"a1", "a2/", "a3">>,
                <<"a4", "a3", "a2/", "a1">>, <<"">>, <<"", "a1">>}

MCBiz == [h1 |-> 1, h2 |-> 0, u |-> 1, x |-> 0]
====
