-------------------------- MODULE MC_ServerStartup --------------------------
EXTENDS ServerStartup

cFull1 == [ready |-> TRUE, mongo |-> "m1", redis |-> "r1", auth |-> "sync"]
cFull2 == [ready |-> TRUE, mongo |-> "m2", redis |-> "r2", auth |-> "on"]
cNoRedis == [ready |-> TRUE, mongo |-> "m1", redis |-> "", auth |-> "off"]

\* a complete configuration with auth and its synchroniser on, and one
\* without Redis, auth off
MCConfigs == {cFull1, cNoRedis}

\* two complete configurations that differ in every field read
MCConfigsTwo == {cFull1, cFull2}

MCZero == [ready |-> FALSE, mongo |-> "", redis |-> "", auth |-> "off"]
====
