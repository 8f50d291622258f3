------------------------- MODULE MC_AttributeGroup -------------------------
EXTENDS AttributeGroup

\* a group id of another business or of the same: n1 names a group that is
\* not the default one
MCGroupIds == {Default, "g1"}
MCNames == {Default, "n1"}
====
