\* One object, the default group and one other, one business label, three
\* concurrent requests and up to four store writes: an attribute naming g1
\* on an object without groups, or with only the default group, and an
\* update moving an attribute to a group its object lacks, are in reach.
CONSTANTS
    Objs = {"o1"}
    GroupIds <- MCGroupIds
    Names <- MCNames
    Default = "default"
    Labels = {"b1"}
    NoLabel = NoLabel
    Reqs = {r1, r2, r3}
    MaxClock = 4
SPECIFICATION Spec
INVARIANT
    AttrGroupExists
