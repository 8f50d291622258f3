\* Five auth center addresses ("/" from an empty part), lists of one to
\* four of them; four
\* resources: two valid ones in a business and in the system scope, one
\* without a type and one adaptor rejects.
CONSTANTS
    ServerPool = {"a1/", "a2/", "a3/", "a4/", "/"}
    Addresses <- MCAddresses
    Slashed = {"a2/"}
    Res = {"h1", "h2", "u", "x"}
    Typed = {"h1", "h2", "x"}
    Named = {"h1"}
    AdaptorOk = {"h1", "h2", "u"}
    Biz <- MCBiz
    Absent = Absent
SPECIFICATION Spec
INVARIANTS
    TypeOK
    RoundRobin
    NoCallWithoutClient
