---------------------------- MODULE MCPolicySupply ----------------------------
EXTENDS PolicySupply

\* A usable rule set, one this host cannot validate, and no rules at all;
\* bounds stricter than the host's own and one that equals it.
Stored ==
  {[rules |-> 1, mode |-> "observe",  age |-> 1],
   [rules |-> 2, mode |-> "explicit", age |-> 0],
   [rules |-> 0, mode |-> "observe",  age |-> -1]}
MCUnusable == {2}
OwnConfig == [mode |-> "observe", age |-> -1]
=============================================================================
