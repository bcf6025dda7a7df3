---------------------------- MODULE MCAuthority ----------------------------
EXTENDS Authority
\* Two destinations, a file under the safety floor and one that is not.
SomeResources == {"h1", "h2", "key", "doc"}
SomeFloor == {"key"}
Everything == SomeResources \cup {NoResource}
\* A standing certificate with a custom capability, one of another workspace
\* with a list of domains that expires, and a scoped one of the Actor's, whose
\* scope names the other workspace and which cannot be verified offline.
SomeTemplates == {
  [caps |-> {"net", "file", "x"}, scope |-> Everything, domains |-> {},
   workspaces |-> {}, ttl |-> 0, offline |-> TRUE],
  [caps |-> {"net"}, scope |-> {"h1", "h2"}, domains |-> {"h1"},
   workspaces |-> {"w2"}, ttl |-> 1, offline |-> TRUE],
  [caps |-> {"file"}, scope |-> {"key"}, domains |-> {},
   workspaces |-> {"w1", "w2"}, ttl |-> 0, offline |-> FALSE]}
Rule(s, c, e) == [subject |-> s, covers |-> c, effect |-> e]
SomeRuleSets == {
  {},
  {Rule("any", {"h1"}, "deny"), Rule("any", {"h1", "h2"}, "allow")},
  {Rule("agent", {"h1"}, "deny"), Rule("bot", {"h2"}, "deny"),
   Rule("any", {"h2"}, "allow")},
  {Rule("any", {"key"}, "allow")},
  {Rule("any", {"doc"}, "deny")}}
SomeActions == [cap : {"net"}, res : {"h1", "h2"}] \cup [cap : {"file"}, res : {"key", "doc"}]
               \cup {[cap |-> "x", res |-> NoResource]}
SomeCallers == [governed : BOOLEAN, workload : {"bot", "other"}]
=============================================================================
