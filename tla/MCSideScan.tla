----------------------------- MODULE MCSideScan -----------------------------
(* Two kinds of situations: every set of rules, with a restriction, an       *)
(* exclusion or an ignored name, on a tree nobody touches and the snapshot   *)
(* knows; and no rules, with users that interfere and files to hash.   Two    *)
(* directories side by side are read at a time, one has another in it.       *)
EXTENDS SideScan

MCDirs == {<<1>>, <<2>>, <<2, 1>>}
QuietTree == MCDirs \cup {<<1, 1>>, <<2, 1, 1>>}
MCPaths == QuietTree \cup {<<3>>}

Rules(S) == {r \in [MCPaths \cup {Root} -> {"include", "exclude", "none"}] :
               r[Root] # "none" /\ \A p \in MCPaths \ S : r[p] = "none"}
NoRules == CHOOSE r \in Rules({}) : r[Root] = "include"

Scopes == {[restrict |-> Root, excludes |-> {}, ignored |-> {}],
           [restrict |-> Root, excludes |-> {}, ignored |-> {2}],
           [restrict |-> <<2, 1>>, excludes |-> {}, ignored |-> {}],
           [restrict |-> <<2>>, excludes |-> {<<2, 1>>}, ignored |-> {}]}
Everything == [restrict |-> Root, excludes |-> {}, ignored |-> {}]

MCInputs ==
  {[tree |-> QuietTree, known |-> QuietTree \ MCDirs, edits |-> 0, rules |-> r, scope |-> s] :
     r \in Rules(QuietTree), s \in Scopes}
  \cup
  {[tree |-> MCPaths, known |-> {<<3>>}, edits |-> MaxEdits, rules |-> NoRules,
    scope |-> Everything]}
=============================================================================
