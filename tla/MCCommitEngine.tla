--------------------------- MODULE MCCommitEngine ---------------------------
(* TLC instances of CommitEngine: a directory d with a file, a directory in *)
(* it, and an ignored entry that may hold an excluded one.                  *)
EXTENDS CommitEngine

MCOrder == <<"d", "d/f", "d/i", "d/i/x", "d/s">>
MCParent == [p \in {"d", "d/f", "d/i", "d/i/x", "d/s"} |->
               CASE p = "d" -> "." [] p = "d/i/x" -> "d/i" [] OTHER -> "d"]
MCClass == [p \in {"d", "d/f", "d/i", "d/i/x", "d/s"} |->
              CASE p = "d/i" -> "ignored" [] p = "d/i/x" -> "excluded" [] OTHER -> "plain"]

(* Every change of one path the program plans, and no change.              *)
Old(k) == Leaf(k, "old")
Rw == Folder("old", TRUE)
Ro == Folder("old", FALSE)
FolderPairs ==
  {<<Absent, Absent>>, <<Absent, Folder("new", TRUE)>>, <<Absent, Folder("new", FALSE)>>,
   <<Rw, Rw>>, <<Ro, Ro>>, <<Rw, Absent>>, <<Ro, Absent>>, <<Rw, Folder("new", FALSE)>>,
   <<Ro, Folder("new", TRUE)>>, <<Old("file"), Folder("new", TRUE)>>,
   <<Old("link"), Folder("new", TRUE)>>}
SubPairs == {<<Absent, Absent>>, <<Absent, Folder("new", TRUE)>>, <<Rw, Absent>>, <<Rw, Rw>>,
             <<Old("file"), Folder("new", TRUE)>>}
LeafPairs ==
  {<<Absent, Absent>>, <<Absent, Leaf("file", "new")>>, <<Absent, Leaf("link", "new")>>,
   <<Old("file"), Absent>>, <<Old("file"), Leaf("file", "new")>>,
   <<Old("file"), Leaf("file", "meta")>>, <<Old("file"), Leaf("link", "new")>>,
   <<Old("link"), Leaf("file", "new")>>, <<Old("link"), Leaf("link", "new")>>,
   <<Old("link"), Leaf("link", "same")>>}
StrayPairs == {<<Absent, Absent>>, <<Rw, Rw>>, <<Old("file"), Old("file")>>}
BelowPairs == {<<Absent, Absent>>, <<Old("file"), Old("file")>>}

Pairs == [d : FolderPairs, f : LeafPairs, i : StrayPairs, x : BelowPairs, s : SubPairs]
Side(r, n) == [p \in {"d", "d/f", "d/i", "d/i/x", "d/s"} |->
                 CASE p = "d" -> r.d[n] [] p = "d/f" -> r.f[n] [] p = "d/i" -> r.i[n]
                   [] p = "d/i/x" -> r.x[n] [] OTHER -> r.s[n]]

(* Both trees are trees, but for a directory outside the scope of a partial *)
(* sync that the other side has and this one lacks.                        *)
Rooted(t) == \A p \in DOMAIN t : Exists(t[p]) /\ MCParent[p] # "." => IsDir(t[MCParent[p]])
Sensible(r) ==
  /\ Rooted(Side(r, 1))
  /\ \/ Rooted(Side(r, 2))
     \/ ~Exists(r.d[1]) /\ ~Exists(r.d[2])
     \/ /\ r.d[2] = Absent /\ r.f[2] = Absent /\ r.s[2] = Absent
  /\ r.d[1] = r.d[2] \/ r.f[1] # r.f[2] \/ r.s[1] # r.s[2] \/ r.i[1] # Absent \/ r.f[1] = Absent

MCScenarios ==
  {[from |-> Side(r, 1), to |-> Side(r, 2), readonly |-> ro, prune |-> pr] :
     r \in {q \in Pairs : Sensible(q)}, ro \in {{}, {"d"}}, pr \in BOOLEAN}
MCFew == {s \in MCScenarios : /\ s.readonly # {} => s.from["d"] = Ro /\ s.to["d"] = Ro
                              /\ s.prune => Exists(s.from["d/i"]) /\ ~Exists(s.to["d"])}
=============================================================================
