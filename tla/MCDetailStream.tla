--------------------------- MODULE MCDetailStream ---------------------------
(* TLC instances of DetailStream: jobs of a few actions and a few bytes.    *)
EXTENDS DetailStream

Act(path, s, out, old, new) ==
  [path |-> path, side |-> s, dir |-> FALSE, flip |-> "none", out |-> out,
   size |-> IF out = "none" THEN 0 ELSE Len(new), old |-> old, new |-> new]
Folder(path, s, flip) ==
  [path |-> path, side |-> s, dir |-> TRUE, flip |-> flip, out |-> "none", size |-> 0,
   old |-> Gone, new |-> Gone]
Everything == {"batches", "staged", "checkpoints", "inodes"}
Job(as, l, r) ==
  [acts |-> as, free |-> [local |-> l, remote |-> r], reserve |-> 2, limit |-> -1,
   cow |-> [local |-> FALSE, remote |-> FALSE], inodes |-> [local |-> 9, remote |-> 9],
   caps |-> Everything, configured |-> FALSE, migration |-> FALSE, dry |-> FALSE, noise |-> 0]
Cow(j) == [j EXCEPT !.cow = [local |-> TRUE, remote |-> TRUE]]

Words(n) == UNION {[1..k -> {"a", "b"}] : k \in 0..n}
AB == <<"a", "b">>
Grown == <<"a", "b", "a", "b", "b">>

(* One diff, of every old file and every new one, and one whose last block  *)
(* is there again; copied or cloned.                                        *)
Pairs == {<<x, y>> : x, y \in Words(4)} \cup
           {<<x, x \o SubSeq(x, 3, 4)>> : x \in [1..4 -> {"a", "b"}]}
OneDiff(c) == Job(<<Act(<<1>>, "local", "diff", c[1], c[2])>>, 9, 9)
Copied == {OneDiff(c) : c \in {d \in Pairs : d[1] # d[2]}}
Deltas == Copied \cup {Cow(j) : j \in Copied}

(* Traffic in both directions, with a user or another program in between.   *)
Mixed == <<Act(<<1>>, "local", "diff", <<"b", "a", "b">>, <<"b", "a", "a", "b">>),
           Act(<<2>>, "remote", "file", Gone, AB),
           Act(<<3>>, "local", "file", Gone, <<"b">>)>>
Disturbed ==
  {[Cow(Job(Mixed, f, 9)) EXCEPT !.noise = n, !.limit = m, !.cow["local"] = c] :
     f \in {4, 5, 9}, n \in {1, 2}, m \in {-1, 4}, c \in BOOLEAN}

(* Little space: outputs at the edge of the reserve, and several waves.     *)
Tight ==
  {[Cow(Job(<<Act(<<1>>, "local", "diff", x, y), Act(<<2>>, "local", "file", Gone, z)>>, f, 9))
      EXCEPT !.cow["local"] = c, !.limit = m] :
     x \in {<<"b", "a", "b">>, Grown}, y \in {Grown, <<"a", "b", "a">>, <<"b", "b", "a", "b", "a">>},
     z \in {<<"b">>, AB}, f \in 1..8, c \in BOOLEAN, m \in {-1, 2, 4}}
Tighter == {j \in Tight : j.acts[1].old # j.acts[1].new}

(* A clone with changes that lie across the blocks it shares.               *)
Eight == <<"a", "a", "b", "b", "c", "c", "d", "d", "e", "e", "f", "f", "g", "g", "h", "h">>
Touches == [n \in 1..16 |-> IF n \in {3, 4, 9, 10, 15, 16} THEN "z" ELSE Eight[n]]
Across == {Cow(Job(<<Act(<<1>>, "local", "diff", Eight, Touches)>>, f, 9)) : f \in 3..9}

(* Plans only: actions of every kind under one directory and beside it.     *)
Kinds(p) ==
  {Act(p, s, "file", Gone, SubSeq(Grown, 1, n)) : s \in Sides, n \in {0, 2, 3}}
    \cup {Act(p, s, "diff", AB, SubSeq(Grown, 1, 4)) : s \in Sides}
    \cup {Act(p, "local", "none", AB, Gone), Folder(p, "both", "none")}
Tops == {Folder(<<1>>, "local", f) : f \in {"none", "seen", "applied"}}
          \cup {Act(<<1>>, "remote", "file", Gone, AB)}
Plans ==
  {[Job(<<t, x, y>>, f, g) EXCEPT !.limit = m, !.dry = TRUE, !.cow["local"] = c] :
     t \in Tops, x \in Kinds(<<1, 1>>), y \in Kinds(<<2>>), f \in {2, 4, 9}, g \in {3, 9},
     m \in {-1, 2}, c \in BOOLEAN}
(* The peers and controls that a strategy depends on.                       *)
Peers ==
  {[Job(<<t, Act(<<2>>, "remote", "file", Gone, AB), Act(<<3>>, "local", "file", Gone, AB),
           Act(<<4>>, "local", "diff", AB, <<"a">>)>>, 9, 9) EXCEPT
      !.limit = m, !.dry = TRUE, !.caps = c, !.configured = k, !.migration = g,
      !.inodes["remote"] = n] :
     t \in Tops, m \in {-1, 2}, c \in SUBSET Everything, k, g \in BOOLEAN, n \in {0, 9}}

MCJobs == Deltas \cup Disturbed \cup Tighter \cup Across \cup Plans \cup Peers
MCBytes == {"a", "b", "c", "d", "e", "f", "g", "h", "z"}
MCStrange == {Gone, <<"b", "b", "b">>}
=============================================================================
