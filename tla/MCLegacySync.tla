----------------------------- MODULE MCLegacySync -----------------------------
(* The client changes "a"; what happens to "d" and in it is for either side; *)
(* the server changes "z"; "y" is in conflict, was changed alike on both     *)
(* sides, or not at all.                                                     *)
EXTENDS LegacySync

MCOrder == <<"a", "d", "d/x", "y", "z">>
MCParent == [p \in ToSet(MCOrder) |-> IF p = "d/x" THEN "d" ELSE "."]
MCSize == [p \in ToSet(MCOrder) |-> IF p = "a" THEN 2 ELSE 1]

F(b, m) == Entry("file", b, m)
L(b) == Entry("link", b, 1)
D(b, m) == Entry("dir", b, m)

\* An action: whose it is, what it finds, what it leaves
Client(old, new) == <<"client", old, new>>
Server(old, new) == <<"server", old, new>>
Kept(e) == <<"kept", e, e>>

\* Of "a"; the last replaces a directory.
ChangesOfA == {Client(Absent, F(2, 1)), Client(F(1, 1), F(2, 1)), Client(L(1), F(2, 1)),
               Client(F(1, 1), L(2)), Client(F(1, 1), D(1, 2)), Client(F(1, 1), Absent),
               Client(D(0, 1), F(2, 1))}

\* Of "d" and "d/x", which the preflight lets pass
Accepted == {
  <<Client(D(0, 1), D(1, 2)), Client(Absent, L(2))>>,
  <<Client(Absent, D(1, 2)), Client(Absent, D(0, 1))>>,
  <<Client(D(0, 1), Absent), Client(F(1, 1), Absent)>>,
  <<Server(L(1), D(0, 1)), Server(Absent, L(2))>>,
  <<Client(F(1, 1), D(1, 2)), Kept(Absent)>>,
  <<Kept(D(1, 1)), Client(F(1, 1), F(2, 1))>>,
  <<Kept(D(1, 1)), Client(L(1), F(2, 1))>>}

\* Those it does not: the parent is still a file, or a link to one; it cannot be
\* written, or not any more; it goes, and something is in it.
Refusable == {
  <<Client(F(1, 1), D(1, 2)), Client(Absent, F(2, 1))>>,
  <<Client(L(2), D(0, 1)), Client(Absent, L(1))>>,
  <<Kept(D(1, 1)), Server(Absent, L(2))>>,
  <<Client(D(1, 1), D(0, 2)), Client(F(1, 1), Absent)>>,
  <<Server(D(0, 1), D(1, 2)), Client(F(1, 1), F(2, 1))>>,
  <<Client(D(0, 1), Absent), Server(Absent, F(2, 1))>>}

\* What the server does to "z", and "y", go by what happens in "d".
PlanOf(a, d) ==
  LET new == d[2][3]
      z == IF Exists(new) THEN Server(F(1, 1), F(2, 2)) ELSE Server(L(1), D(1, 2))
      y == IF Exists(new) THEN <<"conflict", F(1, 1), F(2, 1)>>
           ELSE IF Exists(d[1][3]) THEN <<"same", F(1, 1), F(2, 1)>> ELSE Kept(F(1, 1))
      action == [p \in ToSet(MCOrder) |->
                   CASE p = "a" -> a [] p = "d" -> d[1] [] p = "d/x" -> d[2]
                     [] p = "y" -> y [] OTHER -> z]
  IN [who |-> [p \in DOMAIN action |-> action[p][1]],
      old |-> [p \in DOMAIN action |-> action[p][2]],
      new |-> [p \in DOMAIN action |-> action[p][3]]]

\* Every change of "a" with one of "d", one of "a" with every one of "d"
MCPlans == {PlanOf(a, <<Client(D(0, 1), D(1, 2)), Client(Absent, F(2, 1))>>) : a \in ChangesOfA}
  \cup {PlanOf(Client(Absent, F(2, 1)), d) : d \in Accepted \cup Refusable}
  \cup {PlanOf(Client(L(1), F(2, 1)), d) : d \in Accepted}
MCPeers == {[batches |-> b, prepare |-> c, coordinated |-> c] : b, c \in BOOLEAN}
=============================================================================
