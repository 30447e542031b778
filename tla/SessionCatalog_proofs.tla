----------------------- MODULE SessionCatalog_proofs -----------------------
(***************************************************************************)
(* Proofs about SessionCatalog, for any ids, any files and any limits: a   *)
(* command moves a whole tree or nothing, moves the same tree whichever    *)
(* member is named, and depends on nothing outside it.                     *)
(*                                                                         *)
(* The argument is about any catalog that is well formed.  First, that     *)
(* resolve_root computes what it says, that connected_ids is the smallest  *)
(* set that no link leaves, and that a root lies within it; then, that the *)
(* ids of a component without damage all have the same root.               *)
(***************************************************************************)
EXTENDS SessionCatalog, TLAPS, FiniteSetTheorems, NaturalsInduction, WellFoundedInduction

-----------------------------------------------------------------------------
(***************************************************************************)
(* Induction.                                                              *)
(***************************************************************************)
\* A set of numbers that has 0 and the successor of each of its members has all numbers.
LEMMA AllNumbers ==
    ASSUME NEW S \in SUBSET Nat, 0 \in S, \A n \in S : n + 1 \in S
    PROVE  Nat = S
<1> DEFINE T == Nat \ S
           Less == OpToRel(<, Nat)
<1> SUFFICES ASSUME T # {} PROVE FALSE
  OBVIOUS
<1>1. IsWellFoundedOn(Less, Nat)
  BY NatLessThanWellFounded
<1>2. \A x, y \in Nat : y < x => <<y, x>> \in Less
  BY DEF OpToRel
<1> HIDE DEF Less
<1>3. PICK x \in T : \A y \in T : <<y, x>> \notin Less
  BY <1>1, WFMin
<1>4. x \in Nat /\ x # 0 /\ x - 1 \in Nat /\ x - 1 < x /\ (x - 1) + 1 = x
  BY <1>3
<1>5. x - 1 \in S
  BY <1>2, <1>3, <1>4
<1>6. (x - 1) + 1 \in S
  BY <1>5
<1>7. QED BY <1>3, <1>4, <1>6

\* Visiting one more of finitely many nodes leaves fewer of them.
LEMMA FewerLeft ==
    ASSUME NEW N, IsFiniteSet(N), NEW seen, NEW x \in N \ seen
    PROVE  /\ Cardinality(N \ seen) \in Nat /\ Cardinality(N \ (seen \cup {x})) \in Nat
           /\ Cardinality(N \ seen) = Cardinality(N \ (seen \cup {x})) + 1
<1> DEFINE left == N \ seen
           fewer == N \ (seen \cup {x})
<1>1. IsFiniteSet(left) /\ x \in left
  BY FS_Subset
<1>2. fewer = left \ {x}
  OBVIOUS
<1> HIDE DEF left, fewer
<1>3. IsFiniteSet(fewer) /\ Cardinality(fewer) = Cardinality(left) - 1
  BY <1>1, <1>2, FS_RemoveElement
<1>4. Cardinality(left) \in Nat /\ Cardinality(fewer) \in Nat
  BY <1>1, <1>3, FS_CardinalityType
<1>5. Cardinality(left) = Cardinality(fewer) + 1
  BY <1>3, <1>4
<1>6. QED BY <1>4, <1>5 DEF left, fewer

\* What holds of a set of visited ids when it holds with each node more, holds of all.
LEMMA VisitingInduction ==
    ASSUME NEW N \in SUBSET Ids, IsFiniteSet(N), NEW S \in SUBSET (SUBSET Ids),
           \A seen \in SUBSET Ids : (\A x \in N \ seen : seen \cup {x} \in S) => seen \in S
    PROVE  SUBSET Ids = S
<1> DEFINE Left(seen) == Cardinality(N \ seen)
           Done(n) == \A seen \in SUBSET Ids : Left(seen) <= n => seen \in S
           T == {n \in Nat : Done(n)}
<1>1. \A seen \in SUBSET Ids : Left(seen) \in Nat
  <2>1. \A seen : IsFiniteSet(N \ seen)
    BY FS_Subset
  <2>2. QED BY <2>1, FS_CardinalityType
<1>2. \A seen \in SUBSET Ids : \A x \in N \ seen :
          seen \cup {x} \in SUBSET Ids /\ Left(seen) = Left(seen \cup {x}) + 1
  BY FewerLeft
<1> HIDE DEF Left
<1>3. 0 \in T
  <2>1. ASSUME NEW seen \in SUBSET Ids, Left(seen) <= 0 PROVE seen \in S
    <3>1. ASSUME NEW x \in N \ seen PROVE FALSE
      <4>1. Left(seen) = Left(seen \cup {x}) + 1 /\ Left(seen) \in Nat /\ Left(seen \cup {x}) \in Nat
        BY <1>1, <1>2
      <4>2. QED BY <2>1, <4>1
    <3>2. QED BY <3>1
  <2>2. QED BY <2>1
<1>4. ASSUME NEW n \in T PROVE n + 1 \in T
  <2>1. ASSUME NEW seen \in SUBSET Ids, Left(seen) <= n + 1 PROVE seen \in S
    <3>1. ASSUME NEW x \in N \ seen PROVE seen \cup {x} \in S
      <4>1. seen \cup {x} \in SUBSET Ids /\ Left(seen) = Left(seen \cup {x}) + 1
        BY <1>2
      <4>2. Left(seen \cup {x}) <= n
        BY <1>1, <2>1, <4>1
      <4>3. QED BY <4>1, <4>2
    <3>2. QED BY <3>1
  <2>2. QED BY <2>1
<1>5. Nat = T
  <2>1. T \in SUBSET Nat
    OBVIOUS
  <2> HIDE DEF T
  <2>2. QED BY <1>3, <1>4, <2>1, AllNumbers
<1>6. ASSUME NEW seen \in SUBSET Ids PROVE seen \in S
  <2>1. Left(seen) \in T /\ Left(seen) \in Nat
    BY <1>1, <1>5
  <2>2. QED BY <2>1
<1>7. QED BY <1>6

-----------------------------------------------------------------------------
(***************************************************************************)
(* resolve_root.                                                           *)
(***************************************************************************)
\* A catalog that reading files can have left: finitely many nodes, with links to ids.
WellFormed(c) ==
    /\ DOMAIN c.nodes \in SUBSET Ids /\ IsFiniteSet(DOMAIN c.nodes)
    /\ \A n \in DOMAIN c.nodes : c.nodes[n] \in Links
    /\ c.issues \in SUBSET Ids

Roots == Ids \cup {Refused}

\* One call, with the roots that further calls give.
Call(c, f, seen, id) ==
    IF id \in c.issues THEN Refused
    ELSE IF id \notin DOMAIN c.nodes THEN id
    ELSE IF id \in seen THEN Refused
    ELSE IF c.nodes[id].session # None
         THEN IF /\ c.nodes[id].session # id =>
                      f[seen \cup {id}][c.nodes[id].session] = c.nodes[id].session
                 /\ Parent(c.nodes[id]) # None =>
                      f[seen \cup {id}][Parent(c.nodes[id])] = c.nodes[id].session
              THEN c.nodes[id].session ELSE Refused
         ELSE IF Parent(c.nodes[id]) # None THEN f[seen \cup {id}][Parent(c.nodes[id])] ELSE id

\* What a node links to are ids.
LEMMA LinksAreIds ==
    ASSUME NEW c, WellFormed(c), NEW id \in DOMAIN c.nodes
    PROVE  /\ id \in Ids
           /\ c.nodes[id].session # None => c.nodes[id].session \in Ids
           /\ c.nodes[id].parent # None => c.nodes[id].parent \in Ids
           /\ c.nodes[id].fork # None => c.nodes[id].fork \in Ids
           /\ Parent(c.nodes[id]) # None => Parent(c.nodes[id]) \in Ids
BY DEF WellFormed, Links, Parent

\* A call gives a root when the further calls do.
LEMMA CallGivesRoot ==
    ASSUME NEW c, WellFormed(c), NEW f, NEW seen \in SUBSET Ids, NEW id \in Ids,
           id \in DOMAIN c.nodes \ seen => \A other \in Ids : f[seen \cup {id}][other] \in Roots
    PROVE  Call(c, f, seen, id) \in Roots
<1>1. CASE id \in DOMAIN c.nodes \ seen
  BY <1>1, LinksAreIds DEF Call, Roots
<1>2. CASE id \notin DOMAIN c.nodes \ seen
  BY <1>2 DEF Call, Roots
<1>3. QED BY <1>1, <1>2

\* A call depends on the further calls with one more node visited, and on no others.
LEMMA CallsAgree ==
    ASSUME NEW c, NEW f, NEW g, NEW seen, NEW id,
           id \in DOMAIN c.nodes \ seen => f[seen \cup {id}] = g[seen \cup {id}]
    PROVE  Call(c, f, seen, id) = Call(c, g, seen, id)
BY DEF Call

\* There is a function that the recursive calls compute.
LEMMA CallsExist ==
    ASSUME NEW c, WellFormed(c)
    PROVE  \E f : f = [seen \in SUBSET Ids |-> [id \in Ids |-> Call(c, f, seen, id)]]
<1> DEFINE N == DOMAIN c.nodes
           Left(seen) == Cardinality(N \ seen)
           After(f) == [seen \in SUBSET Ids |-> [id \in Ids |-> Call(c, f, seen, id)]]
           Good(f, n) == \A seen \in SUBSET Ids : Left(seen) <= n => f[seen] = After(f)[seen]
           S == {n \in Nat : \E f : Good(f, n)}
<1>1. IsFiniteSet(N) /\ Cardinality(N) \in Nat
  BY FS_CardinalityType DEF WellFormed
<1>2. \A seen \in SUBSET Ids : Left(seen) \in Nat /\ Left(seen) <= Cardinality(N)
  <2>1. \A seen : IsFiniteSet(N \ seen) /\ Cardinality(N \ seen) <= Cardinality(N)
    BY <1>1, FS_Subset
  <2>2. QED BY <2>1, FS_CardinalityType
<1>3. \A seen \in SUBSET Ids : \A x \in N \ seen :
          seen \cup {x} \in SUBSET Ids /\ Left(seen) = Left(seen \cup {x}) + 1
  BY <1>1, FewerLeft DEF WellFormed
<1> HIDE DEF Left
<1>4. ASSUME NEW f, NEW n \in Int,
             \A seen \in SUBSET Ids : Left(seen) < n => f[seen] = After(f)[seen]
      PROVE  Good(After(f), n)
  <2> DEFINE g == After(f)
  <2>1. ASSUME NEW seen \in SUBSET Ids, Left(seen) <= n, NEW id \in Ids
        PROVE  Call(c, f, seen, id) = Call(c, g, seen, id)
    <3>1. ASSUME id \in N \ seen PROVE f[seen \cup {id}] = g[seen \cup {id}]
      <4>1. seen \cup {id} \in SUBSET Ids /\ Left(seen) = Left(seen \cup {id}) + 1
        BY <1>3, <3>1
      <4>2. Left(seen \cup {id}) < n
        BY <1>2, <2>1, <4>1
      <4>3. QED BY <1>4, <4>1, <4>2
    <3> HIDE DEF g
    <3>2. QED BY <3>1, CallsAgree
  <2>2. ASSUME NEW seen \in SUBSET Ids, Left(seen) <= n PROVE g[seen] = After(g)[seen]
    <3>1. g[seen] = [id \in Ids |-> Call(c, f, seen, id)]
      OBVIOUS
    <3> HIDE DEF g
    <3>2. [id \in Ids |-> Call(c, f, seen, id)] = [id \in Ids |-> Call(c, g, seen, id)]
      BY <2>1, <2>2
    <3>3. After(g)[seen] = [id \in Ids |-> Call(c, g, seen, id)]
      OBVIOUS
    <3>4. QED BY <3>1, <3>2, <3>3
  <2>3. QED BY <2>2
<1> HIDE DEF After
<1>5. 0 \in S
  <2>1. \A seen \in SUBSET Ids : ~(Left(seen) < 0)
    BY <1>2
  <2>2. Good(After(None), 0)
    BY <1>4, <2>1
  <2>3. QED BY <2>2
<1>6. ASSUME NEW n \in S PROVE n + 1 \in S
  <2>1. PICK f : Good(f, n)
    OBVIOUS
  <2>2. \A seen \in SUBSET Ids : Left(seen) < n + 1 => f[seen] = After(f)[seen]
    BY <1>2, <2>1
  <2>3. n \in Nat /\ n + 1 \in Int
    OBVIOUS
  <2>4. Good(After(f), n + 1)
    BY <1>4, <2>2, <2>3
  <2>5. QED BY <2>3, <2>4
<1>7. Nat = S
  <2>1. S \in SUBSET Nat
    OBVIOUS
  <2> HIDE DEF S
  <2>2. QED BY <1>5, <1>6, <2>1, AllNumbers
<1>8. PICK f : Good(f, Cardinality(N))
  <2>1. Cardinality(N) \in S
    BY <1>1, <1>7
  <2>2. QED BY <2>1
<1>9. \A seen \in SUBSET Ids : f[seen] = After(f)[seen]
  BY <1>2, <1>8
<1> DEFINE g == [seen \in SUBSET Ids |-> f[seen]]
<1>10. g = After(f)
  BY <1>9 DEF After
<1>11. Good(After(f), Cardinality(N) + 1)
  <2>1. Cardinality(N) + 1 \in Int
    BY <1>1
  <2>2. QED BY <1>4, <1>9, <2>1
<1>12. \A seen \in SUBSET Ids : g[seen] = After(g)[seen]
  <2>1. \A seen \in SUBSET Ids : Left(seen) <= Cardinality(N) + 1
    BY <1>1, <1>2
  <2>2. QED BY <1>10, <1>11, <2>1
<1>13. g = After(g)
  <2>1. DOMAIN After(g) = SUBSET Ids /\ After(g) = [seen \in SUBSET Ids |-> After(g)[seen]]
    BY DEF After
  <2>2. DOMAIN g = SUBSET Ids /\ g = [seen \in SUBSET Ids |-> g[seen]]
    OBVIOUS
  <2> HIDE DEF g
  <2>3. QED BY <1>12, <2>1, <2>2
<1>14. QED BY <1>13 DEF After

\* resolve_root gives a root or refuses, and does what its recursive calls say.
LEMMA ResolveUnfolds ==
    ASSUME NEW c, WellFormed(c), NEW seen \in SUBSET Ids, NEW id \in Ids
    PROVE  /\ Resolve(c, id, seen) \in Roots
           /\ id \in c.issues => Resolve(c, id, seen) = Refused
           /\ id \notin c.issues /\ id \notin DOMAIN c.nodes => Resolve(c, id, seen) = id
           /\ id \in DOMAIN c.nodes /\ id \in seen => Resolve(c, id, seen) = Refused
           /\ id \in DOMAIN c.nodes \ seen /\ id \notin c.issues =>
                LET node == c.nodes[id]
                    Of(other) == Resolve(c, other, seen \cup {id})
                IN  Resolve(c, id, seen) =
                      IF node.session # None
                      THEN IF /\ node.session # id => Of(node.session) = node.session
                              /\ Parent(node) # None => Of(Parent(node)) = node.session
                           THEN node.session ELSE Refused
                      ELSE IF Parent(node) # None THEN Of(Parent(node)) ELSE id
<1> DEFINE After(f) == [s \in SUBSET Ids |-> [i \in Ids |-> Call(c, f, s, i)]]
           resolve == CHOOSE f : f = After(f)
<1>1. \A s, i : Resolve(c, i, s) = resolve[s][i]
  BY DEF Resolve, Call
<1>2. resolve = After(resolve)
  BY CallsExist
<1> HIDE DEF resolve
<1>3. \A s \in SUBSET Ids, i \in Ids : resolve[s][i] = Call(c, resolve, s, i)
  BY <1>2
<1>4. \A s \in SUBSET Ids, i \in Ids : Resolve(c, i, s) = Call(c, resolve, s, i)
  BY <1>1, <1>3
<1>5. \A i \in Ids : Resolve(c, i, seen) \in Roots
  <2> DEFINE N == DOMAIN c.nodes
             S == {s \in SUBSET Ids : \A i \in Ids : resolve[s][i] \in Roots}
  <2>1. N \in SUBSET Ids /\ IsFiniteSet(N)
    BY DEF WellFormed
  <2>2. ASSUME NEW s \in SUBSET Ids, \A x \in N \ s : s \cup {x} \in S PROVE s \in S
    <3>1. ASSUME NEW i \in Ids PROVE Call(c, resolve, s, i) \in Roots
      BY <2>2, CallGivesRoot
    <3>2. QED BY <1>3, <3>1
  <2>3. S \in SUBSET (SUBSET Ids)
    OBVIOUS
  <2>4. SUBSET Ids = S
    <3> HIDE DEF N, S
    <3>1. QED BY <2>1, <2>2, <2>3, VisitingInduction
  <2>5. QED BY <1>1, <2>4
<1>6. CASE id \in DOMAIN c.nodes \ seen /\ id \notin c.issues
  <2> DEFINE node == c.nodes[id]
             Of(other) == Resolve(c, other, seen \cup {id})
  <2>1. \A other : resolve[seen \cup {id}][other] = Of(other)
    BY <1>1
  <2>2. Resolve(c, id, seen) = Call(c, resolve, seen, id)
    BY <1>4
  <2> HIDE DEF Of
  <2>3. Call(c, resolve, seen, id) =
          IF node.session # None
          THEN IF /\ node.session # id => Of(node.session) = node.session
                  /\ Parent(node) # None => Of(Parent(node)) = node.session
               THEN node.session ELSE Refused
          ELSE IF Parent(node) # None THEN Of(Parent(node)) ELSE id
    BY <1>6, <2>1 DEF Call
  <2>4. QED BY <1>5, <1>6, <2>2, <2>3 DEF Of
<1>7. CASE ~(id \in DOMAIN c.nodes \ seen /\ id \notin c.issues)
  BY <1>4, <1>5, <1>7 DEF Call
<1>8. QED BY <1>6, <1>7

-----------------------------------------------------------------------------
(***************************************************************************)
(* connected_ids.                                                          *)
(***************************************************************************)
\* The ids that a node ties together.
Tied(c, m) == Related(m, c.nodes[m])

\* No node ties an id of the set to one outside it.
Closed(c, S) == \A m \in DOMAIN c.nodes : Tied(c, m) \cap S # {} => Tied(c, m) \subseteq S

\* The nodes that tie ids of a set.
Touched(c, S) == {m \in DOMAIN c.nodes : Tied(c, m) \cap S # {}}

\* The sets after 0 to n rounds, each computed from the one that f has before it.
Rounds(c, id, n, f) == [k \in 0..n |-> IF k = 0 THEN {id} ELSE Grown(c, f[k - 1])]

\* There is a function that the rounds of the loop compute.
LEMMA RoundsExist ==
    ASSUME NEW c, NEW id, NEW n \in Nat
    PROVE  \E f : f = Rounds(c, id, n, f)
<1> DEFINE After(f) == [k \in 0..n |-> IF k = 0 THEN {id} ELSE Grown(c, f[k - 1])]
           Good(f, m) == \A k \in 0..n : k <= m => f[k] = After(f)[k]
           S == {m \in Nat : \E f : Good(f, m)}
<1>1. Good(After(None), 0)
  OBVIOUS
<1>2. ASSUME NEW f, NEW m \in Nat, Good(f, m) PROVE Good(After(f), m + 1)
  <2> DEFINE g == After(f)
  <2>1. ASSUME NEW k \in 0..n, k <= m + 1 PROVE g[k] = After(g)[k]
    <3>1. CASE k = 0
      BY <3>1
    <3>2. CASE k # 0
      <4>1. k - 1 \in 0..n /\ k - 1 <= m
        BY <2>1, <3>2
      <4>2. f[k - 1] = g[k - 1]
        BY <1>2, <4>1
      <4>3. g[k] = Grown(c, f[k - 1])
        BY <3>2
      <4> HIDE DEF g
      <4>4. After(g)[k] = Grown(c, g[k - 1])
        BY <3>2
      <4>5. QED BY <4>2, <4>3, <4>4
    <3>3. QED BY <3>1, <3>2
  <2>2. QED BY <2>1
<1> HIDE DEF After
<1>3. 0 \in S
  BY <1>1
<1>4. ASSUME NEW m \in S PROVE m + 1 \in S
  <2>1. m \in Nat /\ \E f : Good(f, m)
    OBVIOUS
  <2>2. QED BY <1>2, <2>1
<1>5. Nat = S
  <2>1. S \in SUBSET Nat
    OBVIOUS
  <2> HIDE DEF S
  <2>2. QED BY <1>3, <1>4, <2>1, AllNumbers
<1>6. PICK f : Good(f, n)
  BY <1>5
<1>7. \A k \in 0..n : f[k] = After(f)[k]
  BY <1>6
<1> DEFINE g == After(f)
<1>8. Good(g, n + 1)
  BY <1>2, <1>6
<1>9. \A k \in 0..n : g[k] = After(g)[k]
  BY <1>8
<1>10. \A h : DOMAIN After(h) = 0..n /\ After(h) = [k \in 0..n |-> After(h)[k]]
  BY DEF After
<1>11. g = After(g)
  <2>1. DOMAIN g = 0..n /\ g = [k \in 0..n |-> g[k]]
    BY <1>10
  <2> HIDE DEF g
  <2>2. QED BY <1>9, <1>10, <2>1
<1>12. QED BY <1>11 DEF After, Rounds

\* A round adds what the nodes that touch the set tie together.
LEMMA GrownIs ==
    ASSUME NEW c, WellFormed(c), NEW S \in SUBSET Ids
    PROVE  /\ S \subseteq Grown(c, S) /\ Grown(c, S) \in SUBSET Ids
           /\ \A m \in Touched(c, S) : Tied(c, m) \subseteq Grown(c, S)
           /\ \A T \in SUBSET Ids : Closed(c, T) /\ S \subseteq T => Grown(c, S) \subseteq T
           /\ Touched(c, S) \subseteq Touched(c, Grown(c, S))
           /\ Closed(c, S) => Grown(c, S) = S
<1>1. \A x : x \in Grown(c, S) <=> x \in S \/ \E m \in Touched(c, S) : x \in Tied(c, m)
  BY DEF Grown, Touched, Tied
<1>2. \A m \in DOMAIN c.nodes : Tied(c, m) \subseteq Ids
  BY LinksAreIds DEF Tied, Related
<1>3. S \subseteq Grown(c, S) /\ Grown(c, S) \in SUBSET Ids
  BY <1>1, <1>2 DEF Touched
<1>4. \A m \in Touched(c, S) : Tied(c, m) \subseteq Grown(c, S)
  BY <1>1
<1>5. \A T \in SUBSET Ids : Closed(c, T) /\ S \subseteq T => Grown(c, S) \subseteq T
  BY <1>1 DEF Closed, Touched
<1>6. Touched(c, S) \subseteq Touched(c, Grown(c, S))
  BY <1>3 DEF Touched
<1>7. QED BY <1>3, <1>4, <1>5, <1>6

\* Every round that adds something touches a node more, so that there is nothing to add
\* after as many rounds as there are nodes: what is left is the smallest set that has the
\* id and that no node ties to an id outside.
LEMMA ConnectedIs ==
    ASSUME NEW c, WellFormed(c), NEW id \in Ids
    PROVE  /\ id \in Connected(c, id) /\ Connected(c, id) \in SUBSET Ids
           /\ Closed(c, Connected(c, id))
           /\ \A T \in SUBSET Ids : Closed(c, T) /\ id \in T => Connected(c, id) \subseteq T
<1> DEFINE N == DOMAIN c.nodes
           n == Cardinality(N)
           after == CHOOSE f : f = Rounds(c, id, n, f)
<1>1. IsFiniteSet(N) /\ n \in Nat
  BY FS_CardinalityType DEF WellFormed
<1>2. Connected(c, id) = after[n]
  BY DEF Connected, Rounds
<1> HIDE DEF n
<1>3. after = Rounds(c, id, n, after)
  <2>1. \E f : f = Rounds(c, id, n, f)
    BY <1>1, RoundsExist
  <2>2. QED BY <2>1, Zenon
<1> HIDE DEF after
<1>4. after[0] = {id} /\ \A k \in 1..n : after[k] = Grown(c, after[k - 1])
  <2>1. \A k \in 0..n : after[k] = IF k = 0 THEN {id} ELSE Grown(c, after[k - 1])
    BY <1>3, Zenon DEF Rounds
  <2>2. QED BY <1>1, <2>1
<1> DEFINE Inside(k) == id \in after[k] /\ after[k] \in SUBSET Ids
           Least(k) == \A T \in SUBSET Ids : Closed(c, T) /\ id \in T => after[k] \subseteq T
           Enough(k) == Closed(c, after[k]) \/ Cardinality(Touched(c, after[k])) > k
           S == {k \in Nat : k <= n => Inside(k) /\ Least(k) /\ Enough(k)}
<1>5. \A T : /\ Touched(c, T) \in SUBSET N /\ IsFiniteSet(Touched(c, T))
             /\ Cardinality(Touched(c, T)) \in Nat /\ Cardinality(Touched(c, T)) <= n
  <2>1. \A T : Touched(c, T) \in SUBSET N
    BY DEF Touched
  <2>2. QED BY <1>1, <2>1, FS_Subset, FS_CardinalityType DEF n
<1>6. \A T : ~Closed(c, T) => \E m \in Touched(c, T) : ~(Tied(c, m) \subseteq T)
  BY DEF Closed, Touched
<1>7. 0 \in S
  <2>1. Inside(0) /\ Least(0)
    BY <1>4
  <2>2. ASSUME ~Closed(c, after[0]) PROVE Cardinality(Touched(c, after[0])) > 0
    <3>1. Touched(c, after[0]) # {}
      BY <1>6, <2>2
    <3>2. Cardinality(Touched(c, after[0])) # 0
      BY <1>5, <3>1, FS_EmptySet
    <3>3. QED BY <1>5, <3>2
  <2>3. QED BY <2>1, <2>2
<1>8. ASSUME NEW k \in S PROVE k + 1 \in S
  <2>1. k \in Nat
    OBVIOUS
  <2> SUFFICES ASSUME k + 1 <= n PROVE Inside(k + 1) /\ Least(k + 1) /\ Enough(k + 1)
    BY <2>1
  <2>2. Inside(k) /\ Least(k) /\ Enough(k)
    BY <1>1, <2>1
  <2>3. after[k + 1] = Grown(c, after[k])
    <3>1. k + 1 \in 1..n /\ (k + 1) - 1 = k
      BY <1>1, <2>1
    <3>2. QED BY <1>4, <3>1
  <2> DEFINE now == after[k]
             next == Grown(c, now)
  <2>4. now \in SUBSET Ids
    BY <2>2
  <2> HIDE DEF now
  <2>5. /\ now \subseteq next /\ next \in SUBSET Ids
        /\ \A m \in Touched(c, now) : Tied(c, m) \subseteq next
        /\ \A T \in SUBSET Ids : Closed(c, T) /\ now \subseteq T => next \subseteq T
        /\ Touched(c, now) \subseteq Touched(c, next)
        /\ Closed(c, now) => next = now
    BY <2>4, GrownIs
  <2> HIDE DEF next
  <2>6. Inside(k + 1) /\ Least(k + 1)
    BY <2>2, <2>3, <2>5 DEF now, next
  <2>7. ASSUME ~Closed(c, next) PROVE Cardinality(Touched(c, next)) > k + 1
    <3>1. ~Closed(c, now)
      BY <2>5, <2>7
    <3>2. Cardinality(Touched(c, now)) > k
      BY <2>2, <3>1 DEF now
    <3>3. Touched(c, now) # Touched(c, next)
      BY <1>6, <2>5, <2>7
    <3>4. Cardinality(Touched(c, now)) < Cardinality(Touched(c, next))
      BY <1>5, <2>5, <3>3, FS_Subset
    <3>5. QED BY <1>5, <2>1, <3>2, <3>4
  <2>8. QED BY <2>3, <2>6, <2>7 DEF now, next
<1>9. Nat = S
  <2>1. S \in SUBSET Nat
    OBVIOUS
  <2> HIDE DEF S
  <2>2. QED BY <1>7, <1>8, <2>1, AllNumbers
<1>10. Inside(n) /\ Least(n) /\ Enough(n)
  BY <1>1, <1>9
<1>11. Closed(c, after[n])
  BY <1>1, <1>5, <1>10
<1>12. QED BY <1>2, <1>10, <1>11

-----------------------------------------------------------------------------
(***************************************************************************)
(* Components and their roots.                                             *)
(***************************************************************************)
\* Whichever id of a component the loop starts from, it finds the same component.
LEMMA SameComponent ==
    ASSUME NEW c, WellFormed(c), NEW id \in Ids, NEW x \in Connected(c, id)
    PROVE  x \in Ids /\ Connected(c, x) = Connected(c, id)
<1> DEFINE here == Connected(c, id)
           there == Connected(c, x)
           rest == here \ there
<1>1. /\ id \in here /\ here \in SUBSET Ids /\ Closed(c, here)
      /\ \A T \in SUBSET Ids : Closed(c, T) /\ id \in T => here \subseteq T
  BY ConnectedIs
<1>2. x \in Ids
  BY <1>1
<1>3. /\ x \in there /\ there \in SUBSET Ids /\ Closed(c, there)
      /\ \A T \in SUBSET Ids : Closed(c, T) /\ x \in T => there \subseteq T
  BY <1>2, ConnectedIs
<1>4. x \in here
  OBVIOUS
<1> HIDE DEF here, there
<1>5. there \subseteq here
  BY <1>1, <1>3, <1>4
<1>6. Closed(c, rest)
  BY <1>1, <1>3 DEF Closed
<1>7. id \in there
  BY <1>1, <1>3, <1>4, <1>6
<1>8. here \subseteq there
  BY <1>1, <1>3, <1>7
<1>9. QED BY <1>2, <1>5, <1>8 DEF here, there

\* A root lies in every closed set that has the id.
LEMMA RootInside ==
    ASSUME NEW c, WellFormed(c), NEW S \in SUBSET Ids, Closed(c, S)
    PROVE  \A seen \in SUBSET Ids : \A id \in S : Resolve(c, id, seen) \in S \cup {Refused}
<1> DEFINE N == DOMAIN c.nodes
           Done == {seen \in SUBSET Ids : \A id \in S : Resolve(c, id, seen) \in S \cup {Refused}}
<1>1. N \in SUBSET Ids /\ IsFiniteSet(N) /\ Done \in SUBSET (SUBSET Ids)
  BY DEF WellFormed
<1>2. ASSUME NEW seen \in SUBSET Ids, \A x \in N \ seen : seen \cup {x} \in Done
      PROVE  seen \in Done
  <2>1. ASSUME NEW id \in S PROVE Resolve(c, id, seen) \in S \cup {Refused}
    <3>1. id \in Ids
      OBVIOUS
    <3>2. CASE id \in N \ seen /\ id \notin c.issues
      <4> DEFINE node == c.nodes[id]
                 Of(other) == Resolve(c, other, seen \cup {id})
      <4>1. \A other \in S : Of(other) \in S \cup {Refused}
        BY <1>2, <3>2
      <4>2. Resolve(c, id, seen) =
              IF node.session # None
              THEN IF /\ node.session # id => Of(node.session) = node.session
                      /\ Parent(node) # None => Of(Parent(node)) = node.session
                   THEN node.session ELSE Refused
              ELSE IF Parent(node) # None THEN Of(Parent(node)) ELSE id
        BY <3>1, <3>2, ResolveUnfolds
      <4> HIDE DEF Of
      <4>3. Tied(c, id) \subseteq S
        <5>1. id \in Tied(c, id)
          BY <3>1, CatalogAssumption DEF Tied, Related
        <5>2. QED BY <3>2, <5>1 DEF Closed
      <4>4. /\ node.session # None => node.session \in S
            /\ Parent(node) # None => Parent(node) \in S
        BY <4>3 DEF Tied, Related, Parent
      <4> HIDE DEF node
      <4>5. QED BY <4>1, <4>2, <4>4
    <3>3. CASE ~(id \in N \ seen /\ id \notin c.issues)
      BY <3>1, <3>3, ResolveUnfolds
    <3>4. QED BY <3>2, <3>3
  <2>2. QED BY <2>1
<1>3. SUBSET Ids = Done
  <2> HIDE DEF N, Done
  <2>1. QED BY <1>1, <1>2, VisitingInduction
<1>4. QED BY <1>3

\* An id that has a root when more has been visited has the same root when less has been.
LEMMA FewerVisited ==
    ASSUME NEW c, WellFormed(c)
    PROVE  \A more \in SUBSET Ids : \A seen \in SUBSET more : \A id \in Ids :
               Resolve(c, id, more) # Refused => Resolve(c, id, seen) = Resolve(c, id, more)
<1> DEFINE N == DOMAIN c.nodes
           Same(more, seen, id) ==
               Resolve(c, id, more) # Refused => Resolve(c, id, seen) = Resolve(c, id, more)
           Done == {more \in SUBSET Ids : \A seen \in SUBSET more : \A id \in Ids : Same(more, seen, id)}
<1>1. N \in SUBSET Ids /\ IsFiniteSet(N) /\ Done \in SUBSET (SUBSET Ids)
  BY DEF WellFormed
<1>2. ASSUME NEW more \in SUBSET Ids, \A x \in N \ more : more \cup {x} \in Done
      PROVE  more \in Done
  <2>1. ASSUME NEW seen \in SUBSET more, NEW id \in Ids PROVE Same(more, seen, id)
    <3>1. seen \in SUBSET Ids
      OBVIOUS
    <3>2. CASE id \in N \ more /\ id \notin c.issues
      <4> DEFINE node == c.nodes[id]
                 Of(other) == Resolve(c, other, more \cup {id})
                 Before(other) == Resolve(c, other, seen \cup {id})
      <4>1. \A other \in Ids : Of(other) # Refused => Before(other) = Of(other)
        <5>1. more \cup {id} \in Done /\ seen \cup {id} \in SUBSET (more \cup {id})
          BY <1>2, <3>2
        <5>2. QED BY <5>1
      <4>2. Resolve(c, id, more) =
              IF node.session # None
              THEN IF /\ node.session # id => Of(node.session) = node.session
                      /\ Parent(node) # None => Of(Parent(node)) = node.session
                   THEN node.session ELSE Refused
              ELSE IF Parent(node) # None THEN Of(Parent(node)) ELSE id
        BY <3>2, ResolveUnfolds
      <4>3. Resolve(c, id, seen) =
              IF node.session # None
              THEN IF /\ node.session # id => Before(node.session) = node.session
                      /\ Parent(node) # None => Before(Parent(node)) = node.session
                   THEN node.session ELSE Refused
              ELSE IF Parent(node) # None THEN Before(Parent(node)) ELSE id
        BY <3>1, <3>2, ResolveUnfolds
      <4>4. /\ node.session # None => node.session \in Ids
            /\ Parent(node) # None => Parent(node) \in Ids
        BY <3>2, LinksAreIds
      <4>5. Refused \notin Ids
        BY CatalogAssumption
      <4> HIDE DEF node, Of, Before
      <4>6. QED BY <4>1, <4>2, <4>3, <4>4, <4>5
    <3>3. CASE id \in c.issues \/ id \notin N
      BY <3>1, <3>3, ResolveUnfolds
    <3>4. CASE id \in N /\ id \in more
      BY <3>4, ResolveUnfolds
    <3>5. QED BY <3>2, <3>3, <3>4
  <2>2. QED BY <2>1
<1>3. SUBSET Ids = Done
  <2> HIDE DEF N, Done
  <2>1. QED BY <1>1, <1>2, VisitingInduction
<1>4. QED BY <1>3

\* A node that is not in doubt has one parent.
OneParent(c) ==
    \A n \in DOMAIN c.nodes \ c.issues :
        None \notin {c.nodes[n].parent, c.nodes[n].fork} => c.nodes[n].parent = c.nodes[n].fork

\* A root is an id; an id without a node is its own.
LEMMA RootIs ==
    ASSUME NEW c, WellFormed(c), NEW id \in Ids
    PROVE  /\ Root(c, id) \in Roots
           /\ id \notin c.issues /\ id \notin DOMAIN c.nodes => Root(c, id) = id
           /\ id \in c.issues => Root(c, id) = Refused
BY ResolveUnfolds DEF Root

\* All ids that a node with a root ties together have this root.
LEMMA TiedShareRoot ==
    ASSUME NEW c, WellFormed(c), OneParent(c), NEW m \in DOMAIN c.nodes, Root(c, m) # Refused,
           NEW y \in Tied(c, m)
    PROVE  Root(c, y) = Root(c, m)
<1> DEFINE node == c.nodes[m]
           Of(other) == Resolve(c, other, {m})
<1>1. m \in Ids /\ {m} \in SUBSET Ids /\ {} \in SUBSET Ids /\ {} \cup {m} = {m}
  BY DEF WellFormed
<1>2. m \notin c.issues
  BY <1>1, RootIs
<1>3. Root(c, m) =
        IF node.session # None
        THEN IF /\ node.session # m => Of(node.session) = node.session
                /\ Parent(node) # None => Of(Parent(node)) = node.session
             THEN node.session ELSE Refused
        ELSE IF Parent(node) # None THEN Of(Parent(node)) ELSE m
  <2>1. m \in DOMAIN c.nodes \ {} /\ m \notin c.issues
    BY <1>2
  <2>2. QED BY <1>1, <2>1, ResolveUnfolds DEF Root
<1>4. \A other \in Ids : Of(other) # Refused => Root(c, other) = Of(other)
  <2>1. {} \in SUBSET {m}
    OBVIOUS
  <2>2. QED BY <1>1, <2>1, FewerVisited DEF Root
<1>5. /\ node.session # None => node.session \in Ids
      /\ Parent(node) # None => Parent(node) \in Ids
  BY LinksAreIds
<1>6. y \in {m, node.session, Parent(node)} \ {None}
  BY <1>2 DEF OneParent, Tied, Related, Parent
<1>7. Refused \notin Ids
  BY CatalogAssumption
<1> HIDE DEF node, Of
<1>8. CASE y = m
  BY <1>8
<1>9. CASE y = node.session /\ y # m /\ y # None
  BY <1>3, <1>4, <1>5, <1>7, <1>9
<1>10. CASE y = Parent(node) /\ y # None
  BY <1>3, <1>4, <1>5, <1>7, <1>10
<1>11. QED BY <1>6, <1>8, <1>9, <1>10

\* In a component without damage every id has the same root, which is one of them.
LEMMA OneRoot ==
    ASSUME NEW c, WellFormed(c), OneParent(c), NEW id \in Ids, ~DamagedAround(c, id)
    PROVE  /\ Root(c, id) \in Connected(c, id)
           /\ \A x \in Connected(c, id) : Root(c, x) = Root(c, id)
<1> DEFINE here == Connected(c, id)
           same == {x \in here : Root(c, x) = Root(c, id)}
<1>1. /\ id \in here /\ here \in SUBSET Ids /\ Closed(c, here)
      /\ \A T \in SUBSET Ids : Closed(c, T) /\ id \in T => here \subseteq T
  BY ConnectedIs
<1>2. here \cap c.issues = {} /\ \A x \in here \cap DOMAIN c.nodes : Root(c, x) # Refused
  BY DEF DamagedAround
<1> HIDE DEF here
<1>3. \A x \in here : Root(c, x) # Refused
  <2>1. ASSUME NEW x \in here, x \notin DOMAIN c.nodes PROVE Root(c, x) # Refused
    BY <1>1, <1>2, <2>1, RootIs, CatalogAssumption
  <2>2. QED BY <1>2, <2>1
<1>4. Closed(c, same)
  <2>1. ASSUME NEW m \in DOMAIN c.nodes, Tied(c, m) \cap same # {} PROVE Tied(c, m) \subseteq same
    <3>1. Tied(c, m) \subseteq here
      BY <1>1, <2>1 DEF Closed
    <3>2. m \in Tied(c, m)
      BY CatalogAssumption DEF WellFormed, Tied, Related
    <3>3. \A y \in Tied(c, m) : Root(c, y) = Root(c, m)
      BY <1>3, <3>1, <3>2, TiedShareRoot
    <3>4. Root(c, m) = Root(c, id)
      BY <2>1, <3>3
    <3>5. QED BY <3>1, <3>3, <3>4
  <2>2. QED BY <2>1 DEF Closed
<1>5. \A x \in here : Root(c, x) = Root(c, id)
  <2>1. id \in same /\ same \in SUBSET Ids
    BY <1>1
  <2>2. QED BY <1>1, <1>4, <2>1
<1>6. Root(c, id) \in here
  <2>1. Root(c, id) \in here \cup {Refused}
    BY <1>1, RootInside DEF Root
  <2>2. QED BY <1>1, <1>3, <2>1
<1>7. QED BY <1>5, <1>6 DEF here

\* The members of the tree are then the component.
LEMMA MembersAreConnected ==
    ASSUME NEW c, WellFormed(c), OneParent(c), NEW id \in Ids, ~DamagedAround(c, id)
    PROVE  Members(c, Root(c, id)) = Connected(c, id)
<1> DEFINE root == Root(c, id)
           here == Connected(c, id)
<1>1. /\ root \in here /\ \A x \in here : Root(c, x) = root
      /\ here \in SUBSET Ids /\ Connected(c, root) = here /\ here \cap c.issues = {}
  BY OneRoot, ConnectedIs, SameComponent DEF DamagedAround
<1>2. ASSUME NEW x \in Ids, Root(c, x) = root PROVE x \in here
  <2>1. /\ x \in Connected(c, x) /\ Connected(c, x) \in SUBSET Ids /\ Closed(c, Connected(c, x))
    BY ConnectedIs
  <2>2. root \in Connected(c, x) \cup {Refused}
    BY <1>2, <2>1, RootInside DEF Root
  <2>3. root # Refused
    BY <1>1, CatalogAssumption
  <2>4. Connected(c, root) = Connected(c, x)
    BY <2>2, <2>3, SameComponent
  <2>5. QED BY <1>1, <2>1, <2>4
<1>3. ASSUME NEW x \in here PROVE x = root \/ (x \in DOMAIN c.nodes /\ Root(c, x) = root)
  BY <1>1, RootIs
<1>4. \A n \in DOMAIN c.nodes : n \in Ids /\ Related(n, c.nodes[n]) \subseteq Ids
  BY LinksAreIds DEF Related
<1> HIDE DEF root, here
<1>5. Members(c, root) \subseteq here
  BY <1>1, <1>2, <1>4 DEF Members
<1>6. here \subseteq Members(c, root)
  BY <1>3 DEF Members
<1>7. QED BY <1>5, <1>6 DEF root, here

-----------------------------------------------------------------------------
(***************************************************************************)
(* Commands.                                                               *)
(***************************************************************************)
\* What a command moves, by the component of the session that was named.
LEMMA CommandIs ==
    ASSUME NEW c, WellFormed(c), OneParent(c), NEW id \in Ids
    PROVE  MutationTree(c, id) =
               IF DamagedAround(c, id) \/ 4 * Cardinality(Connected(c, id)) > MaxKeys THEN Refused
               ELSE [root |-> Root(c, id), members |-> Connected(c, id)]
<1>1. CASE DamagedAround(c, id)
  BY <1>1 DEF MutationTree
<1>2. CASE ~DamagedAround(c, id)
  <2>1. Members(c, Root(c, id)) = Connected(c, id)
    BY <1>2, MembersAreConnected
  <2>2. Root(c, id) # Refused
    BY <1>2, OneRoot, ConnectedIs, CatalogAssumption
  <2>3. QED BY <1>2, <2>1, <2>2 DEF MutationTree
<1>3. QED BY <1>1, <1>2

\* The command is the same for every id of the component.
LEMMA SameCommand ==
    ASSUME NEW c, WellFormed(c), OneParent(c), NEW id \in Ids,
           ~DamagedAround(c, id), NEW x \in Connected(c, id)
    PROVE  MutationTree(c, x) = MutationTree(c, id)
<1>1. x \in Ids /\ Connected(c, x) = Connected(c, id)
  BY SameComponent
<1>2. DamagedAround(c, x) = DamagedAround(c, id)
  BY <1>1 DEF DamagedAround
<1>3. Root(c, x) = Root(c, id)
  BY OneRoot
<1>4. QED BY <1>1, <1>2, <1>3, CommandIs

\* The part of a catalog that is about a set of ids.
Part(c, S) ==
    [nodes |-> [n \in DOMAIN c.nodes \cap S |-> c.nodes[n]], issues |-> c.issues \cap S]

\* A part of a well-formed catalog is well formed, and keeps what its nodes tie together.
LEMMA PartIs ==
    ASSUME NEW c, WellFormed(c), NEW S \in SUBSET Ids
    PROVE  /\ WellFormed(Part(c, S))
           /\ OneParent(c) => OneParent(Part(c, S))
           /\ DOMAIN Part(c, S).nodes = DOMAIN c.nodes \cap S
           /\ Part(c, S).issues = c.issues \cap S
           /\ \A n \in DOMAIN c.nodes \cap S : Part(c, S).nodes[n] = c.nodes[n]
<1> DEFINE p == Part(c, S)
<1>1. /\ DOMAIN p.nodes = DOMAIN c.nodes \cap S /\ p.issues = c.issues \cap S
      /\ \A n \in DOMAIN c.nodes \cap S : p.nodes[n] = c.nodes[n]
  BY DEF Part
<1>2. IsFiniteSet(DOMAIN c.nodes \cap S)
  BY FS_Subset DEF WellFormed
<1> HIDE DEF p
<1>3. WellFormed(p)
  BY <1>1, <1>2 DEF WellFormed
<1>4. OneParent(c) => OneParent(p)
  BY <1>1 DEF OneParent
<1>5. QED BY <1>1, <1>3, <1>4 DEF p

\* A closed part gives its ids the roots that the whole catalog gives them.
LEMMA PartResolves ==
    ASSUME NEW c, WellFormed(c), NEW S \in SUBSET Ids, Closed(c, S)
    PROVE  \A seen \in SUBSET Ids : \A id \in S : Resolve(Part(c, S), id, seen) = Resolve(c, id, seen)
<1> DEFINE N == DOMAIN c.nodes
           p == Part(c, S)
           Done == {seen \in SUBSET Ids : \A id \in S : Resolve(p, id, seen) = Resolve(c, id, seen)}
<1>1. N \in SUBSET Ids /\ IsFiniteSet(N) /\ Done \in SUBSET (SUBSET Ids)
  BY DEF WellFormed
<1>2. /\ WellFormed(p) /\ DOMAIN p.nodes = N \cap S /\ p.issues = c.issues \cap S
      /\ \A n \in N \cap S : p.nodes[n] = c.nodes[n]
  BY PartIs
<1> HIDE DEF p
<1>3. ASSUME NEW seen \in SUBSET Ids, \A x \in N \ seen : seen \cup {x} \in Done
      PROVE  seen \in Done
  <2>1. ASSUME NEW id \in S PROVE Resolve(p, id, seen) = Resolve(c, id, seen)
    <3>1. id \in Ids
      OBVIOUS
    <3>2. CASE id \in N \ seen /\ id \notin c.issues
      <4> DEFINE node == c.nodes[id]
                 Of(other) == Resolve(c, other, seen \cup {id})
                 In(other) == Resolve(p, other, seen \cup {id})
      <4>1. \A other \in S : In(other) = Of(other)
        BY <1>3, <3>2
      <4>2. Resolve(c, id, seen) =
              IF node.session # None
              THEN IF /\ node.session # id => Of(node.session) = node.session
                      /\ Parent(node) # None => Of(Parent(node)) = node.session
                   THEN node.session ELSE Refused
              ELSE IF Parent(node) # None THEN Of(Parent(node)) ELSE id
        BY <3>1, <3>2, ResolveUnfolds
      <4>3. id \in DOMAIN p.nodes \ seen /\ id \notin p.issues /\ p.nodes[id] = node
        BY <1>2, <3>2
      <4>4. Resolve(p, id, seen) =
              IF node.session # None
              THEN IF /\ node.session # id => In(node.session) = node.session
                      /\ Parent(node) # None => In(Parent(node)) = node.session
                   THEN node.session ELSE Refused
              ELSE IF Parent(node) # None THEN In(Parent(node)) ELSE id
        <5>1. Resolve(p, id, seen) =
                IF p.nodes[id].session # None
                THEN IF /\ p.nodes[id].session # id => In(p.nodes[id].session) = p.nodes[id].session
                        /\ Parent(p.nodes[id]) # None => In(Parent(p.nodes[id])) = p.nodes[id].session
                     THEN p.nodes[id].session ELSE Refused
                ELSE IF Parent(p.nodes[id]) # None THEN In(Parent(p.nodes[id])) ELSE id
          BY <1>2, <3>1, <4>3, ResolveUnfolds
        <5>2. QED BY <4>3, <5>1
      <4> HIDE DEF Of, In
      <4>5. Tied(c, id) \subseteq S
        <5>1. id \in Tied(c, id)
          BY <3>1, CatalogAssumption DEF Tied, Related
        <5>2. QED BY <3>2, <5>1 DEF Closed
      <4>6. /\ node.session # None => node.session \in S
            /\ Parent(node) # None => Parent(node) \in S
        BY <4>5 DEF Tied, Related, Parent
      <4> HIDE DEF node
      <4>7. QED BY <4>1, <4>2, <4>4, <4>6
    <3>3. CASE ~(id \in N \ seen /\ id \notin c.issues)
      <4> DEFINE Plain(d) == IF id \in d.issues \/ id \in DOMAIN d.nodes THEN Refused ELSE id
      <4>1. Resolve(c, id, seen) = Plain(c)
        BY <3>1, <3>3, ResolveUnfolds
      <4>2. id \in p.issues <=> id \in c.issues
        BY <1>2
      <4>3. id \in DOMAIN p.nodes <=> id \in N
        BY <1>2
      <4>4. Resolve(p, id, seen) = Plain(p)
        BY <1>2, <3>1, <3>3, <4>2, <4>3, ResolveUnfolds
      <4>5. QED BY <4>1, <4>2, <4>3, <4>4
    <3>4. QED BY <3>2, <3>3
  <2>2. QED BY <2>1
<1>4. SUBSET Ids = Done
  <2> HIDE DEF N, Done
  <2>1. QED BY <1>1, <1>3, VisitingInduction
<1>5. QED BY <1>4 DEF p

\* The component of an id is its component in the part of the catalog about it.
LEMMA PartConnected ==
    ASSUME NEW c, WellFormed(c), NEW id \in Ids
    PROVE  Connected(Part(c, Connected(c, id)), id) = Connected(c, id)
<1> DEFINE here == Connected(c, id)
           p == Part(c, here)
           there == Connected(p, id)
<1>1. /\ id \in here /\ here \in SUBSET Ids /\ Closed(c, here)
      /\ \A T \in SUBSET Ids : Closed(c, T) /\ id \in T => here \subseteq T
  BY ConnectedIs
<1> HIDE DEF here
<1>2. /\ WellFormed(p) /\ DOMAIN p.nodes = DOMAIN c.nodes \cap here
      /\ \A n \in DOMAIN c.nodes \cap here : p.nodes[n] = c.nodes[n]
  BY <1>1, PartIs
<1> HIDE DEF p
<1>3. /\ id \in there /\ there \in SUBSET Ids /\ Closed(p, there)
      /\ \A T \in SUBSET Ids : Closed(p, T) /\ id \in T => there \subseteq T
  BY <1>2, ConnectedIs
<1> HIDE DEF there
<1>4. \A n \in DOMAIN c.nodes \cap here : Tied(p, n) = Tied(c, n)
  BY <1>2 DEF Tied
<1>5. Closed(p, here)
  BY <1>1, <1>2, <1>4 DEF Closed
<1>6. there \subseteq here
  BY <1>1, <1>3, <1>5
<1>7. Closed(c, there)
  <2>1. ASSUME NEW m \in DOMAIN c.nodes, Tied(c, m) \cap there # {} PROVE Tied(c, m) \subseteq there
    <3>1. Tied(c, m) \subseteq here
      BY <1>1, <1>6, <2>1 DEF Closed
    <3>2. m \in Tied(c, m)
      BY CatalogAssumption DEF WellFormed, Tied, Related
    <3>3. m \in DOMAIN p.nodes /\ Tied(p, m) = Tied(c, m)
      BY <1>2, <1>4, <3>1, <3>2
    <3>4. QED BY <1>3, <2>1, <3>3 DEF Closed
  <2>2. QED BY <2>1 DEF Closed
<1>8. here \subseteq there
  BY <1>1, <1>3, <1>7
<1>9. QED BY <1>6, <1>8 DEF here, p, there

\* A command depends on the component of the session that was named, and on nothing else.
LEMMA PartCommand ==
    ASSUME NEW c, WellFormed(c), OneParent(c), NEW id \in Ids
    PROVE  MutationTree(Part(c, Connected(c, id)), id) = MutationTree(c, id)
<1> DEFINE here == Connected(c, id)
           p == Part(c, here)
<1>1. id \in here /\ here \in SUBSET Ids /\ Closed(c, here) /\ Connected(p, id) = here
  BY ConnectedIs, PartConnected
<1> HIDE DEF here
<1>2. /\ WellFormed(p) /\ OneParent(p)
      /\ DOMAIN p.nodes = DOMAIN c.nodes \cap here /\ p.issues = c.issues \cap here
  BY <1>1, PartIs
<1>3. \A x \in here : Root(p, x) = Root(c, x)
  BY <1>1, PartResolves DEF Root
<1> HIDE DEF p
<1>4. DamagedAround(p, id) = DamagedAround(c, id)
  <2>1. DamagedAround(p, id) <=>
          \/ here \cap p.issues # {}
          \/ \E other \in here \cap DOMAIN p.nodes : Root(p, other) = Refused
    BY <1>1 DEF DamagedAround
  <2>2. DamagedAround(c, id) <=>
          \/ here \cap c.issues # {}
          \/ \E other \in here \cap DOMAIN c.nodes : Root(c, other) = Refused
    BY DEF DamagedAround, here
  <2>3. DamagedAround(p, id) \in BOOLEAN /\ DamagedAround(c, id) \in BOOLEAN
    BY DEF DamagedAround
  <2>4. QED BY <1>2, <1>3, <2>1, <2>2, <2>3
<1>5. MutationTree(p, id) =
        IF DamagedAround(p, id) \/ 4 * Cardinality(Connected(p, id)) > MaxKeys THEN Refused
        ELSE [root |-> Root(p, id), members |-> Connected(p, id)]
  BY <1>2, CommandIs
<1>6. MutationTree(c, id) =
        IF DamagedAround(c, id) \/ 4 * Cardinality(here) > MaxKeys THEN Refused
        ELSE [root |-> Root(c, id), members |-> here]
  BY CommandIs DEF here
<1>7. QED
  <2>1. Root(p, id) = Root(c, id)
    BY <1>1, <1>3
  <2>2. MutationTree(p, id) = MutationTree(c, id)
    BY <1>1, <1>4, <1>5, <1>6, <2>1
  <2>3. QED BY <2>2 DEF here, p

-----------------------------------------------------------------------------
(***************************************************************************)
(* Reading the files.                                                      *)
(***************************************************************************)
\* A node whose parent and whose origin contradict each other is in doubt.
Contradictory(links) == None \notin {links.parent, links.fork} /\ links.parent # links.fork

\* A link that the catalog did not keep is of a file that put an id in doubt.
Kept(f) ==
    /\ f.meta = "node" => f.id \in DOMAIN nodes /\ (nodes[f.id] = f.links \/ f.id \in issues)
    /\ f.meta = "invalid" /\ f.name # None => f.name \in issues

FilesInv == \A f \in files : Kept(f)

NodesInv ==
    /\ IsFiniteSet(files) /\ IsFiniteSet(DOMAIN nodes)
    /\ \A id \in DOMAIN nodes : Contradictory(nodes[id]) => id \in issues

CatalogInv == CatalogTypeOK /\ NodesInv /\ FilesInv

\* What a file can say.
LEMMA FileIs ==
    ASSUME NEW f \in Files
    PROVE  /\ f.id \in Ids /\ f.name \in Ids \cup {None} /\ f.links \in Links
           /\ NoLinks \in Links /\ ~Contradictory(NoLinks)
BY FilesAssumption DEF File, Links, NoLinks, Contradictory

\* Nothing has been read.
LEMMA InitInv == Init => CatalogInv
<1> SUFFICES ASSUME Init PROVE CatalogInv
  OBVIOUS
<1>1. files = {} /\ DOMAIN nodes = {} /\ issues = {} /\ aborted = FALSE
  BY DEF Init
<1>2. IsFiniteSet(files) /\ Cardinality(files) = 0 /\ IsFiniteSet(DOMAIN nodes)
  BY <1>1, FS_EmptySet
<1>3. Cardinality(files) <= MaxFiles
  BY <1>2, CatalogAssumption
<1>4. CatalogTypeOK
  BY <1>1, <1>3 DEF CatalogTypeOK
<1>5. NodesInv
  BY <1>1, <1>2 DEF NodesInv
<1>6. FilesInv
  BY <1>1 DEF FilesInv
<1>7. QED BY <1>4, <1>5, <1>6 DEF CatalogInv

\* What the catalog knows and doubts of a file it goes on knowing and doubting.
LEMMA FilesStayKept ==
    ASSUME FilesInv, NEW f, files' = files \cup {f}, Kept(f)',
           DOMAIN nodes \subseteq DOMAIN nodes', issues \subseteq issues',
           \A id \in DOMAIN nodes : nodes'[id] = nodes[id]
    PROVE  FilesInv'
<1> SUFFICES ASSUME NEW g \in files PROVE Kept(g)'
  BY DEF FilesInv
<1>1. Kept(g)
  BY DEF FilesInv
<1>2. QED BY <1>1 DEF Kept

\* Inserting what a file says of an id that it names, and noting a contradiction in it.
LEMMA InsertInv ==
    ASSUME CatalogInv, NEW f \in Files, NEW id \in Ids, NEW links \in Links,
           f \notin files, Cardinality(files) < MaxFiles, files' = files \cup {f},
           links \in Says(f, id), nodes' = Inserted(id, links), aborted' = aborted,
           f.meta = "node" => id = f.id /\ links = f.links,
           Conflict(id, links) => id \in issues',
           issues \subseteq issues', Contradictory(links) => id \in issues',
           \A other \in issues' \ issues : other \in Ids /\ other \in {f.name, f.id}
    PROVE  CatalogInv'
<1>1. IsFiniteSet(files') /\ Cardinality(files') <= MaxFiles
  <2>1. IsFiniteSet(files) /\ Cardinality(files) \in Nat
    BY FS_CardinalityType DEF CatalogInv, NodesInv
  <2>2. IsFiniteSet(files \cup {f}) /\ Cardinality(files \cup {f}) = Cardinality(files) + 1
    BY <2>1, FS_AddElement
  <2>3. QED BY <2>1, <2>2, CatalogAssumption
<1>2. /\ DOMAIN nodes' = DOMAIN nodes \cup {id}
      /\ \A other \in DOMAIN nodes : nodes'[other] = nodes[other]
      /\ id \notin DOMAIN nodes => nodes'[id] = links
  BY DEF Inserted
<1>3. IsFiniteSet(DOMAIN nodes')
  BY <1>2, FS_AddElement DEF CatalogInv, NodesInv
<1>4. id \in {f.name, f.id}
  BY DEF Says
<1>5. \A other \in DOMAIN nodes' : nodes'[other] \in Links /\ \E g \in files' : nodes'[other] \in Says(g, other)
  BY <1>2 DEF CatalogInv, CatalogTypeOK
<1>6. \A other \in DOMAIN nodes' : Contradictory(nodes'[other]) => other \in issues'
  BY <1>2 DEF CatalogInv, NodesInv
<1>7. \A other \in Ids : other \in DOMAIN nodes' \/ other \in issues' =>
          \E g \in files' : other \in {g.name, g.id}
  <2>1. ASSUME NEW other \in Ids, other \in DOMAIN nodes' \/ other \in issues'
        PROVE  \E g \in files' : other \in {g.name, g.id}
    <3>1. CASE other \in DOMAIN nodes \/ other \in issues
      BY <3>1 DEF CatalogInv, CatalogTypeOK
    <3>2. CASE other \notin DOMAIN nodes /\ other \notin issues
      BY <1>2, <1>4, <2>1, <3>2
    <3>3. QED BY <3>1, <3>2
  <2>2. QED BY <2>1
<1>8. /\ files' \subseteq Files /\ aborted' \in BOOLEAN /\ DOMAIN nodes' \subseteq Ids
      /\ issues' \subseteq Ids
  BY <1>2 DEF CatalogInv, CatalogTypeOK
<1>9. CatalogTypeOK'
  BY <1>1, <1>5, <1>7, <1>8 DEF CatalogTypeOK
<1>10. NodesInv'
  BY <1>1, <1>3, <1>6 DEF NodesInv
<1>11. FilesInv'
  <2>1. nodes'[id] = links \/ Conflict(id, links)
    BY <1>2 DEF Conflict
  <2>2. f.meta # "invalid"
    BY DEF Says
  <2>3. Kept(f)'
    BY <1>2, <2>1, <2>2 DEF Kept
  <2>4. QED BY <1>2, <2>3, FilesStayKept DEF CatalogInv
<1>12. QED BY <1>9, <1>10, <1>11 DEF CatalogInv

\* A file that adds no node may put the id it is named after in doubt.
LEMMA NoNodeInv ==
    ASSUME CatalogInv, NEW f \in Files,
           f \notin files, Cardinality(files) < MaxFiles, files' = files \cup {f},
           nodes' = nodes, aborted' \in BOOLEAN, issues \subseteq issues',
           f.meta # "node", f.meta = "invalid" /\ f.name # None => f.name \in issues',
           \A other \in issues' \ issues : other \in Ids /\ other \in {f.name, f.id}
    PROVE  CatalogInv'
<1>1. IsFiniteSet(files') /\ Cardinality(files') <= MaxFiles
  <2>1. IsFiniteSet(files) /\ Cardinality(files) \in Nat
    BY FS_CardinalityType DEF CatalogInv, NodesInv
  <2>2. IsFiniteSet(files \cup {f}) /\ Cardinality(files \cup {f}) = Cardinality(files) + 1
    BY <2>1, FS_AddElement
  <2>3. QED BY <2>1, <2>2, CatalogAssumption
<1>2. CatalogTypeOK'
  BY <1>1 DEF CatalogInv, CatalogTypeOK
<1>3. NodesInv'
  BY <1>1 DEF CatalogInv, NodesInv
<1>4. Kept(f)'
  BY DEF Kept
<1>5. FilesInv'
  BY <1>4, FilesStayKept DEF CatalogInv
<1>6. QED BY <1>2, <1>3, <1>5 DEF CatalogInv

\* Every file leaves the catalog as it should be, whatever it says.
LEMMA ReadFileInv ==
    ASSUME CatalogInv, NEW f \in Files, ReadFile(f)
    PROVE  CatalogInv'
<1>1. /\ f \notin files /\ Cardinality(files) < MaxFiles /\ files' = files \cup {f}
      /\ aborted' = aborted
  BY DEF ReadFile
<1>2. CASE f.meta = "node"
  <2>1. nodes' = Inserted(f.id, f.links) /\ issues' = issues \cup IssuesOf(f)
    BY <1>2 DEF ReadFile
  <2>2. f.links \in Says(f, f.id)
    BY <1>2 DEF Says
  <2>3. /\ issues \subseteq issues' /\ (Contradictory(f.links) => f.id \in issues')
        /\ Conflict(f.id, f.links) => f.id \in issues'
        /\ \A other \in issues' \ issues : other \in Ids /\ other \in {f.name, f.id}
    BY <2>1, FileIs DEF IssuesOf, Contradictory
  <2>4. QED BY <1>1, <2>1, <2>2, <2>3, FileIs, InsertInv
<1>3. CASE f.meta = "invalid"
  <2>1. nodes' = nodes /\ issues' = issues \cup ({f.name} \ {None})
    BY <1>3 DEF ReadFile
  <2>2. /\ issues \subseteq issues' /\ (f.name # None => f.name \in issues')
        /\ \A other \in issues' \ issues : other \in Ids /\ other \in {f.name, f.id}
    BY <2>1, FileIs
  <2>3. aborted' \in BOOLEAN
    BY <1>1 DEF CatalogInv, CatalogTypeOK
  <2>4. QED BY <1>1, <1>3, <2>1, <2>2, <2>3, NoNodeInv
<1>4. CASE f.meta = "none" /\ f.name # None
  <2>1. /\ nodes' = Inserted(f.name, NoLinks)
        /\ issues' = issues \cup IF Conflict(f.name, NoLinks) THEN {f.name} ELSE {}
    BY <1>4 DEF ReadFile
  <2>2. NoLinks \in Says(f, f.name) /\ f.name \in Ids
    BY <1>4, FileIs DEF Says
  <2>3. /\ issues \subseteq issues' /\ (Conflict(f.name, NoLinks) => f.name \in issues')
        /\ \A other \in issues' \ issues : other \in Ids /\ other \in {f.name, f.id}
    BY <2>1, <2>2
  <2>4. QED BY <1>1, <1>4, <2>1, <2>2, <2>3, FileIs, InsertInv
<1>5. CASE f.meta = "none" /\ f.name = None
  <2>1. nodes' = nodes /\ issues' = issues
    BY <1>5 DEF ReadFile
  <2>2. aborted' \in BOOLEAN
    BY <1>1 DEF CatalogInv, CatalogTypeOK
  <2>3. QED BY <1>1, <1>5, <2>1, <2>2, NoNodeInv
<1>6. f.meta \in {"node", "invalid", "none"}
  BY DEF ReadFile
<1>7. QED BY <1>2, <1>3, <1>4, <1>5, <1>6

\* Every step keeps the invariant.
LEMMA NextInv == CatalogInv /\ [Next]_vars => CatalogInv'
<1> SUFFICES ASSUME CatalogInv, [Next]_vars PROVE CatalogInv'
  OBVIOUS
<1>1. ASSUME NEW f \in Files, ReadFile(f) PROVE CatalogInv'
  BY <1>1, ReadFileInv
<1>2. ASSUME NEW f \in Files, ReadFails(f) PROVE CatalogInv'
  <2>1. /\ f \notin files /\ Cardinality(files) < MaxFiles /\ files' = files \cup {f}
        /\ aborted' \in BOOLEAN /\ nodes' = nodes /\ issues' = issues
        /\ f.meta = "unreadable"
    BY <1>2 DEF ReadFails, Unreadable
  <2>2. QED BY <2>1, NoNodeInv
<1>3. CASE DirectoryFails
  BY <1>3 DEF DirectoryFails, CatalogInv, CatalogTypeOK, NodesInv, FilesInv, Kept
<1>4. CASE UNCHANGED vars
  BY <1>4 DEF vars, CatalogInv, CatalogTypeOK, NodesInv, FilesInv, Kept
<1>5. QED BY <1>1, <1>2, <1>3, <1>4 DEF Next

\* The invariant holds throughout.
LEMMA CatalogInvariant == Spec => []CatalogInv
BY InitInv, NextInv, PTL DEF Spec

\* A catalog that files were read into is one that the lemmas are about.
LEMMA CatalogIsWellFormed ==
    ASSUME CatalogInv
    PROVE  WellFormed(Catalog) /\ OneParent(Catalog)
<1>1. Catalog.nodes = nodes /\ Catalog.issues = issues
  BY DEF Catalog
<1>2. WellFormed(Catalog)
  BY <1>1 DEF WellFormed, CatalogInv, CatalogTypeOK, NodesInv
<1>3. OneParent(Catalog)
  BY <1>1 DEF OneParent, CatalogInv, NodesInv, Contradictory
<1>4. QED BY <1>2, <1>3

-----------------------------------------------------------------------------
(***************************************************************************)
(* The theorems.                                                           *)
(***************************************************************************)
\* SessionCatalog::discover keeps its types; every link it keeps of an id is what one
\* file says, and every id it knows or doubts is named by a file.
THEOREM CatalogTypeCorrect == Spec => []CatalogTypeOK
<1>1. CatalogInv => CatalogTypeOK
  BY DEF CatalogInv
<1>2. QED BY <1>1, CatalogInvariant, PTL

\* connected_ids finds the smallest set with the session that no link leaves or enters:
\* in a catalog of any size the loop stops neither too early nor too late.
THEOREM ConnectedIsComponent ==
    Spec => [](\A id \in Ids :
        /\ id \in Connected(Catalog, id) /\ Closed(Catalog, Connected(Catalog, id))
        /\ \A S \in SUBSET Ids :
             Closed(Catalog, S) /\ id \in S => Connected(Catalog, id) \subseteq S)
<1>1. CatalogInv => \A id \in Ids :
        /\ id \in Connected(Catalog, id) /\ Closed(Catalog, Connected(Catalog, id))
        /\ \A S \in SUBSET Ids :
             Closed(Catalog, S) /\ id \in S => Connected(Catalog, id) \subseteq S
  BY CatalogIsWellFormed, ConnectedIs
<1>2. QED BY <1>1, CatalogInvariant, PTL

\* A session command names every session that the catalog links to the one that was named,
\* and leaves out no session that a file ties to them, but for the damage whose links the
\* catalog does not keep, or is refused (mutation_tree_for).
THEOREM CommandMovesWholeTree == Spec => []WholeTreeOrNothing
<1>1. CatalogInv => WholeTreeOrNothing
  <2> SUFFICES ASSUME CatalogInv, NEW id \in Ids, Possible(id)
               PROVE  /\ Command(id).members = Connected(Catalog, id)
                      /\ \A f \in files : Ties(f, Connected(Catalog, id)) =>
                            \/ f.meta = "invalid" /\ f.name \notin Connected(Catalog, id)
                            \/ f.meta = "node" /\ f.id \in issues \ Connected(Catalog, id)
    BY DEF WholeTreeOrNothing
  <2> DEFINE here == Connected(Catalog, id)
  <2>1. /\ Command(id) = [root |-> Root(Catalog, id), members |-> here]
        /\ ~DamagedAround(Catalog, id)
    BY CatalogIsWellFormed, CommandIs DEF Possible, Command
  <2>2. /\ here \in SUBSET Ids /\ Closed(Catalog, here)
        /\ here \cap issues = {}
    BY <2>1, CatalogIsWellFormed, ConnectedIs DEF DamagedAround, Catalog
  <2> HIDE DEF here
  <2>3. ASSUME NEW f \in files, Ties(f, here)
        PROVE  \/ f.meta = "invalid" /\ f.name \notin here
               \/ f.meta = "node" /\ f.id \in issues \ here
    <3>1. Kept(f) /\ f \in Files /\ f.meta \in {"node", "invalid"}
      BY <2>3 DEF CatalogInv, CatalogTypeOK, FilesInv, Ties, Mentioned
    <3>2. CASE f.meta = "invalid"
      BY <2>2, <3>1, <3>2, CatalogAssumption DEF Kept
    <3>3. CASE f.meta = "node"
      <4>1. f.id \in issues
        <5>1. SUFFICES ASSUME f.id \notin issues PROVE FALSE
          OBVIOUS
        <5>2. f.id \in DOMAIN nodes /\ nodes[f.id] = f.links
          BY <3>1, <3>3, <5>1 DEF Kept
        <5>3. Tied(Catalog, f.id) = Mentioned(f) /\ f.id \in DOMAIN Catalog.nodes
          BY <3>3, <5>2 DEF Tied, Mentioned, Catalog
        <5>4. QED BY <2>2, <2>3, <5>3 DEF Closed, Ties
      <4>2. QED BY <2>2, <3>3, <4>1
    <3>4. QED BY <3>1, <3>2, <3>3
  <2>4. Command(id).members = here
    BY <2>1
  <2>5. QED BY <2>3, <2>4 DEF here
<1>2. QED BY <1>1, CatalogInvariant, PTL

\* The command is the same whichever member of the tree is named (resolve_root gives all
\* of them one root, mutation_tree_for the same answer).
THEOREM CommandSameForMembers == Spec => []SameCommandForEveryMember
<1>1. CatalogInv => SameCommandForEveryMember
  <2> SUFFICES ASSUME CatalogInv, NEW id \in Ids, Possible(id),
                      NEW member \in Command(id).members
               PROVE  Command(member) = Command(id)
    BY DEF SameCommandForEveryMember
  <2>1. /\ Command(id) = [root |-> Root(Catalog, id), members |-> Connected(Catalog, id)]
        /\ ~DamagedAround(Catalog, id) /\ ~aborted
    BY CatalogIsWellFormed, CommandIs DEF Possible, Command
  <2>2. member \in Connected(Catalog, id)
    BY <2>1
  <2>3. MutationTree(Catalog, member) = MutationTree(Catalog, id)
    BY <2>1, <2>2, CatalogIsWellFormed, SameCommand
  <2>4. QED BY <2>1, <2>3 DEF Command
<1>2. QED BY <1>1, CatalogInvariant, PTL

\* What is wrong with the metadata of other trees does not change what a command does; only
\* an error of reading a file or a directory refuses it, as it refuses all.
THEOREM CommandIgnoresOtherTrees == Spec => []OnlyReadErrorsSpread
<1>1. CatalogInv => OnlyReadErrorsSpread
  <2> SUFFICES ASSUME CatalogInv, NEW id \in Ids, ~aborted
               PROVE  Command(id) = MutationTree(Near(id), id)
    BY DEF OnlyReadErrorsSpread, Possible, Command
  <2>1. Near(id) = Part(Catalog, Connected(Catalog, id))
    BY DEF Near, Part, Catalog
  <2>2. QED BY <2>1, CatalogIsWellFormed, PartCommand DEF Command
<1>2. QED BY <1>1, CatalogInvariant, PTL
=============================================================================
