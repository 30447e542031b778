---------------------------- MODULE RouteEpochs ----------------------------
(***************************************************************************)
(* What the session-routing tables promise to the processes that hold a    *)
(* routing epoch in memory.  The keys form trees, each named by its root   *)
(* and stamped with a generation:                                          *)
(*                                                                         *)
(*   - keys no tree has yet may join one, and its generation stays;        *)
(*   - trees may be merged under one of their keys, at the largest of      *)
(*     their generations (a command that has to wait for an account);      *)
(*   - trees may be moved, merging them first, at a generation above all   *)
(*     of theirs, which makes every epoch captured before obsolete.        *)
(*                                                                         *)
(* Nothing else ever happens to the trees: not a split, not a key leaving, *)
(* not a generation going back.  SessionRoutes implements this             *)
(* specification; SessionReroute builds on it.                             *)
(***************************************************************************)
EXTENDS Integers

CONSTANTS Keys, NoKey, MaxGeneration

VARIABLES
    keyRoot,    \* the root of the tree each key belongs to, NoKey if none
    gen,        \* the generation of each tree, by root; 0 for every other key
    commanded   \* the roots of the trees some command has been applied to

epochVars == <<keyRoot, gen, commanded>>

EpochInit ==
    /\ keyRoot = [k \in Keys |-> NoKey]
    /\ gen = [r \in Keys |-> 0]
    /\ commanded = {}

TreesOf(keys) == {keyRoot[k] : k \in keys} \ {NoKey}
MembersOf(rs) == {k \in Keys : keyRoot[k] \in rs}
IsRoot(r) == keyRoot[r] = r

\* Keys without a tree join the tree of root, which may be a new one.
Join(root, keys) ==
    /\ TreesOf(keys) \subseteq {root}
    /\ IsRoot(root) \/ (root \in keys /\ TreesOf(keys) = {})
    /\ keyRoot' = [k \in Keys |-> IF k \in keys THEN root ELSE keyRoot[k]]
    /\ UNCHANGED <<gen, commanded>>

\* The trees of the keys become one tree of the given generation under root,
\* one of the keys.
Regroup(root, keys, generation) ==
    LET merged == TreesOf(keys) \cup {root} IN
    /\ root \in keys
    /\ keyRoot' = [k \in Keys |->
                     IF k \in keys \cup MembersOf(merged) THEN root ELSE keyRoot[k]]
    /\ gen' = [r \in Keys |-> IF r = root THEN generation
                              ELSE IF r \in merged THEN 0 ELSE gen[r]]
    /\ commanded' = (commanded \ merged) \cup {root}

\* g is the largest generation among the trees of root and keys.
IsLatest(root, keys, g) ==
    LET merged == TreesOf(keys) \cup {root} IN
    /\ g \in {gen[r] : r \in merged}
    /\ \A r \in merged : gen[r] <= g

Merge(root, keys) ==
    \E g \in 0..MaxGeneration : IsLatest(root, keys, g) /\ Regroup(root, keys, g)

Move(root, keys) ==
    \E g \in 0..(MaxGeneration - 1) : IsLatest(root, keys, g) /\ Regroup(root, keys, g + 1)

EpochNext ==
    \E root \in Keys, keys \in SUBSET Keys :
        Join(root, keys) \/ Merge(root, keys) \/ Move(root, keys)

EpochSpec == EpochInit /\ [][EpochNext]_epochVars
=============================================================================
