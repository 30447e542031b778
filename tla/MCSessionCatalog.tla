-------------------------- MODULE MCSessionCatalog --------------------------
(* A small instance of SessionCatalog for TLC. *)
EXTENDS SessionCatalog, TLC

CONSTANTS s1, s2, s3, s4

FourIds == {s1, s2, s3, s4}
Symmetry == Permutations(FourIds)

Of(name, meta, id, session, parent, fork) ==
    [name |-> name, meta |-> meta, id |-> id,
     links |-> [session |-> session, parent |-> parent, fork |-> fork]]

\* Well-named files with every pair of a session and a parent; forks, misnamed files,
\* contradictory ones, ones with no or ill-formed metadata, and ones that cannot be read.
Nodes == {Of(id, "node", id, session, parent, None) :
             id \in FourIds, session \in FourIds \cup {None}, parent \in FourIds \cup {None}}
Forks == {f \in {Of(id, "node", id, None, parent, fork) :
                    id \in FourIds, parent \in FourIds \cup {None}, fork \in FourIds} :
             f.id \notin {f.links.parent, f.links.fork}}
Misnamed == {Of(name, "node", id, session, None, None) :
                name \in FourIds \cup {None}, id \in FourIds, session \in FourIds}
Bare == {Of(id, "none", id, None, None, None) : id \in FourIds}
Invalid == {Of(id, "invalid", id, None, parent, None) : id \in FourIds, parent \in FourIds}
               \cup {Of(None, "invalid", id, parent, None, None) : id \in FourIds, parent \in FourIds}
Lost == {Of(id, "unreadable", id, None, None, None) : id \in FourIds}
SomeFiles == Nodes \cup Forks \cup Misnamed \cup Bare \cup Invalid \cup Lost
=============================================================================
