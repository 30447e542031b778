--------------------------- MODULE SessionCatalog ---------------------------
(***************************************************************************)
(* The session commands of the command line (cli.rs): they read the        *)
(* rollout files that Codex has left, group the sessions into trees and    *)
(* send the daemon the keys of one whole tree.                             *)
(*                                                                         *)
(* Files are read in the order the directory gives, which is arbitrary;    *)
(* what a file says is a record, well formed or not.  The operators take   *)
(* the catalog as an argument, so that parts of it can be compared.        *)
(***************************************************************************)
EXTENDS Integers, FiniteSets

CONSTANTS
    Ids,
    None,
    Refused,    \* a command that ends with an error message
    Files,      \* the rollout files there may be
    MaxFiles,
    MaxKeys     \* MAX_SESSION_ACTION_KEYS

ASSUME CatalogAssumption ==
    /\ None \notin Ids /\ Refused \notin Ids
    /\ MaxFiles \in Nat /\ MaxKeys \in Nat

VARIABLES
    files,      \* the files read so far, at any moment possibly all there are
    nodes,      \* SessionCatalog.nodes: id -> links
    issues,     \* SessionCatalog.issues: ids that something is wrong with
    aborted     \* discover has returned an error; the rest is what it had read by then

vars == <<files, nodes, issues, aborted>>

-----------------------------------------------------------------------------
Links == [session : Ids \cup {None}, parent : Ids \cup {None}, fork : Ids \cup {None}]
NoLinks == [session |-> None, parent |-> None, fork |-> None]

\* A file is named after an id or not; it may have no metadata at all, metadata of which
\* some field is not an id ("invalid", with what its other fields say), or a node; or it
\* cannot be opened, or not be read as text.
File == [name : Ids \cup {None}, meta : {"none", "invalid", "node", "unreadable"},
         id : Ids, links : Links]

ASSUME FilesAssumption == Files \subseteq File

Parent(node) == IF node.parent # None THEN node.parent ELSE node.fork
Related(id, node) == {id, node.session, node.parent, node.fork} \ {None}

\* first_session_meta returns an error.
Unreadable(f) == f.meta = "unreadable"

\* The links a file gives for an id.
Says(f, id) ==
    IF f.meta = "node" /\ f.id = id THEN {f.links}
    ELSE IF f.meta = "none" /\ f.name = id THEN {NoLinks} ELSE {}

\* Types; what is kept of an id is what one file says of it, and every id that is known or
\* in doubt is named by a file.
CatalogTypeOK ==
    /\ files \subseteq Files /\ Cardinality(files) <= MaxFiles /\ aborted \in BOOLEAN
    /\ DOMAIN nodes \subseteq Ids
    /\ \A id \in DOMAIN nodes : nodes[id] \in Links /\ \E f \in files : nodes[id] \in Says(f, id)
    /\ issues \subseteq Ids
    /\ \A id \in Ids : id \in DOMAIN nodes \/ id \in issues =>
           \E f \in files : id \in {f.name, f.id}

Init ==
    /\ files = {}
    /\ nodes = [id \in {} |-> NoLinks]
    /\ issues = {}
    /\ aborted = FALSE

\* Mutant: a second file fills in what the first leaves open.
MergedLinks(id, links) ==
    [other \in DOMAIN nodes \cup {id} |->
        IF other # id THEN nodes[other]
        ELSE IF id \notin DOMAIN nodes THEN links
        ELSE [link \in DOMAIN links |->
                 IF nodes[id][link] # None THEN nodes[id][link] ELSE links[link]]]

\* insert_node: of two files about one id the one read first counts.
Inserted(id, links) ==
    IF id \in DOMAIN nodes THEN nodes
    ELSE [other \in DOMAIN nodes \cup {id} |-> IF other = id THEN links ELSE nodes[other]]

Conflict(id, links) == id \in DOMAIN nodes /\ nodes[id] # links

\* Mutant: other metadata for the same id goes unnoticed.
MisnamedOnly(f) ==
    IF f.name \notin {None, f.id} THEN {f.name, f.id} ELSE {}

\* What is wrong with a file that has a node.
IssuesOf(f) ==
    (IF f.name \notin {None, f.id} THEN {f.name, f.id} ELSE {})
      \cup (IF /\ None \notin {f.links.parent, f.links.fork} /\ f.links.parent # f.links.fork
            THEN {f.id} ELSE {})
      \cup (IF Conflict(f.id, f.links) THEN {f.id} ELSE {})

\* One file of SessionCatalog::discover
ReadFile(f) ==
    /\ ~aborted /\ f \notin files /\ Cardinality(files) < MaxFiles
    /\ files' = files \cup {f}
    /\ \/ /\ f.meta = "node"
          /\ nodes' = Inserted(f.id, f.links)
          /\ issues' = issues \cup IssuesOf(f)
       \/ /\ f.meta = "invalid"
          /\ issues' = issues \cup ({f.name} \ {None})
          /\ UNCHANGED nodes
       \/ /\ f.meta = "none" /\ f.name # None
          /\ nodes' = Inserted(f.name, NoLinks)
          /\ issues' = issues \cup IF Conflict(f.name, NoLinks) THEN {f.name} ELSE {}
       \/ /\ f.meta = "none" /\ f.name = None
          /\ UNCHANGED <<nodes, issues>>
    /\ UNCHANGED aborted

\* A file cannot be read, whatever session it is about: discover ends there.
ReadFails(f) ==
    /\ ~aborted /\ f \notin files /\ Cardinality(files) < MaxFiles
    /\ Unreadable(f)
    /\ files' = files \cup {f}
    /\ aborted' = TRUE
    /\ UNCHANGED <<nodes, issues>>

\* A directory or one of its entries cannot be read.
DirectoryFails ==
    /\ ~aborted
    /\ aborted' = TRUE
    /\ UNCHANGED <<files, nodes, issues>>

Next ==
    \/ \E f \in Files : ReadFile(f) \/ ReadFails(f)
    \/ DirectoryFails

Spec == Init /\ [][Next]_vars

-----------------------------------------------------------------------------
(***************************************************************************)
(* What a command makes of a catalog c.                                    *)
(***************************************************************************)
Catalog == [nodes |-> nodes, issues |-> issues]

\* resolve_root: a session_id names the root, which must be one and be the parent's too;
\* without it the root is the parent's.
Resolve(c, id, visiting) ==
    LET resolve[seen \in SUBSET Ids] == [other \in Ids |->
            IF other \in c.issues THEN Refused
            ELSE IF other \notin DOMAIN c.nodes THEN other
            ELSE IF other \in seen THEN Refused
            ELSE LET node == c.nodes[other]
                     Of == resolve[seen \cup {other}]
                 IN  IF node.session # None
                     THEN IF /\ node.session # other => Of[node.session] = node.session
                             /\ Parent(node) # None => Of[Parent(node)] = node.session
                          THEN node.session ELSE Refused
                     ELSE IF Parent(node) # None THEN Of[Parent(node)] ELSE other]
    IN  resolve[visiting][id]

Root(c, id) == Resolve(c, id, {})

\* session_trees: the ids of the tree with this root.
Members(c, root) ==
    LET own == {id \in DOMAIN c.nodes : Root(c, id) = root}
        aliases == UNION {Related(id, c.nodes[id]) : id \in own}
    IN  {root} \cup own \cup {alias \in aliases : Root(c, alias) = root}

\* Mutant: the component is what points to the id itself.
DirectlyConnected(c, id) ==
    {id} \cup UNION {Related(n, c.nodes[n]) : n \in {m \in DOMAIN c.nodes : id \in Related(m, c.nodes[m])}}

\* Everything that one more link leads to, in either direction.
Grown(c, ids) ==
    ids \cup UNION {Related(n, c.nodes[n]) :
                       n \in {m \in DOMAIN c.nodes : Related(m, c.nodes[m]) \cap ids # {}}}

\* connected_ids: everything that links lead to, over any number of them.
Connected(c, id) ==
    LET after[k \in 0..Cardinality(DOMAIN c.nodes)] ==
            IF k = 0 THEN {id} ELSE Grown(c, after[k - 1])
    IN  after[Cardinality(DOMAIN c.nodes)]

\* Mutant: any problem of any file refuses every command.
AnyIssue(c, id) == c.issues # {}

DamagedAround(c, id) ==
    LET ids == Connected(c, id)
    IN  \/ ids \cap c.issues # {}
        \/ \E other \in ids \cap DOMAIN c.nodes : Root(c, other) = Refused

\* mutation_tree_for and session_tree_aliases: the members whose keys a command sends.
MutationTree(c, id) ==
    LET root == Root(c, id)
    IN  IF DamagedAround(c, id) \/ root = Refused THEN Refused
        ELSE IF 4 * Cardinality(Members(c, root)) > MaxKeys THEN Refused
        ELSE [root |-> root, members |-> Members(c, root)]

\* What the command for a session sends; without a catalog there is none.
Command(id) == IF aborted THEN Refused ELSE MutationTree(Catalog, id)

-----------------------------------------------------------------------------
(***************************************************************************)
(* Properties.                                                             *)
(***************************************************************************)
Possible(id) == Command(id) # Refused

\* The sessions that a file names together, in the fields that can be read.
Mentioned(f) == IF f.meta \in {"node", "invalid"} THEN Related(f.id, f.links) ELSE {}

\* A file ties some session of a set to one outside of it.
Ties(f, ids) == Mentioned(f) \cap ids # {} /\ ~(Mentioned(f) \subseteq ids)

\* A command moves a whole tree or nothing: its members are exactly the sessions that the
\* links of the catalog lead to, in either direction and over any number of them.  No file
\* that was read ties one of them to a session that is left out, but for two kinds of damage
\* whose links the catalog does not keep: ill-formed metadata in a file that is not named
\* after a member, and a contradiction about a session that is left out, for which every
\* command of its own is refused.
WholeTreeOrNothing ==
    \A id \in Ids : Possible(id) =>
        LET members == Command(id).members
        IN  /\ members = Connected(Catalog, id)
            /\ \A f \in files : Ties(f, members) =>
                 \/ f.meta = "invalid" /\ f.name \notin members
                 \/ f.meta = "node" /\ f.id \in issues \ members

\* Whichever session of a tree an operator names, the command is the same: sessions of
\* one tree never get different roots, or a command for some and a refusal for others.
SameCommandForEveryMember ==
    \A id \in Ids :
        Possible(id) => \A member \in Command(id).members : Command(member) = Command(id)

\* What the catalog has about the sessions linked to one.
Near(id) ==
    LET ids == Connected(Catalog, id)
    IN  [nodes |-> [n \in DOMAIN nodes \cap ids |-> nodes[n]], issues |-> issues \cap ids]

\* Of all that can be wrong with the files of other sessions, ill-formed metadata, wrong
\* names, contradictions and cycles, nothing changes a command: it depends on what the
\* session is linked to.  Only an error of reading reaches every session, and refuses all.
OnlyReadErrorsSpread ==
    \A id \in Ids :
        \/ aborted /\ ~Possible(id)
        \/ Command(id) = MutationTree(Near(id), id)
=============================================================================
