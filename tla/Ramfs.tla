-------------------------------- MODULE Ramfs --------------------------------
(***************************************************************************)
(* fs/ramfs.c: the pool of nodes as a value, and what each function makes   *)
(* of it.  A text is a path or a name as the callers pass it: absolute or   *)
(* not, and the words between its slashes.  A name longer than              *)
(* RAMFS_MAX_NAME - 1 characters is a member of Long; all of them are cut   *)
(* to the same stored name.  Content is a sequence of bytes; its length is  *)
(* the field `size'.                                                        *)
(***************************************************************************)
EXTENDS Integers, Sequences, FiniteSets

CONSTANTS
  MaxNodes,     \* RAMFS_MAX_NODES
  MaxChildren,  \* RAMFS_MAX_CHILDREN
  MaxContent,   \* RAMFS_MAX_CONTENT
  Short,        \* the words that fit a name
  Long          \* the words that do not

ASSUME RamfsAssumption ==
  /\ MaxNodes \in Nat \ {0} /\ MaxChildren \in Nat /\ MaxContent \in Nat \ {0}
  /\ Short \cap Long = {}

NodeId == 0 .. MaxNodes - 1
Root   == 0
None   == -1

Cut  == "cut"

\* A path as typed: absolute or not, and its words.
Word(w) == [abs |-> FALSE, words |-> <<w>>]

\* _rcpy into a name, and the component buffer of ramfs_resolve_path
Fitted(w)  == IF w \in Long THEN Cut ELSE w
Stored(t)  == IF ~t.abs /\ Len(t.words) = 1 THEN Word(Fitted(t.words[1])) ELSE t

Free == [used |-> FALSE, dir |-> FALSE, name |-> Word(Cut), parent |-> None,
         children |-> <<>>, content |-> <<>>]

IsNode(ns, i) == i \in NodeId /\ ns[i].used
IsDir(ns, i)  == IsNode(ns, i) /\ ns[i].dir
IsFile(ns, i) == IsNode(ns, i) /\ ~ns[i].dir

Lowest(S) == CHOOSE i \in S : \A j \in S : i <= j

\* ramfs_find: the first child of that name
Matches(ns, p, t) ==
  {k \in DOMAIN ns[p].children :
     /\ ns[ns[p].children[k]].used
     /\ ns[ns[p].children[k]].name = t}
Find(ns, p, t) ==
  IF IsDir(ns, p) /\ Matches(ns, p, t) # {}
  THEN ns[p].children[Lowest(Matches(ns, p, t))] ELSE None

\* ramfs_create and ramfs_mkdir: the name is compared in full and stored cut.
Unused(ns) == {i \in NodeId : ~ns[i].used}
\* Mutant: no test for a node of that name
MayAddTwice(ns, p, t) ==
  /\ IsDir(ns, p)
  /\ Len(ns[p].children) < MaxChildren
  /\ Unused(ns) # {}
MayAdd(ns, p, t) ==
  /\ IsDir(ns, p)
  /\ Len(ns[p].children) < MaxChildren
  /\ Find(ns, p, t) = None
  /\ Unused(ns) # {}
Fresh(ns) == Lowest(Unused(ns))
Added(ns, p, t, dir) ==
  [ns EXCEPT ![Fresh(ns)] = [Free EXCEPT !.used = TRUE, !.dir = dir,
                                         !.name = Stored(t), !.parent = p],
             ![p].children = Append(@, Fresh(ns))]
AddedIfPossible(ns, p, t, dir) ==
  IF MayAdd(ns, p, t) THEN Added(ns, p, t, dir) ELSE ns

\* ramfs_write and ramfs_append keep the last byte of the array for a NUL.
First(n, s) == SubSeq(s, 1, IF n < Len(s) THEN n ELSE Len(s))
\* Mutants: no cut at the size of the array, no test of the type
Written(ns, i, s) ==
  IF IsFile(ns, i) THEN [ns EXCEPT ![i].content = First(MaxContent - 1, s)] ELSE ns
Appended(ns, i, s) ==
  IF IsFile(ns, i)
  THEN [ns EXCEPT ![i].content = First(MaxContent - 1, @ \o s)] ELSE ns

\* ramfs_remove.  Every access tests in_use, so a node that is given back may as
\* well be blank.
\* The children after the first entry for i move down by one.
Places(s, i)  == {k \in DOMAIN s : s[k] = i}
Without(s, i) ==
  LET k == Lowest(Places(s, i))
  IN IF Places(s, i) = {} THEN s ELSE SubSeq(s, 1, k - 1) \o SubSeq(s, k + 1, Len(s))
\* Mutant: a directory that is not empty may go
MayRemoveFull(ns, i) == i > Root /\ IsNode(ns, i)
MayRemove(ns, i) ==
  /\ i > Root /\ IsNode(ns, i)
  /\ ns[i].dir => ns[i].children = <<>>
Removed(ns, i) ==
  LET p == ns[i].parent
  IN IF IsNode(ns, p)
     THEN [ns EXCEPT ![p].children = Without(@, i), ![i] = Free]
     ELSE [ns EXCEPT ![i] = Free]

\* ramfs_resolve_path, one component after the other
Child(ns, i, w) ==
  IF w = ".." THEN (IF ns[i].parent >= 0 THEN ns[i].parent ELSE i)
  ELSE Find(ns, i, Word(Fitted(w)))
Resolve(ns, t) ==
  LET walk[k \in 0 .. Len(t.words)] ==
        IF k = 0 THEN Root
        ELSE IF walk[k - 1] = None THEN None
        ELSE Child(ns, walk[k - 1], t.words[k])
  IN IF t.abs THEN walk[Len(t.words)] ELSE None

\* The node, its parent, the parent of that, n times
Ancestors(ns, i, n) ==
  LET up[k \in 0 .. n] ==
        IF k = 0 THEN i ELSE IF up[k - 1] = None THEN None ELSE ns[up[k - 1]].parent
  IN up

\* ramfs_get_path: the names of at most eight nodes, from i towards the root;
\* the outermost of them is left out, whether it is the root or not.
PathOf(ns, i) ==
  LET up    == Ancestors(ns, i, 7)
      depth == Cardinality({k \in 0 .. 7 : up[k] # None})
  IN IF ~IsNode(ns, i) THEN <<>>
     ELSE [k \in 1 .. depth - 1 |-> ns[up[depth - 1 - k]].name]

\* The pool after ramfs_init: an empty root.
EmptyPool == [i \in NodeId |->
                IF i = Root THEN [Free EXCEPT !.used = TRUE, !.dir = TRUE,
                                              !.name = [abs |-> TRUE, words |-> <<>>]]
                ELSE Free]

(* The pool is a tree, locally: what every function above relies on.        *)
RootOK(ns) == IsDir(ns, Root) /\ ns[Root].parent = None
ParentOK(ns, i) ==
  /\ IsDir(ns, ns[i].parent)
  /\ \E k \in DOMAIN ns[ns[i].parent].children : ns[ns[i].parent].children[k] = i
ChildOK(ns, p, k) ==
  /\ IsNode(ns, ns[p].children[k])
  /\ ns[ns[p].children[k]].parent = p
NoChildTwice(ns, p) ==
  \A k, l \in DOMAIN ns[p].children : ns[p].children[k] = ns[p].children[l] => k = l
Tree(ns) ==
  /\ RootOK(ns)
  /\ \A i \in NodeId \ {Root} : ns[i].used => ParentOK(ns, i)
  /\ \A p \in NodeId : \A k \in DOMAIN ns[p].children : ChildOK(ns, p, k)
  /\ \A p \in NodeId : NoChildTwice(ns, p)
=============================================================================
