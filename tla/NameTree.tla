------------------------------ MODULE NameTree ------------------------------
(***************************************************************************)
(* What FatFs promises of names: files and directories form a tree, a name *)
(* is given once in a directory, and a call changes what its path leads to *)
(* and nothing else.                                                       *)
(*                                                                         *)
(* An object has a short name, unique in its directory, which FatFs        *)
(* chooses for a name that does not fit in one.  tree maps an object's     *)
(* address, the short names on the way to it, to what it is.               *)
(***************************************************************************)
EXTENDS Integers, SequencesExt, FiniteSets

CONSTANTS
    Refers(_, _, _),  \* does a name refer to the object of a short and a long name?
    Shown(_)          \* the long name of an object made by a name

VARIABLES
    tree,      \* address |-> [name, attr, body]
    call       \* the last one: op, path, arg, how it ended, data it returned

space == <<tree, call>>

\* The addresses a path leads to: one or none.
Leads(path) == {a \in DOMAIN tree :
    /\ Len(a) = Len(path)
    /\ \A i \in DOMAIN a : Refers(path[i], a[i], tree[SubSeq(a, 1, i)].name)}

IsDir(a) == a = <<>> \/ (a \in DOMAIN tree /\ "DIR" \in tree[a].attr)
\* The directories that hold what a path leads to.
Homes(path) == IF Len(path) = 1 THEN {<<>>} ELSE {a \in Leads(Front(path)) : IsDir(a)}
Below(a) == {b \in DOMAIN tree : Len(b) > Len(a) /\ SubSeq(b, 1, Len(a)) = a}

\* A name is new where no object is referred to by it.
New(path) == path # <<>> /\ Leads(path) = {} /\ Homes(path) # {}

\* tree' is tree with an object at a new address for the path.
MadeAt(path, a, attr) ==
    /\ a \notin DOMAIN tree /\ Front(a) \in Homes(path)
    /\ DOMAIN tree' = DOMAIN tree \cup {a}
    /\ \A b \in DOMAIN tree : tree'[b] = tree[b]
    /\ Refers(Last(path), Last(a), tree'[a].name) /\ tree'[a].name = Shown(Last(path))
    /\ tree'[a].attr = attr /\ tree'[a].body = <<>>
Made(path, attr) == \E a \in DOMAIN tree' : MadeAt(path, a, attr)

Without(a) == DOMAIN tree' = DOMAIN tree \ {a} /\ \A b \in DOMAIN tree' : tree'[b] = tree[b]

\* a and what is below it move to b.
MovedTo(a, b, path) ==
    LET to(c) == IF c = a \/ c \in Below(a) THEN b \o SubSeq(c, Len(a) + 1, Len(c)) ELSE c
    IN  /\ b \notin DOMAIN tree /\ Front(b) \in Homes(path)
        /\ DOMAIN tree' = {to(c) : c \in DOMAIN tree}
        /\ \A c \in DOMAIN tree \ {a} : tree'[to(c)] = tree[c]
        /\ tree'[b].attr = tree[a].attr /\ tree'[b].body = tree[a].body
        /\ Refers(Last(path), Last(b), tree'[b].name) /\ tree'[b].name = Shown(Last(path))

Free(a) == "RDO" \notin tree[a].attr /\ Below(a) = {}

Least(m, n) == IF m < n THEN m ELSE n
Children(d) == {a \in DOMAIN tree : a # <<>> /\ Front(a) = d}

\* Some of a directory's objects, all if they are not too many, each once.
Lists(data, d, max) ==
    \E as \in [DOMAIN data -> Children(d)] :
        /\ Len(data) = Least(max, Cardinality(Children(d)))
        /\ \A i, j \in DOMAIN as : as[i] = as[j] => i = j
        /\ \A i \in DOMAIN as : data[i] = [name |-> tree[as[i]].name, fn |-> Last(as[i]), dir |-> IsDir(as[i])]

\* May the call succeed, and what it does then.
CanDo(op, path, arg) ==
    CASE op \in {"create", "mkdir"} -> New(path)
      [] op = "unlink" -> \E a \in Leads(path) : Free(a)
      [] op = "rename" -> Leads(path) # {} /\ New(arg)
      [] op = "load" -> \E a \in Leads(path) : ~IsDir(a)
      [] op = "list" -> Homes(Append(path, "")) # {}
      [] op \in {"count", "opendir", "readdir", "mount"} -> TRUE
      [] OTHER -> Leads(path) # {}

Does(op, path, arg) ==
    CASE op = "create" -> Made(path, {"ARC"})
      [] op = "mkdir" -> Made(path, {"DIR"})
      [] op = "unlink" -> \E a \in Leads(path) : Without(a)
      [] op = "rename" -> \E a \in Leads(path), b \in DOMAIN tree' : MovedTo(a, b, arg)
      [] op = "chmod" -> \E a \in Leads(path) :
                            tree' = [tree EXCEPT ![a].attr = (@ \cap {"DIR"}) \cup arg]
      [] op = "stat" -> \E a \in Leads(path) :
                            tree' = tree /\ call'.data = [attr |-> tree[a].attr, size |-> Len(tree[a].body)]
      [] op = "load" -> \E a \in Leads(path) :
                            tree' = tree /\ call'.data = SubSeq(tree[a].body, 1, Least(arg, Len(tree[a].body)))
      [] op = "list" -> \E d \in Homes(Append(path, "")) :
                            tree' = tree /\ Lists(call'.data, d, arg)
      [] OTHER -> tree' = tree

\* A call that may succeed is refused only when there is no room.
Next ==
    \/ call'.end = "failed"                       \* a transfer, or there is another card
    \/ call'.end = "refused" /\ ~CanDo(call'.op, call'.path, call'.arg) /\ tree' = tree
    \/ call'.end = "full" /\ call'.op \in {"create", "mkdir", "rename"} /\ tree' = tree
    \/ call'.end = "ok" /\ CanDo(call'.op, call'.path, call'.arg) /\ Does(call'.op, call'.path, call'.arg)

Spec == [][Next]_space
=============================================================================
