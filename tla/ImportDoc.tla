------------------------------ MODULE ImportDoc ------------------------------
(***************************************************************************)
(* importDocument: what an imported file, with the files chosen next to    *)
(* it, becomes.  An OpenAPI document has its references replaced by what   *)
(* they refer to; a Postman collection is walked with an explicit stack; a *)
(* HAR file and a project package are lists of requests.                   *)
(*                                                                         *)
(* A value of a document is a node: an object, an array or a plain value,  *)
(* with a reference or without, and with children under keys; next to a    *)
(* reference these are its siblings.  A reference names a node of any of   *)
(* the files.                                                              *)
(***************************************************************************)
EXTENDS Naturals, Sequences, FiniteSets, FiniteSetsExt, SequencesExt

CONSTANTS
    IMPORT_MAX_DEPTH, IMPORT_MAX_NODES, IMPORT_MAX_REFS, IMPORT_MAX_REQUESTS,
    Files          \* what the user can choose

ASSUME ImportAssumption ==
    {IMPORT_MAX_DEPTH, IMPORT_MAX_NODES, IMPORT_MAX_REFS, IMPORT_MAX_REQUESTS} \subseteq Nat

NoRef == 0
Missing == 99              \* a reference to a node that no file has

(* What visiting a node gives: its value, without references, what it took *)
(* from the budget of nodes and references, and whether it went through.   *)
(* A value is the node it stems from, its kind, and its children.          *)
Failed == [ok |-> FALSE, kids |-> <<>>, nodes |-> 0, refs |-> 0]

(* consumeNode                                                             *)
ShallowNode(depth) == depth < IMPORT_MAX_DEPTH        \* mutant: one level less
ConsumeNode(depth) == depth <= IMPORT_MAX_DEPTH

(* pointerValue, load: the node exists, in a file that was chosen.         *)
Loads(doc, n) == n \in DOMAIN doc.nodes /\ doc.nodes[n].file \in doc.files

NotOnStack(stack, n) == ~Contains(stack, n)

RECURSIVE Size(_), Height(_), Labels(_)
Size(value) == 1 + FoldLeft(LAMBDA sum, kid : sum + Size(kid.value), 0, value.kids)
Height(value) == FoldLeft(LAMBDA most, kid : Max({most, 1 + Height(kid.value)}), 0, value.kids)
Labels(value) == {value.node} \union UNION {Labels(kid.value) : kid \in ToSet(value.kids)}

KeysOf(kids) == {kid.key : kid \in ToSet(kids)}
Without(kids, keys) == SelectSeq(kids, LAMBDA kid : kid.key \notin keys)

RECURSIVE Visit(_, _, _, _), VisitAll(_, _, _, _)

(* The children, one after the other.                                      *)
VisitAll(doc, kids, stack, depth) ==
    IF kids = <<>> THEN [Failed EXCEPT !.ok = TRUE]
    ELSE LET first == Visit(doc, Head(kids).node, stack, depth)
             rest == IF first.ok THEN VisitAll(doc, Tail(kids), stack, depth) ELSE Failed
         IN  IF ~rest.ok THEN Failed
             ELSE [ok |-> TRUE, kids |-> <<[key |-> Head(kids).key, value |-> first.value]>> \o rest.kids,
                   nodes |-> first.nodes + rest.nodes, refs |-> first.refs + rest.refs]

(* A node without a reference.                                             *)
Plain(doc, n, stack, depth) ==
    LET node == doc.nodes[n]
        all == VisitAll(doc, node.kids, stack, depth + 1) IN
    IF ~all.ok THEN Failed
    ELSE [ok |-> TRUE, nodes |-> all.nodes + 1, refs |-> all.refs,
          value |-> [node |-> n, kind |-> node.kind, kids |-> all.kids]]

(* Next to the siblings of a reference: of an object the children that no  *)
(* sibling overrides, of an array or a plain value nothing; the result is  *)
(* visited once more.                                                      *)
Beside(doc, n, target, stack, depth) ==
    LET node == doc.nodes[n]
        merged == target.value.kind = "object"
        kept == IF merged THEN Without(target.value.kids, KeysOf(node.kids)) ELSE <<>>
        again == [node |-> IF merged THEN target.value.node ELSE n, kind |-> "object", kids |-> kept]
        siblings == VisitAll(doc, node.kids, stack, depth + 2) IN
    IF ~siblings.ok \/ ~ConsumeNode(depth + 1 + Height(again)) THEN Failed
    ELSE [ok |-> TRUE, value |-> [again EXCEPT !.kids = @ \o siblings.kids],
          nodes |-> target.nodes + 1 + Size(again) + siblings.nodes,
          refs |-> target.refs + 1 + siblings.refs]

Visit(doc, n, stack, depth) ==
    LET node == doc.nodes[n] IN
    IF ~ConsumeNode(depth) THEN Failed
    ELSE IF node.ref = NoRef THEN Plain(doc, n, stack, depth)
    ELSE IF ~NotOnStack(stack, node.ref) \/ ~Loads(doc, node.ref) THEN Failed
    ELSE LET target == Visit(doc, node.ref, Append(stack, node.ref), depth + 1) IN
         IF ~target.ok THEN Failed
         ELSE IF node.kids = <<>> THEN [target EXCEPT !.nodes = @ + 1, !.refs = @ + 1]
         ELSE Beside(doc, n, target, stack, depth)

(* dereferenceOpenApi, with its budget; the root must be an object.        *)
Dereferenced(doc) ==
    LET all == Visit(doc, 1, <<>>, 0) IN
    IF all.ok /\ all.value.kind = "object" /\ all.nodes <= IMPORT_MAX_NODES /\ all.refs <= IMPORT_MAX_REFS
    THEN all ELSE Failed

(* importOpenApi: one request per path and method, below its first tag.    *)
ImportOpenApi(doc) ==
    [i \in DOMAIN doc.operations |-> SubSeq(doc.operations[i], 1, Min({1, Len(doc.operations[i])}))]

(* importPostman: items are pushed last first, so that they are popped in  *)
(* the order of the document.                                              *)
RECURSIVE Walk(_)
Walk(stack) ==
    IF stack = <<>> THEN <<>>
    ELSE LET top == Last(stack)
             item == top.item
             children == [i \in DOMAIN item.items |->
                             [item |-> item.items[Len(item.items) + 1 - i],
                              path |-> Append(top.path, item.name)]]
         IN  (IF item.request THEN <<top.path>> ELSE <<>>) \o Walk(Front(stack) \o children)

ImportPostman(doc) == Walk(Reverse([i \in DOMAIN doc.items |-> [item |-> doc.items[i], path |-> <<>>]]))

(* importHar: the folder of an entry is the page it names, if it names one. *)
(* The requests of a project package keep the paths they have.             *)
NoPage == ""
ImportHar(doc) ==
    [i \in DOMAIN doc.entries |-> IF doc.entries[i] = NoPage THEN <<>> ELSE <<doc.entries[i]>>]

(* importObject                                                            *)
ImportObject(doc) ==
    CASE doc.kind = "openapi" -> ImportOpenApi(doc)
      [] doc.kind = "har" -> ImportHar(doc)
      [] doc.kind = "postman" -> ImportPostman(doc)
      [] doc.kind = "apivoy" -> doc.paths

(* importDocument and importFiles: the folders of each request, or none at *)
(* all.                                                                    *)
Unreadable(doc) ==
    \/ doc.kind = "other"
    \/ doc.kind = "openapi" /\ ~Dereferenced(doc).ok
    \/ Len(ImportObject(doc)) > IMPORT_MAX_REQUESTS

ImportDocument(doc) ==
    IF Unreadable(doc) THEN [ok |-> FALSE, paths |-> <<>>] ELSE [ok |-> TRUE, paths |-> ImportObject(doc)]

-------------------------------------------------------------------------------
(* What the files say, defined without walking them.                       *)

(* Every path from the root, along children and references, up to the      *)
(* first node that comes again or is in none of the files.                 *)
Nodes(p) == [i \in DOMAIN p |-> p[i].node]
Steps(doc, p) ==
    LET end == Last(p).node IN
    IF ~Loads(doc, end) \/ Contains(Nodes(Front(p)), end) THEN {}
    ELSE {Append(p, next) : next \in ToSet(doc.nodes[end].kids)
             \union IF doc.nodes[end].ref = NoRef THEN {} ELSE {[key |-> "$ref", node |-> doc.nodes[end].ref]}}
PathsFrom(doc) ==
    FoldLeft(LAMBDA all, i : all \union UNION {Steps(doc, p) : p \in all}, {<<[key |-> "", node |-> 1]>>},
             [i \in 1 .. Cardinality(DOMAIN doc.nodes) |-> i])

WellFounded(doc, paths) == \A p \in paths : Loads(doc, Last(p).node) /\ ~Contains(Nodes(Front(p)), Last(p).node)

HasSiblings(doc, n) == doc.nodes[n].ref # NoRef /\ doc.nodes[n].kids # <<>>
WithinLimits(doc, paths) ==
    /\ Cardinality(paths) <= IMPORT_MAX_NODES
    /\ \A p \in paths : Len(p) - 1 <= IMPORT_MAX_DEPTH
    /\ Cardinality({p \in paths : doc.nodes[Last(p).node].ref # NoRef}) <= IMPORT_MAX_REFS

(* A node stands for an object: itself, or what it refers to; siblings     *)
(* make it one.                                                            *)
RECURSIVE IsObject(_, _)
IsObject(doc, n) ==
    LET node == doc.nodes[n] IN
    IF HasSiblings(doc, n) THEN TRUE
    ELSE IF node.ref = NoRef THEN node.kind = "object" ELSE IsObject(doc, node.ref)

(* The siblings stand in for a target that is no object ...                *)
Replaced(doc, n) == HasSiblings(doc, n) /\ ~IsObject(doc, doc.nodes[n].ref)

(* ... and a sibling for the child of the target that has its key.  A path *)
(* that leads through either is not part of what is imported.              *)
LostOn(doc, p) ==
    \E i \in 1 .. Len(p) - 1 : p[i + 1].key = "$ref" /\
        \/ Replaced(doc, p[i].node)
        \/ \E j \in i + 2 .. Len(p) :
              /\ \A k \in i + 1 .. j - 1 : p[k].key = "$ref"
              /\ p[j].key # "$ref" /\ p[j].key \in KeysOf(doc.nodes[p[i].node].kids)

(* The folders around each request of a list of items, in its order.       *)
RECURSIVE Requests(_, _)
Requests(items, path) ==
    IF items = <<>> THEN <<>>
    ELSE LET item == Head(items) IN
         (IF item.request THEN <<path>> ELSE <<>>)
           \o Requests(item.items, Append(path, item.name)) \o Requests(Tail(items), path)

(* An OpenAPI document is imported only if every reference in it leads to  *)
(* something in the chosen files and none leads back to itself, and it     *)
(* exceeds no limit; without siblings next to a reference, which are       *)
(* counted twice, this is also enough.  What is imported holds no          *)
(* reference, and every part the document is made of but the lost ones:    *)
(* a target that is no object, and its parts, when its reference has       *)
(* siblings, and a part of a target under the key of a sibling.  A Postman *)
(* collection gives its requests in order, each below its folders.         *)
ReadsRight(doc) ==
    CASE doc.kind = "openapi" ->
            LET got == Dereferenced(doc)
                paths == PathsFrom(doc)
                kept == {Last(p).node : p \in {q \in paths : ~LostOn(doc, q)}} IN
            /\ got.ok => /\ WellFounded(doc, paths) /\ WithinLimits(doc, paths)
                         /\ Labels(got.value) = {n \in kept : doc.nodes[n].ref = NoRef \/ Replaced(doc, n)}
            /\ /\ WellFounded(doc, paths) /\ WithinLimits(doc, paths)
               /\ ~\E p \in paths : HasSiblings(doc, Last(p).node)
               => (got.ok <=> IsObject(doc, 1))
      [] doc.kind = "postman" -> ImportPostman(doc) = Requests(doc.items, <<>>)
      [] OTHER -> TRUE

(* What choosing one of the files gives, and whether it is right.          *)
Outcomes == {[right |-> ReadsRight(doc), ok |-> ImportDocument(doc).ok, paths |-> ImportDocument(doc).paths]
               : doc \in Files}
===============================================================================
