----------------------------- MODULE DesignSync -----------------------------
(***************************************************************************)
(* A response is validated against the design of FieldTree.  What is       *)
(* accepted is a function of the design; it is checked on every design the *)
(* editor can reach.                                                       *)
(***************************************************************************)
EXTENDS DesignMerge

-------------------------------------------------------------------------------
(* validateDesignedResponse, for a body that is JSON.  A value is tagged   *)
(* with its type; an array has elements, an object has members by name.    *)

Scalar(type) == [type |-> type]
Array(elements) == [type |-> "array", elements |-> elements]
Object(members) == [type |-> "object", members |-> members]

(* The fields a response definition is given: by id, else by status.       *)
FieldsOf(r) ==
    {f \in DOMAIN fields :
        /\ fields[f].scope = "response.body" /\ fields[f].name # ""
        /\ IF fields[f].responseId # None THEN fields[f].responseId = r
           ELSE fields[f].status = responses[r]}

ChildrenIn(set, id) == {f \in set : fields[f].parentId = id}
MatchesType(value, type) == value.type = type

NamesOf(set) == {fields[f].name : f \in set}

(* visit calls itself with what it finds in a value under the name of an   *)
(* object among its children, and with each element of an array; at[id] is *)
(* the set of values it is called with for the children of field id.  Its  *)
(* limits, 64 levels and 10,000 calls, are left out.                       *)
MembersFlat(at, body, id) ==                          \* mutant: members are looked up in the body
    LET name == fields[id].name IN
    {value.members[name] : value \in {v \in {body} : v.type = "object" /\ name \in DOMAIN v.members}}
Members(at, body, id) ==
    LET name == fields[id].name IN
    {value.members[name] : value \in {v \in at[fields[id].parentId] :
                                          v.type = "object" /\ name \in DOMAIN v.members}}

VisitedAt(at, body, set, id) ==
    IF id = None THEN {body}
    ELSE IF fields[id].parentId \notin set \union {None} THEN {}
    ELSE LET passed == {value \in Members(at, body, id) : MatchesType(value, fields[id].type)}
         IN  CASE fields[id].type = "object" -> passed
               [] fields[id].type = "array" ->
                     UNION {{value.elements[i] : i \in DOMAIN value.elements} : value \in passed}
               [] OTHER -> {}

Visited(body, set) == LET at[id \in set \union {None}] == VisitedAt(at, body, set, id) IN at

(* visit: every assertion it pushes has passed.  No field is required.     *)
Passes(value, children, additional) ==
    IF value.type # "object" THEN children = {}
    ELSE /\ \A f \in children : fields[f].name \in DOMAIN value.members =>
               MatchesType(value.members[fields[f].name], fields[f].type)
         /\ ~additional => DOMAIN value.members \subseteq NamesOf(children)

Accepted(body, set, additional) ==
    \A id \in set \union {None} : \A value \in Visited(body, set)[id] :
        Passes(value, ChildrenIn(set, id), additional)

(* A value that conforms to the schema fieldsToDefinition writes for a     *)
(* field (renderSchemaField): an object has its children as properties, an *)
(* array has elements described by its first child, strings without one.   *)
ObjectOf(sample, children) ==
    Object([n \in NamesOf(children) |-> sample[CHOOSE c \in children : fields[c].name = n]])

SampleOf(sample, set, f) ==
    LET children == ChildrenIn(set, f) IN
    CASE fields[f].type = "object" -> ObjectOf(sample, children)
      [] fields[f].type = "array" ->
            Array(<<IF children = {} THEN Scalar("string")
                    ELSE sample[CHOOSE c \in children : \A d \in children : c <= d]>>)
      [] OTHER -> Scalar(fields[f].type)

Samples(set) == LET sample[f \in set] == SampleOf(sample, set, f) IN sample

SampleBody(set) == ObjectOf(Samples(set), ChildrenIn(set, None))

DistinctNames(set) ==
    \A f, g \in set : fields[f].parentId = fields[g].parentId /\ fields[f].name = fields[g].name => f = g

-------------------------------------------------------------------------------
(* A response that conforms to the schema written for the design passes    *)
(* the validation generated from the same design, however its fields came  *)
(* about, for designs in which no array has items.                         *)
Conforming(r) == LET set == FieldsOf(r) IN
    \A additional \in BOOLEAN : Accepted(SampleBody(set), set, additional)

OwnSchemaAccepted ==
    \A r \in DOMAIN responses :
        DistinctNames(FieldsOf(r)) /\ (\A f \in FieldsOf(r) : fields[f].name # "items")
        => Conforming(r)
=============================================================================
