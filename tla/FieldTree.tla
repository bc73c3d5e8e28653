------------------------------ MODULE FieldTree ------------------------------
(***************************************************************************)
(* The fields and responses of an interface design, as the visual editor   *)
(* of the design tab changes them.                                         *)
(*                                                                         *)
(* The editor keeps one flat list of fields; a field names its parent by   *)
(* id.  Ids are drawn in increasing order and every new field is appended, *)
(* so the order of the list is the order of the ids.  A field of a         *)
(* response carries the response's id, or, when it has none, is found by   *)
(* its status code.                                                        *)
(***************************************************************************)
EXTENDS Naturals, FiniteSets

CONSTANTS
    Scopes,            \* where a field lives: parameters, headers, cookies, bodies
    NestedScopes,      \* the body scopes, whose fields may have children
    ResponseScopes,    \* the scopes of a response
    ScalarTypes,       \* the types other than "object" and "array"
    Names,             \* names a user types; "" is the name of a new field
    Statuses,          \* status codes
    MaxFields,         \* bound on the fields ever made
    MaxResponses       \* bound on the responses ever made

Types == ScalarTypes \union {"object", "array"}
FieldIds == 1 .. MaxFields
ResponseIds == 1 .. MaxResponses
None == 0

ASSUME FieldTreeAssumption ==
    /\ NestedScopes \subseteq Scopes /\ ResponseScopes \subseteq Scopes
    /\ "string" \in ScalarTypes /\ {"object", "array"} \intersect ScalarTypes = {}
    /\ "items" \notin Names
    /\ MaxFields \in Nat /\ MaxResponses \in Nat \ {0} /\ Statuses # {}

VARIABLES
    fields,            \* the fields by id
    nextField,
    responses,         \* the status code of each response, by id
    nextResponse

vars == <<fields, nextField, responses, nextResponse>>

Field == [parentId : FieldIds \union {None}, type : Types, name : Names \union {"", "items"},
          scope : Scopes, responseId : ResponseIds \union {None}, status : Statuses \union {None}]

NewField(parentId, name, type, scope, responseId, status) ==
    [parentId |-> parentId, type |-> type, name |-> name, scope |-> scope,
     responseId |-> responseId, status |-> status]

(* A design without fields has one response.                               *)
Init ==
    /\ fields = [f \in {} |-> NewField(None, "", "string", "", None, None)]
    /\ nextField = 1
    /\ \E status \in Statuses : responses = [r \in {1} |-> status]
    /\ nextResponse = 2

-------------------------------------------------------------------------------
Supports(scope) == scope \in NestedScopes

ChildrenOf(id) == {f \in DOMAIN fields : fields[f].parentId = id}

(* descendantsOf: the least set that holds the children of `id` and of its *)
(* own members.                                                            *)
Closed(set, id) == \A f \in DOMAIN fields : fields[f].parentId \in set \union {id} => f \in set
DescendantsOf(id) ==
    {f \in DOMAIN fields : \A set \in SUBSET DOMAIN fields : Closed(set, id) => f \in set}

IsArrayItems(id) ==
    fields[id].parentId \in DOMAIN fields /\ fields[fields[id].parentId].type = "array"

Drop(removed) == [f \in DOMAIN fields \ removed |-> fields[f]]

(* Appends one field with a fresh id.                                      *)
With(old, field) == [f \in DOMAIN old \union {nextField} |-> IF f = nextField THEN field ELSE old[f]]

(* update on the draft row: what is typed there becomes a field.  The type *)
(* chosen on that row is taken as it is.                                   *)
CommitDraft(scope, responseId, name, type) ==
    /\ nextField \in FieldIds
    /\ responseId \in IF scope \in ResponseScopes THEN DOMAIN responses ELSE {None}
    /\ fields' = With(fields, NewField(None, name, type, scope, responseId,
                    IF responseId = None THEN None ELSE responses[responseId]))
    /\ nextField' = nextField + 1
    /\ UNCHANGED <<responses, nextResponse>>

(* The name of an array's items is a label, not an input.                  *)
Rename(id, name) ==
    /\ id \in DOMAIN fields /\ ~IsArrayItems(id)
    /\ fields' = [fields EXCEPT ![id].name = name]
    /\ UNCHANGED <<nextField, responses, nextResponse>>

KeepBranch(id) == {}                                \* mutant: the descendants of a scalar stay
ScalarDrops(id) == DescendantsOf(id)

(* Of an object that becomes an array the first child stays.               *)
ExtraChildren(id) ==
    LET extra == {c \in ChildrenOf(id) : \E first \in ChildrenOf(id) : first < c}
    IN  extra \union UNION {DescendantsOf(c) : c \in extra}

ItemsOf(id) ==
    NewField(id, "items", "string", fields[id].scope, None, fields[id].status)

Retyped(id, type) == [fields EXCEPT ![id].type = type]

ToArray(id) ==
    LET kept == [f \in DOMAIN fields \ ExtraChildren(id) |-> Retyped(id, "array")[f]] IN
    IF ChildrenOf(id) = {}
    THEN /\ nextField \in FieldIds
         /\ fields' = With(Retyped(id, "array"), ItemsOf(id))
         /\ nextField' = nextField + 1
    ELSE /\ fields' = [f \in DOMAIN kept |-> IF f \in ChildrenOf(id)
                                             THEN [kept[f] EXCEPT !.name = "items"] ELSE kept[f]]
         /\ UNCHANGED nextField

(* changeDefinitionFieldType.                                              *)
ChangeType(id, type) ==
    /\ id \in DOMAIN fields
    /\ \/ /\ ~Supports(fields[id].scope) \/ type \in ScalarTypes
          /\ fields' = [f \in DOMAIN fields \ ScalarDrops(id) |-> Retyped(id, type)[f]]
          /\ UNCHANGED nextField
       \/ /\ Supports(fields[id].scope) /\ type = "object"
          /\ fields' = Retyped(id, type)
          /\ UNCHANGED nextField
       \/ /\ Supports(fields[id].scope) /\ type = "array"
          /\ ToArray(id)
    /\ UNCHANGED <<responses, nextResponse>>

(* The button is there for objects and for an array's items; the parent    *)
(* becomes an object.                                                      *)
AddChild(id) ==
    /\ id \in DOMAIN fields /\ nextField \in FieldIds
    /\ fields[id].type = "object" \/ IsArrayItems(id)
    /\ Supports(fields[id].scope)
    /\ fields' = With(Retyped(id, "object"),
                      NewField(id, "", "string", fields[id].scope, fields[id].responseId, fields[id].status))
    /\ nextField' = nextField + 1
    /\ UNCHANGED <<responses, nextResponse>>

DeleteField(id) ==
    /\ id \in DOMAIN fields
    /\ fields' = Drop({id} \union DescendantsOf(id))
    /\ UNCHANGED <<nextField, responses, nextResponse>>

-------------------------------------------------------------------------------
(* Responses.                                                              *)

AddResponse(status) ==
    /\ nextResponse \in ResponseIds
    /\ responses' = [r \in DOMAIN responses \union {nextResponse} |->
                        IF r = nextResponse THEN status ELSE responses[r]]
    /\ nextResponse' = nextResponse + 1

AddBlankResponse(status) == AddResponse(status) /\ UNCHANGED <<fields, nextField>>

(* A response component brings its fields, without their nesting.          *)
AddComponentResponse(status, scope, name, type) ==
    /\ AddResponse(status)
    /\ nextField \in FieldIds /\ scope \in ResponseScopes
    /\ fields' = With(fields, NewField(None, name, type, scope, nextResponse, status))
    /\ nextField' = nextField + 1

SetStatusCode(r, status) ==
    /\ r \in DOMAIN responses
    /\ responses' = [responses EXCEPT ![r] = status]
    /\ fields' = [f \in DOMAIN fields |-> IF fields[f].responseId = r
                                          THEN [fields[f] EXCEPT !.status = status] ELSE fields[f]]
    /\ UNCHANGED <<nextField, nextResponse>>

DeleteResponse(r) ==
    /\ r \in DOMAIN responses /\ DOMAIN responses # {r}
    /\ responses' = [x \in DOMAIN responses \ {r} |-> responses[x]]
    /\ fields' = Drop({f \in DOMAIN fields : fields[f].responseId = r})
    /\ UNCHANGED <<nextField, nextResponse>>

Next ==
    \/ \E scope \in Scopes, r \in ResponseIds \union {None}, name \in Names \union {""}, type \in Types :
          CommitDraft(scope, r, name, type)
    \/ \E id \in FieldIds :
          \/ \E name \in Names \union {""} : Rename(id, name)
          \/ \E type \in Types : ChangeType(id, type)
          \/ AddChild(id) \/ DeleteField(id)
    \/ \E status \in Statuses :
          \/ AddBlankResponse(status)
          \/ \E scope \in Scopes, name \in Names \union {"", "items"}, type \in Types :
                AddComponentResponse(status, scope, name, type)
          \/ \E r \in ResponseIds : SetStatusCode(r, status)
    \/ \E r \in ResponseIds : DeleteResponse(r)

Spec == Init /\ [][Next]_vars

-------------------------------------------------------------------------------
(* Types; ids are drawn once.                                              *)
TypeOK ==
    /\ DOMAIN fields \subseteq FieldIds /\ \A f \in DOMAIN fields : fields[f] \in Field
    /\ nextField \in 1 .. MaxFields + 1 /\ \A f \in DOMAIN fields : f < nextField
    /\ DOMAIN responses \subseteq ResponseIds
    /\ \A r \in DOMAIN responses : responses[r] \in Statuses
    /\ nextResponse \in 1 .. MaxResponses + 1 /\ \A r \in DOMAIN responses : r < nextResponse

IsChild(f) == fields[f].parentId # None
Linked(f) == fields[f].scope \in ResponseScopes => fields[f].responseId # None

(* Whatever is typed, retyped, nested and deleted, the flat list is a      *)
(* forest that the renderer, the schema and the validator can walk: a      *)
(* parent stands before its children, is an object or an array of the same *)
(* body, and is there.  Only the items of an array in a response may       *)
(* survive their parent: they carry no response id, and deleting the       *)
(* response does not reach them.                                           *)
Nested(f) ==
    /\ fields[f].parentId < f
    /\ fields[f].scope \in NestedScopes
    /\ Linked(f) => fields[f].parentId \in DOMAIN fields
    /\ fields[f].parentId \in DOMAIN fields =>
          LET parent == fields[fields[f].parentId] IN
          /\ parent.scope = fields[f].scope /\ parent.type \in {"object", "array"}
          /\ fields[f].responseId \in {None, parent.responseId}

Forest == \A f \in DOMAIN fields : IsChild(f) => Nested(f)

(* An array has at most one child, its items.                              *)
ArrayItems ==
    \A f, g \in DOMAIN fields :
        /\ IsChild(f) /\ IsArrayItems(f) => fields[f].name = "items"
        /\ IsChild(f) /\ IsArrayItems(f) /\ fields[g].parentId = fields[f].parentId => f = g

(* Both at once: changeDefinitionFieldType, addChild and the deletions     *)
(* keep the list of a design in the shape its readers assume.              *)
TreeShape == Forest /\ ArrayItems
=============================================================================
