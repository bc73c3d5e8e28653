----------------------------- MODULE DesignProofs -----------------------------
(***************************************************************************)
(* The two halves of an interface design, for any number of fields, tabs   *)
(* and definitions: the tree its fields form (FieldTree), which is brought *)
(* into the debug form (DesignMerge) and judges responses (DesignSync),    *)
(* and the OpenAPI text it is written to, stored as and reopened from      *)
(* (Definition).                                                           *)
(***************************************************************************)
EXTENDS DesignSync, Definition, FiniteSetTheorems, WellFoundedInduction, TLAPS

(***************************************************************************)
(* TreeShape for designs of any size.  The conditions on a list of fields  *)
(* are stated for any list F (Good); two lemmas say when a list that was   *)
(* cut back and retyped (Kept), and one with a field more (Grown), is good *)
(* again, and every action is one of the two or one after the other.       *)
(***************************************************************************)
LinkedIn(F, f) == F[f].scope \in ResponseScopes => F[f].responseId # None

(* A child whose parent p is there.                                        *)
Below(F, f, p) ==
    /\ F[p].scope = F[f].scope /\ F[p].type \in {"object", "array"}
    /\ F[f].responseId \in {None, F[p].responseId}
    /\ F[p].type = "array" => F[f].name = "items" /\ \A g \in DOMAIN F : F[g].parentId = p => f = g

GoodField(F, n, f) ==
    /\ F[f] \in Field /\ f \in FieldIds /\ f < n
    /\ F[f].scope \notin ResponseScopes => F[f].responseId = None
    /\ F[f].parentId # None =>
          /\ F[f].parentId < f /\ F[f].scope \in NestedScopes
          /\ LinkedIn(F, f) => F[f].parentId \in DOMAIN F
          /\ F[f].parentId \in DOMAIN F => Below(F, f, F[f].parentId)

Good(F, n) == \A f \in DOMAIN F : GoodField(F, n, f)

ResponsesOK ==
    /\ DOMAIN responses \subseteq ResponseIds
    /\ \A r \in DOMAIN responses : responses[r] \in Statuses
    /\ nextResponse \in 1 .. MaxResponses + 1 /\ \A r \in DOMAIN responses : r < nextResponse

TreeInv == Good(fields, nextField) /\ nextField \in 1 .. MaxFields + 1 /\ ResponsesOK

-------------------------------------------------------------------------------
LEMMA IdsArePositive ==
  /\ FieldIds \subseteq Nat /\ None \notin FieldIds
  /\ ResponseIds \subseteq Nat /\ None \notin ResponseIds
  BY FieldTreeAssumption DEF FieldIds, ResponseIds, None

LEMMA NextIds ==
  /\ \A n \in FieldIds : n + 1 \in 1 .. MaxFields + 1
  /\ \A n \in ResponseIds : n + 1 \in 1 .. MaxResponses + 1
  BY FieldTreeAssumption DEF FieldIds, ResponseIds

LEMMA InvGivesShape == TreeInv => TypeOK /\ TreeShape
<1> SUFFICES ASSUME TreeInv PROVE TypeOK /\ TreeShape
  OBVIOUS
<1>1. TypeOK
  BY DEF TreeInv, Good, GoodField, ResponsesOK, TypeOK
<1>2. Forest
  BY DEF TreeInv, Good, GoodField, Below, LinkedIn, Forest, IsChild, Nested, Linked
<1>3. ArrayItems
  BY DEF TreeInv, Good, GoodField, Below, ArrayItems, IsChild, IsArrayItems
<1> QED
  BY <1>1, <1>2, <1>3 DEF TreeShape

(* Fewer fields, with other names, types and status codes.                 *)
LEMMA Kept ==
  ASSUME NEW F, NEW n, Good(F, n), NEW G, DOMAIN G \subseteq DOMAIN F,
         \A f \in DOMAIN G : /\ G[f] \in Field
                             /\ G[f].parentId = F[f].parentId /\ G[f].scope = F[f].scope
                             /\ G[f].responseId = F[f].responseId,
         \A f \in DOMAIN G : LinkedIn(F, f) /\ F[f].parentId \in DOMAIN F => F[f].parentId \in DOMAIN G,
         \A f \in DOMAIN G : F[f].parentId \in DOMAIN G =>
             LET p == F[f].parentId IN
             /\ G[p].type \in {"object", "array"}
             /\ G[p].type = "array" => G[f].name = "items" /\ \A g \in DOMAIN G : G[g].parentId = p => f = g
  PROVE  Good(G, n)
<1> SUFFICES ASSUME NEW f \in DOMAIN G PROVE GoodField(G, n, f)
  BY DEF Good
<1>1. f \in DOMAIN F /\ GoodField(F, n, f)
  BY DEF Good
<1>2. F[f].parentId \in DOMAIN G => Below(G, f, F[f].parentId)
  <2> SUFFICES ASSUME F[f].parentId \in DOMAIN G PROVE Below(G, f, F[f].parentId)
    OBVIOUS
  <2> DEFINE p == F[f].parentId
  <2>1. p \in FieldIds /\ p # None
    BY IdsArePositive DEF Good, GoodField
  <2>2. Below(F, f, p)
    BY <2>1, <1>1 DEF GoodField
  <2>3. /\ G[p].scope = F[p].scope /\ G[p].responseId = F[p].responseId
        /\ G[f].scope = F[f].scope /\ G[f].responseId = F[f].responseId
    OBVIOUS
  <2>4. /\ G[p].type \in {"object", "array"}
        /\ G[p].type = "array" => G[f].name = "items" /\ \A g \in DOMAIN G : G[g].parentId = p => f = g
    OBVIOUS
  <2> QED
    BY <2>2, <2>3, <2>4 DEF Below
<1> QED
  BY <1>1, <1>2 DEF GoodField, LinkedIn

(* One field more, a root or a child of a field that may have it.          *)
LEMMA Grown ==
  ASSUME NEW F, NEW n \in FieldIds, Good(F, n), NEW new \in Field,
         new.scope \notin ResponseScopes => new.responseId = None,
         new.parentId # None =>
             LET p == new.parentId IN
             /\ p \in DOMAIN F /\ F[p].scope = new.scope /\ new.scope \in NestedScopes
             /\ F[p].type \in {"object", "array"} /\ new.responseId \in {None, F[p].responseId}
             /\ F[p].type = "array" => new.name = "items" /\ \A g \in DOMAIN F : F[g].parentId # p,
         NEW G, G = [f \in DOMAIN F \union {n} |-> IF f = n THEN new ELSE F[f]]
  PROVE  Good(G, n + 1)
<1>1. FieldIds \subseteq Nat /\ n \in Nat
  BY IdsArePositive
<1>2. ASSUME NEW f \in DOMAIN F PROVE f \in Nat /\ f < n /\ f # n /\ G[f] = F[f] /\ F[f] \in Field
  <2>1. f \in Nat /\ f < n /\ F[f] \in Field
    BY <1>1 DEF Good, GoodField
  <2>2. f # n
    BY <2>1, <1>1
  <2> QED
    BY <2>1, <2>2
<1>3. DOMAIN G = DOMAIN F \union {n} /\ G[n] = new
  OBVIOUS
<1> SUFFICES ASSUME NEW f \in DOMAIN G PROVE GoodField(G, n + 1, f)
  BY DEF Good
<1>4. CASE f = n
  <2>1. GoodField(G, n + 1, n)
    <3>1. CASE new.parentId = None
      BY <3>1, <1>1, <1>3 DEF GoodField
    <3>2. CASE new.parentId # None
      <4> DEFINE p == new.parentId
      <4>1. p \in DOMAIN F /\ p \in Nat /\ p < n /\ G[p] = F[p]
        BY <3>2, <1>2
      <4>2. \A g \in DOMAIN G : G[p].type = "array" /\ G[g].parentId = p => g = n
        BY <3>2, <4>1, <1>2, <1>3
      <4>3. Below(G, n, p)
        BY <3>2, <4>1, <4>2, <1>3 DEF Below
      <4> HIDE DEF p
      <4>4. G[n].parentId = p
        BY <1>3 DEF p
      <4>5. n < n + 1
        BY <1>1
      <4>6. G[n] \in Field /\ G[n].scope \in NestedScopes
        BY <1>3, <3>2
      <4> QED
        BY <4>1, <4>3, <4>4, <4>5, <4>6, <1>3 DEF GoodField
    <3> QED
      BY <3>1, <3>2
  <2> QED
    BY <2>1, <1>4
<1>5. CASE f \in DOMAIN F
  <2> DEFINE p == F[f].parentId
  <2>1. GoodField(F, n, f) /\ G[f] = F[f] /\ f \in Nat /\ f < n /\ f < n + 1
    BY <1>1, <1>2, <1>5 DEF Good
  <2>2. CASE p = None
    BY <2>1, <2>2 DEF GoodField
  <2>3. CASE p # None
    <3>1. p < f /\ p # n
      BY <2>1, <2>3, <1>1 DEF GoodField
    <3>2. p \in DOMAIN G => p \in DOMAIN F /\ G[p] = F[p] /\ Below(F, f, p)
      BY <3>1, <2>1, <2>3, <1>2, <1>3 DEF GoodField
    <3>3. \A g \in DOMAIN G : p \in DOMAIN F /\ F[p].type = "array" /\ G[g].parentId = p => g = f
      <4> SUFFICES ASSUME NEW g \in DOMAIN G, p \in DOMAIN F, F[p].type = "array", G[g].parentId = p
                   PROVE  g = f
        OBVIOUS
      <4>1. CASE g = n
        BY <4>1, <1>3, <1>5, <2>3
      <4>2. CASE g \in DOMAIN F
        BY <4>2, <3>2, <1>2, <1>3 DEF Below
      <4> QED
        BY <4>1, <4>2, <1>3
    <3>4. p \in DOMAIN G => Below(G, f, p)
      BY <3>2, <3>3, <2>1 DEF Below
    <3>5. LinkedIn(G, f) => p \in DOMAIN G
      BY <2>1, <2>3, <1>3 DEF GoodField, LinkedIn
    <3> QED
      BY <2>1, <3>4, <3>5 DEF GoodField
  <2> QED
    BY <2>2, <2>3
<1> QED
  BY <1>4, <1>5, <1>3

(* What descendantsOf collects holds the children of id and of its members.*)
LEMMA DescendantsClosed ==
  ASSUME NEW id, NEW f \in DOMAIN fields, fields[f].parentId \in DescendantsOf(id) \union {id}
  PROVE  f \in DescendantsOf(id)
<1> SUFFICES ASSUME NEW set \in SUBSET DOMAIN fields, Closed(set, id) PROVE f \in set
  BY DEF DescendantsOf
<1>1. fields[f].parentId \in set \union {id}
  BY DEF DescendantsOf
<1> QED
  BY <1>1 DEF Closed

LEMMA ParentsHold ==
  ASSUME NEW F, NEW n, Good(F, n), NEW f \in DOMAIN F, F[f].parentId \in DOMAIN F
  PROVE  Below(F, f, F[f].parentId)
<1>1. F[f].parentId # None
  BY IdsArePositive DEF Good, GoodField
<1> QED
  BY <1>1 DEF Good, GoodField

LEMMA RetypedFields ==
  ASSUME NEW n, Good(fields, n), NEW id \in DOMAIN fields, NEW type \in Types
  PROVE  /\ DOMAIN Retyped(id, type) = DOMAIN fields
         /\ \A f \in DOMAIN fields :
               /\ Retyped(id, type)[f] \in Field
               /\ Retyped(id, type)[f].parentId = fields[f].parentId
               /\ Retyped(id, type)[f].name = fields[f].name
               /\ Retyped(id, type)[f].scope = fields[f].scope
               /\ Retyped(id, type)[f].responseId = fields[f].responseId
               /\ Retyped(id, type)[f].type = IF f = id THEN type ELSE fields[f].type
<1>1. \A f \in DOMAIN fields : fields[f] \in Field
  BY DEF Good, GoodField
<1>2. DOMAIN Retyped(id, type) = DOMAIN fields
  BY DEF Retyped
<1>3. Retyped(id, type)[id] = [fields[id] EXCEPT !.type = type]
  BY DEF Retyped
<1>4. \A f \in DOMAIN fields \ {id} : Retyped(id, type)[f] = fields[f]
  BY DEF Retyped
<1> DEFINE new == [fields[id] EXCEPT !.type = type]
<1>5. /\ new \in Field /\ new.type = type /\ new.parentId = fields[id].parentId /\ new.name = fields[id].name
      /\ new.scope = fields[id].scope /\ new.responseId = fields[id].responseId
  BY <1>1 DEF Field
<1> HIDE DEF new
<1>6. Retyped(id, type)[id] = new
  BY <1>3 DEF new
<1> QED
  BY <1>1, <1>2, <1>4, <1>5, <1>6

(* An object, or an array that has no child yet.                           *)
LEMMA RetypedGood ==
  ASSUME NEW n, Good(fields, n), NEW id \in DOMAIN fields, NEW type \in {"object", "array"},
         type = "array" => ChildrenOf(id) = {}
  PROVE  Good(Retyped(id, type), n)
<1> DEFINE G == Retyped(id, type)
<1>1. type \in Types
  BY DEF Types
<1>2. /\ DOMAIN G = DOMAIN fields
      /\ \A f \in DOMAIN fields :
            /\ G[f] \in Field /\ G[f].parentId = fields[f].parentId /\ G[f].name = fields[f].name
            /\ G[f].scope = fields[f].scope /\ G[f].responseId = fields[f].responseId
            /\ G[f].type = IF f = id THEN type ELSE fields[f].type
  BY <1>1, RetypedFields
<1> HIDE DEF G
<1>3. ASSUME NEW f \in DOMAIN G, fields[f].parentId \in DOMAIN G
      PROVE  LET p == fields[f].parentId IN
             /\ G[p].type \in {"object", "array"}
             /\ G[p].type = "array" => G[f].name = "items" /\ \A g \in DOMAIN G : G[g].parentId = p => f = g
  <2> DEFINE p == fields[f].parentId
  <2>1. Below(fields, f, p)
    BY <1>2, <1>3, ParentsHold
  <2>2. CASE p = id
    BY <2>2, <1>2, <1>3 DEF ChildrenOf
  <2>3. CASE p # id
    BY <2>1, <2>3, <1>2, <1>3 DEF Below
  <2> QED
    BY <2>2, <2>3
<1>4. Good(G, n)
  BY <1>2, <1>3, Kept
<1> QED
  BY <1>4 DEF G

(* Only fields go, and none that a field which stays is linked to.         *)
LEMMA CutGood ==
  ASSUME NEW n, Good(fields, n), NEW removed,
         \A f \in DOMAIN fields \ removed : LinkedIn(fields, f) => fields[f].parentId \notin removed
  PROVE  Good(Drop(removed), n)
<1> DEFINE G == Drop(removed)
<1>1. DOMAIN G = DOMAIN fields \ removed /\ \A f \in DOMAIN G : G[f] = fields[f] /\ fields[f] \in Field
  BY DEF Drop, Good, GoodField
<1> HIDE DEF G
<1>2. ASSUME NEW f \in DOMAIN G, fields[f].parentId \in DOMAIN G
      PROVE  LET p == fields[f].parentId IN
             /\ G[p].type \in {"object", "array"}
             /\ G[p].type = "array" => G[f].name = "items" /\ \A g \in DOMAIN G : G[g].parentId = p => f = g
  <2>1. Below(fields, f, fields[f].parentId)
    BY <1>1, <1>2, ParentsHold
  <2> QED
    BY <2>1, <1>1, <1>2 DEF Below
<1>3. Good(G, n)
  BY <1>1, <1>2, Kept
<1> QED
  BY <1>3 DEF G

-------------------------------------------------------------------------------
(* The actions.                                                            *)

LEMMA CommitKeeps ==
  ASSUME TreeInv, NEW scope \in Scopes, NEW r \in ResponseIds \union {None}, NEW name \in Names \union {""},
         NEW type \in Types, CommitDraft(scope, r, name, type)
  PROVE  TreeInv'
<1> DEFINE new == NewField(None, name, type, scope, r, IF r = None THEN None ELSE responses[r])
<1>1. new \in Field /\ new.scope = scope /\ new.responseId = r /\ new.parentId = None
  BY IdsArePositive DEF CommitDraft, NewField, Field, TreeInv, ResponsesOK
<1>2. scope \notin ResponseScopes => r = None
  BY DEF CommitDraft
<1>3. fields' = [f \in DOMAIN fields \union {nextField} |-> IF f = nextField THEN new ELSE fields[f]]
      /\ nextField' = nextField + 1 /\ nextField \in FieldIds
  BY DEF CommitDraft, With
<1> HIDE DEF new
<1>4. Good(fields', nextField + 1)
  BY <1>1, <1>2, <1>3, Grown DEF TreeInv
<1>5. nextField' \in 1 .. MaxFields + 1
  BY <1>3, NextIds
<1> QED
  BY <1>3, <1>4, <1>5 DEF TreeInv, ResponsesOK, CommitDraft

LEMMA RenameKeeps ==
  ASSUME TreeInv, NEW id \in FieldIds, NEW name \in Names \union {""}, Rename(id, name) PROVE TreeInv'
<1>1. id \in DOMAIN fields /\ ~IsArrayItems(id) /\ fields' = [fields EXCEPT ![id].name = name]
      /\ Good(fields, nextField) /\ UNCHANGED <<nextField, responses, nextResponse>>
  BY DEF Rename, TreeInv
<1>2. \A f \in DOMAIN fields : fields[f] \in Field
  BY <1>1 DEF Good, GoodField
<1> DEFINE new == [fields[id] EXCEPT !.name = name]
<1>3. /\ new \in Field /\ new.parentId = fields[id].parentId /\ new.scope = fields[id].scope
      /\ new.responseId = fields[id].responseId /\ new.type = fields[id].type
  BY <1>1, <1>2 DEF Field
<1>4. DOMAIN fields' = DOMAIN fields /\ fields'[id] = new /\ \A f \in DOMAIN fields \ {id} : fields'[f] = fields[f]
  BY <1>1
<1> HIDE DEF new
<1>5. ASSUME NEW f \in DOMAIN fields', fields[f].parentId \in DOMAIN fields'
      PROVE  LET p == fields[f].parentId IN
             /\ fields'[p].type \in {"object", "array"}
             /\ fields'[p].type = "array" =>
                   fields'[f].name = "items" /\ \A g \in DOMAIN fields' : fields'[g].parentId = p => f = g
  <2> DEFINE p == fields[f].parentId
  <2>1. Below(fields, f, p)
    BY <1>1, <1>4, <1>5, ParentsHold
  <2>2. fields'[p].type = fields[p].type
    BY <1>3, <1>4, <1>5
  <2>3. fields[p].type = "array" => f # id
    BY <1>1, <1>4, <1>5 DEF IsArrayItems
  <2> QED
    BY ZenonT(60), <2>1, <2>2, <2>3, <1>3, <1>4, <1>5 DEF Below
<1>6. \A f \in DOMAIN fields' : /\ fields'[f] \in Field
                                /\ fields'[f].parentId = fields[f].parentId /\ fields'[f].scope = fields[f].scope
                                /\ fields'[f].responseId = fields[f].responseId
  BY <1>2, <1>3, <1>4
<1>7. Good(fields', nextField)
  <2>1. \A f \in DOMAIN fields' : fields[f].parentId \in DOMAIN fields => fields[f].parentId \in DOMAIN fields'
    BY <1>4
  <2>2. DOMAIN fields' \subseteq DOMAIN fields
    BY <1>4
  <2>3. Good(fields, nextField)
    BY <1>1
  <2> QED
    BY ZenonT(60), <2>1, <2>2, <2>3, <1>5, <1>6, Kept
<1> QED
  BY <1>1, <1>7 DEF TreeInv, ResponsesOK

LEMMA ScalarKeeps ==
  ASSUME NEW n, Good(fields, n), NEW id \in DOMAIN fields, NEW type \in Types,
         NEW G, DOMAIN G = DOMAIN fields \ ScalarDrops(id), \A f \in DOMAIN G : G[f] = Retyped(id, type)[f]
  PROVE  Good(G, n)
<1> DEFINE D == DescendantsOf(id)
<1>1. DOMAIN G = DOMAIN fields \ D
  BY DEF ScalarDrops
<1>2. \A f \in DOMAIN G : /\ G[f] \in Field /\ G[f].parentId = fields[f].parentId
                          /\ G[f].name = fields[f].name /\ G[f].scope = fields[f].scope
                          /\ G[f].responseId = fields[f].responseId
                          /\ f # id => G[f].type = fields[f].type
  BY <1>1, RetypedFields
<1>3. \A f \in DOMAIN G : fields[f].parentId \notin D /\ fields[f].parentId # id
  BY <1>1, DescendantsClosed
<1> HIDE DEF D
<1>4. ASSUME NEW f \in DOMAIN G, fields[f].parentId \in DOMAIN G
      PROVE  LET p == fields[f].parentId IN
             /\ G[p].type \in {"object", "array"}
             /\ G[p].type = "array" => G[f].name = "items" /\ \A g \in DOMAIN G : G[g].parentId = p => f = g
  <2>1. Below(fields, f, fields[f].parentId)
    BY <1>1, <1>4, ParentsHold
  <2> QED
    BY <2>1, <1>1, <1>2, <1>3, <1>4 DEF Below
<1>5. \A f \in DOMAIN G : fields[f].parentId \in DOMAIN fields => fields[f].parentId \in DOMAIN G
  BY <1>1, <1>3
<1>6. DOMAIN G \subseteq DOMAIN fields
  BY <1>1
<1>7. \A f \in DOMAIN G : /\ G[f] \in Field
                          /\ G[f].parentId = fields[f].parentId /\ G[f].scope = fields[f].scope
                          /\ G[f].responseId = fields[f].responseId
  BY <1>2
<1> QED
  BY <1>4, <1>5, <1>6, <1>7, Kept

(* The children that an array keeps are one.                               *)
LEMMA ArrayKeeps ==
  ASSUME NEW n, Good(fields, n), NEW id \in DOMAIN fields,
         NEW G, DOMAIN G = DOMAIN fields \ ExtraChildren(id),
         \A f \in DOMAIN G : G[f] = IF f \in ChildrenOf(id)
                                    THEN [Retyped(id, "array")[f] EXCEPT !.name = "items"]
                                    ELSE Retyped(id, "array")[f]
  PROVE  Good(G, n)
<1> DEFINE R == Retyped(id, "array")
           E == ExtraChildren(id)
<1>1. "array" \in Types
  BY DEF Types
<1>2. /\ DOMAIN R = DOMAIN fields
      /\ \A f \in DOMAIN fields :
            /\ R[f] \in Field /\ R[f].parentId = fields[f].parentId /\ R[f].name = fields[f].name
            /\ R[f].scope = fields[f].scope /\ R[f].responseId = fields[f].responseId
            /\ R[f].type = IF f = id THEN "array" ELSE fields[f].type
  BY <1>1, RetypedFields
<1>3. \A f \in DOMAIN G : G[f] = IF f \in ChildrenOf(id) THEN [R[f] EXCEPT !.name = "items"] ELSE R[f]
  OBVIOUS
<1> HIDE DEF R
<1>4. ASSUME NEW f \in DOMAIN G
      PROVE  /\ G[f] \in Field /\ G[f].parentId = fields[f].parentId
             /\ G[f].scope = fields[f].scope /\ G[f].responseId = fields[f].responseId
             /\ G[f].type = IF f = id THEN "array" ELSE fields[f].type
             /\ G[f].name = IF f \in ChildrenOf(id) THEN "items" ELSE fields[f].name
  <2>1. f \in DOMAIN fields
    OBVIOUS
  <2>2. CASE f \in ChildrenOf(id)
    <3> DEFINE new == [R[f] EXCEPT !.name = "items"]
    <3>1. /\ new \in Field /\ new.parentId = R[f].parentId /\ new.scope = R[f].scope /\ new.type = R[f].type
          /\ new.responseId = R[f].responseId /\ new.name = "items"
      BY ZenonT(60), <1>2, <2>1 DEF Field
    <3> HIDE DEF new
    <3>2. G[f] = new
      BY <1>3, <2>2 DEF new
    <3> QED
      BY <3>1, <3>2, <1>2, <2>1, <2>2
  <2>3. CASE f \notin ChildrenOf(id)
    BY <2>1, <2>3, <1>2, <1>3
  <2> QED
    BY <2>2, <2>3
<1>5. \A f \in DOMAIN fields : f \in Nat
  BY IdsArePositive DEF Good, GoodField
<1>6. ASSUME NEW f \in DOMAIN fields, fields[f].parentId \in E PROVE f \in E
  <2>1. PICK c : /\ c \in {x \in ChildrenOf(id) : \E first \in ChildrenOf(id) : first < x}
                 /\ fields[f].parentId \in DescendantsOf(c) \union {c}
    BY <1>6 DEF ExtraChildren
  <2>2. f \in DescendantsOf(c)
    BY <2>1, DescendantsClosed
  <2> QED
    BY <2>1, <2>2 DEF ExtraChildren
<1>7. ASSUME NEW f \in DOMAIN G, NEW g \in DOMAIN G, fields[f].parentId = id, fields[g].parentId = id
      PROVE  f = g
  <2>1. f \in ChildrenOf(id) /\ g \in ChildrenOf(id) /\ f \in Nat /\ g \in Nat
    BY <1>5, <1>7 DEF ChildrenOf
  <2>2. ~(f < g) /\ ~(g < f)
    BY <2>1 DEF ExtraChildren
  <2> QED
    BY <2>1, <2>2
<1> HIDE DEF E
<1>8. DOMAIN G = DOMAIN fields \ E
  BY DEF E
<1>9. ASSUME NEW f \in DOMAIN G, fields[f].parentId \in DOMAIN G
      PROVE  LET p == fields[f].parentId IN
             /\ G[p].type \in {"object", "array"}
             /\ G[p].type = "array" => G[f].name = "items" /\ \A g \in DOMAIN G : G[g].parentId = p => f = g
  <2>1. Below(fields, f, fields[f].parentId)
    BY <1>8, <1>9, ParentsHold
  <2>2. CASE fields[f].parentId = id
    <3>1. f \in ChildrenOf(id)
      BY <2>2, <1>8 DEF ChildrenOf
    <3>2. G[id].type = "array" /\ G[f].name = "items"
      BY <3>1, <2>2, <1>4, <1>9
    <3>3. \A g \in DOMAIN G : G[g].parentId = id => f = g
      BY <2>2, <1>4, <1>7
    <3> QED
      BY <2>2, <3>2, <3>3
  <2>3. CASE fields[f].parentId # id
    <3>1. f \notin ChildrenOf(id)
      BY <2>3 DEF ChildrenOf
    <3> QED
      BY <2>1, <2>3, <3>1, <1>4, <1>8, <1>9 DEF Below
  <2> QED
    BY <2>2, <2>3
<1>10. \A f \in DOMAIN G : fields[f].parentId \in DOMAIN fields => fields[f].parentId \in DOMAIN G
  BY <1>6, <1>8
<1>11. DOMAIN G \subseteq DOMAIN fields
  BY <1>8
<1> QED
  BY <1>4, <1>9, <1>10, <1>11, Kept

LEMMA ChangeKeeps ==
  ASSUME TreeInv, NEW id \in FieldIds, NEW type \in Types, ChangeType(id, type) PROVE TreeInv'
<1>1. Good(fields, nextField) /\ id \in DOMAIN fields /\ UNCHANGED <<responses, nextResponse>>
  BY DEF TreeInv, ChangeType
<1>2. fields[id] \in Field /\ nextField \in 1 .. MaxFields + 1
  BY <1>1 DEF TreeInv, Good, GoodField
<1>3. Good(fields', nextField') /\ nextField' \in 1 .. MaxFields + 1
  <2>1. CASE /\ fields' = [f \in DOMAIN fields \ ScalarDrops(id) |-> Retyped(id, type)[f]]
             /\ UNCHANGED nextField
    <3>1. /\ DOMAIN fields' = DOMAIN fields \ ScalarDrops(id)
          /\ \A f \in DOMAIN fields' : fields'[f] = Retyped(id, type)[f]
      BY <2>1
    <3> QED
      BY <2>1, <3>1, <1>1, <1>2, ScalarKeeps
  <2>2. CASE type = "object" /\ fields' = Retyped(id, type) /\ UNCHANGED nextField
    BY <2>2, <1>1, <1>2, RetypedGood
  <2>3. CASE Supports(fields[id].scope) /\ type = "array" /\ ToArray(id)
    <3>1. CASE ChildrenOf(id) = {}
      <4> DEFINE F == Retyped(id, "array")
                 new == ItemsOf(id)
      <4>1. Good(F, nextField)
        BY <3>1, <1>1, RetypedGood
      <4>2. "array" \in Types
        BY DEF Types
      <4>3. /\ id \in DOMAIN F /\ DOMAIN F = DOMAIN fields /\ F[id].type = "array"
            /\ F[id].scope = fields[id].scope /\ \A g \in DOMAIN F : F[g].parentId = fields[g].parentId
        BY <1>1, <4>2, RetypedFields
      <4>4. \A g \in DOMAIN F : F[g].parentId # id
        BY <4>3, <3>1 DEF ChildrenOf
      <4>5. /\ new \in Field /\ new.parentId = id /\ new.name = "items" /\ new.responseId = None
            /\ new.scope = fields[id].scope
        BY <1>2, FieldTreeAssumption DEF ItemsOf, NewField, Field, Types
      <4>6. new.scope \in NestedScopes
        BY <2>3, <4>5 DEF Supports
      <4>7. /\ fields' = With(F, new) /\ nextField' = nextField + 1 /\ nextField \in FieldIds
        BY <2>3, <3>1 DEF ToArray
      <4> HIDE DEF F, new
      <4>8. fields' = [f \in DOMAIN F \union {nextField} |-> IF f = nextField THEN new ELSE F[f]]
        BY <4>7 DEF With
      <4>9. Good(fields', nextField + 1)
        BY <4>1, <4>3, <4>4, <4>5, <4>6, <4>7, <4>8, Grown
      <4> QED
        BY <4>7, <4>9, NextIds
    <3>2. CASE ChildrenOf(id) # {}
      <4>1. /\ UNCHANGED nextField /\ DOMAIN fields' = DOMAIN fields \ ExtraChildren(id)
            /\ \A f \in DOMAIN fields' : fields'[f] = IF f \in ChildrenOf(id)
                                    THEN [Retyped(id, "array")[f] EXCEPT !.name = "items"]
                                    ELSE Retyped(id, "array")[f]
        BY <2>3, <3>2 DEF ToArray
      <4> QED
        BY <4>1, <1>1, <1>2, ArrayKeeps
    <3> QED
      BY <3>1, <3>2
  <2> QED
    BY <2>1, <2>2, <2>3 DEF ChangeType
<1> QED
  BY <1>1, <1>3 DEF TreeInv, ResponsesOK

LEMMA AddChildKeeps == ASSUME TreeInv, NEW id \in FieldIds, AddChild(id) PROVE TreeInv'
<1> DEFINE F == Retyped(id, "object")
           new == NewField(id, "", "string", fields[id].scope, fields[id].responseId, fields[id].status)
<1>1. /\ Good(fields, nextField) /\ id \in DOMAIN fields /\ nextField \in FieldIds
      /\ Supports(fields[id].scope) /\ fields' = With(F, new) /\ nextField' = nextField + 1
      /\ UNCHANGED <<responses, nextResponse>>
  BY DEF TreeInv, AddChild
<1>2. "object" \in Types
  BY DEF Types
<1>3. Good(F, nextField)
  BY <1>1, RetypedGood
<1>4. /\ id \in DOMAIN F /\ F[id].type = "object" /\ F[id].scope = fields[id].scope
      /\ F[id].responseId = fields[id].responseId
  BY <1>1, <1>2, RetypedFields
<1>5. fields[id] \in Field /\ (fields[id].scope \notin ResponseScopes => fields[id].responseId = None)
  BY <1>1 DEF Good, GoodField
<1>6. /\ new \in Field /\ new.parentId = id /\ new.scope = fields[id].scope
      /\ new.responseId = fields[id].responseId
  BY <1>5, FieldTreeAssumption DEF NewField, Field, Types
<1>7. new.scope \in NestedScopes
  BY <1>1, <1>6 DEF Supports
<1> HIDE DEF F, new
<1>8. fields' = [f \in DOMAIN F \union {nextField} |-> IF f = nextField THEN new ELSE F[f]]
  BY <1>1 DEF With
<1>9. Good(fields', nextField + 1)
  BY <1>1, <1>3, <1>4, <1>5, <1>6, <1>7, <1>8, Grown
<1> QED
  BY <1>1, <1>9, NextIds DEF TreeInv, ResponsesOK

LEMMA DeleteKeeps == ASSUME TreeInv, NEW id \in FieldIds, DeleteField(id) PROVE TreeInv'
<1> DEFINE removed == {id} \union DescendantsOf(id)
<1>1. \A f \in DOMAIN fields \ removed : fields[f].parentId \notin removed
  BY DescendantsClosed
<1>2. fields' = Drop(removed) /\ UNCHANGED <<nextField, responses, nextResponse>>
  BY DEF DeleteField
<1> HIDE DEF removed
<1>3. Good(fields', nextField)
  BY <1>1, <1>2, CutGood DEF TreeInv
<1> QED
  BY <1>2, <1>3 DEF TreeInv, ResponsesOK

LEMMA AddResponseKeeps == ASSUME TreeInv, NEW status \in Statuses, AddResponse(status) PROVE ResponsesOK'
<1>1. nextResponse \in ResponseIds /\ nextResponse \in Nat
  BY IdsArePositive DEF AddResponse
<1>2. \A r \in DOMAIN responses : r \in Nat /\ r < nextResponse /\ responses[r] \in Statuses
  BY IdsArePositive DEF TreeInv, ResponsesOK
<1>3. /\ DOMAIN responses' = DOMAIN responses \union {nextResponse}
      /\ \A r \in DOMAIN responses' : responses'[r] = IF r = nextResponse THEN status ELSE responses[r]
      /\ nextResponse' = nextResponse + 1
  BY DEF AddResponse
<1>4. nextResponse + 1 \in 1 .. MaxResponses + 1
  BY <1>1, NextIds
<1>5. \A r \in DOMAIN responses' : r < nextResponse + 1
  BY <1>1, <1>2, <1>3
<1> QED
  BY <1>1, <1>2, <1>3, <1>4, <1>5 DEF TreeInv, ResponsesOK

LEMMA ComponentKeeps ==
  ASSUME TreeInv, NEW status \in Statuses, NEW scope \in Scopes, NEW name \in Names \union {"", "items"},
         NEW type \in Types, AddComponentResponse(status, scope, name, type)
  PROVE  TreeInv'
<1> DEFINE new == NewField(None, name, type, scope, nextResponse, status)
<1>1. /\ AddResponse(status) /\ nextField \in FieldIds /\ scope \in ResponseScopes
      /\ fields' = With(fields, new) /\ nextField' = nextField + 1
  BY DEF AddComponentResponse
<1>2. nextResponse \in ResponseIds
  BY <1>1 DEF AddResponse
<1>3. new \in Field /\ new.scope = scope /\ new.parentId = None
  BY <1>2 DEF NewField, Field
<1> HIDE DEF new
<1>4. fields' = [f \in DOMAIN fields \union {nextField} |-> IF f = nextField THEN new ELSE fields[f]]
  BY <1>1 DEF With
<1>5. Good(fields', nextField + 1)
  BY <1>1, <1>3, <1>4, Grown DEF TreeInv
<1>6. ResponsesOK'
  BY <1>1, AddResponseKeeps
<1> QED
  BY <1>1, <1>5, <1>6, NextIds DEF TreeInv

LEMMA StatusKeeps ==
  ASSUME TreeInv, NEW r \in ResponseIds, NEW status \in Statuses, SetStatusCode(r, status) PROVE TreeInv'
<1>1. /\ Good(fields, nextField) /\ UNCHANGED <<nextField, nextResponse>>
      /\ fields' = [f \in DOMAIN fields |-> IF fields[f].responseId = r
                                            THEN [fields[f] EXCEPT !.status = status] ELSE fields[f]]
  BY DEF TreeInv, SetStatusCode
<1>2. \A f \in DOMAIN fields : fields[f] \in Field
  BY <1>1 DEF Good, GoodField
<1>3. DOMAIN fields' = DOMAIN fields
  BY <1>1
<1>4. ASSUME NEW f \in DOMAIN fields
      PROVE  /\ fields'[f] \in Field /\ fields'[f].parentId = fields[f].parentId
             /\ fields'[f].scope = fields[f].scope /\ fields'[f].responseId = fields[f].responseId
             /\ fields'[f].type = fields[f].type /\ fields'[f].name = fields[f].name
  <2> DEFINE new == [fields[f] EXCEPT !.status = status]
  <2>1. /\ new \in Field /\ new.parentId = fields[f].parentId /\ new.scope = fields[f].scope
        /\ new.responseId = fields[f].responseId /\ new.type = fields[f].type /\ new.name = fields[f].name
    BY <1>2 DEF Field
  <2>2. fields'[f] = new \/ fields'[f] = fields[f]
    BY <1>1
  <2> HIDE DEF new
  <2> QED
    BY <2>1, <2>2, <1>2
<1>5. ASSUME NEW f \in DOMAIN fields', fields[f].parentId \in DOMAIN fields'
      PROVE  LET p == fields[f].parentId IN
             /\ fields'[p].type \in {"object", "array"}
             /\ fields'[p].type = "array" =>
                   fields'[f].name = "items" /\ \A g \in DOMAIN fields' : fields'[g].parentId = p => f = g
  <2>1. Below(fields, f, fields[f].parentId)
    BY <1>1, <1>3, <1>5, ParentsHold
  <2>2. \A g \in DOMAIN fields : fields'[g].type = fields[g].type /\ fields'[g].name = fields[g].name
                                 /\ fields'[g].parentId = fields[g].parentId
    BY <1>4
  <2> QED
    BY <2>1, <2>2, <1>3, <1>5 DEF Below
<1>6. Good(fields', nextField)
  <2>1. \A f \in DOMAIN fields' : /\ fields'[f] \in Field
                                  /\ fields'[f].parentId = fields[f].parentId /\ fields'[f].scope = fields[f].scope
                                  /\ fields'[f].responseId = fields[f].responseId
    BY <1>3, <1>4
  <2>2. \A f \in DOMAIN fields' : fields[f].parentId \in DOMAIN fields => fields[f].parentId \in DOMAIN fields'
    BY <1>3
  <2>3. Good(fields, nextField) /\ DOMAIN fields' \subseteq DOMAIN fields
    BY <1>1, <1>3
  <2> QED
    BY <2>1, <2>2, <2>3, <1>5, Kept
<1>7. ResponsesOK'
  BY <1>1 DEF SetStatusCode, TreeInv, ResponsesOK
<1> QED
  BY <1>1, <1>6, <1>7 DEF TreeInv

(* Here the fields of a response that carry its id go together; one that   *)
(* carries none may be left without its parent, and Good allows that.      *)
LEMMA DeleteResponseKeeps ==
  ASSUME TreeInv, NEW r \in ResponseIds, DeleteResponse(r) PROVE TreeInv'
<1> DEFINE removed == {f \in DOMAIN fields : fields[f].responseId = r}
<1>1. Good(fields, nextField) /\ fields' = Drop(removed) /\ UNCHANGED <<nextField, nextResponse>>
  BY DEF TreeInv, DeleteResponse
<1>2. ASSUME NEW f \in DOMAIN fields \ removed, LinkedIn(fields, f) PROVE fields[f].parentId \notin removed
  <2> SUFFICES ASSUME fields[f].parentId \in removed PROVE FALSE
    OBVIOUS
  <2> DEFINE p == fields[f].parentId
  <2>1. p \in DOMAIN fields /\ fields[p].responseId = r /\ fields[f].responseId # r /\ r # None
    BY <1>2, IdsArePositive
  <2>2. fields[p].scope = fields[f].scope /\ fields[f].responseId \in {None, fields[p].responseId}
    BY <2>1, <1>1, ParentsHold DEF Below
  <2>3. fields[f].responseId = None
    BY <2>1, <2>2
  <2>4. fields[p].scope \notin ResponseScopes
    BY <2>2, <2>3, <1>2 DEF LinkedIn
  <2> QED
    BY <2>1, <2>4, <1>1 DEF Good, GoodField
<1> HIDE DEF removed
<1>3. Good(fields', nextField)
  BY <1>1, <1>2, CutGood
<1>4. ResponsesOK'
  BY <1>1 DEF DeleteResponse, TreeInv, ResponsesOK
<1> QED
  BY <1>1, <1>3, <1>4 DEF TreeInv

-------------------------------------------------------------------------------
LEMMA InitTree == Init => TreeInv
<1> SUFFICES ASSUME Init PROVE TreeInv
  OBVIOUS
<1>1. DOMAIN fields = {} /\ nextField = 1
  BY DEF Init
<1>2. PICK status \in Statuses : responses = [r \in {1} |-> status]
  BY DEF Init
<1>3. DOMAIN responses = {1} /\ responses[1] = status /\ nextResponse = 2
  BY <1>2 DEF Init
<1>4. ResponsesOK
  BY <1>3, FieldTreeAssumption DEF ResponsesOK, ResponseIds
<1> QED
  BY <1>1, <1>4, FieldTreeAssumption DEF TreeInv, Good

LEMMA TreeStep == TreeInv /\ [Next]_vars => TreeInv'
<1> SUFFICES ASSUME TreeInv, [Next]_vars PROVE TreeInv'
  OBVIOUS
<1>1. CASE UNCHANGED vars
  BY <1>1 DEF vars, TreeInv, Good, GoodField, Below, LinkedIn, ResponsesOK
<1>2. ASSUME NEW status \in Statuses, AddBlankResponse(status) PROVE TreeInv'
  <2>1. ResponsesOK'
    BY <1>2, AddResponseKeeps DEF AddBlankResponse
  <2> QED
    BY <1>2, <2>1 DEF AddBlankResponse, TreeInv, Good, GoodField, Below, LinkedIn
<1> QED
  BY <1>1, <1>2, CommitKeeps, RenameKeeps, ChangeKeeps, AddChildKeeps, DeleteKeeps, ComponentKeeps,
     StatusKeeps, DeleteResponseKeeps DEF Next

(* Whatever the user of the design tab types, retypes, nests and deletes,  *)
(* in designs with any number of fields and responses, the flat list of    *)
(* fields stays a forest with one child, the items, below each array       *)
(* (changeDefinitionFieldType, addChild, update, remove, deleteResponse).  *)
THEOREM DesignIsForest == Spec => []TreeShape
<1>1. TreeInv => TreeShape
  BY InvGivesShape
<1> QED
  BY <1>1, InitTree, TreeStep, PTL DEF Spec

(* Types, and ids that are drawn once.                                     *)
THEOREM DesignTypes == Spec => []TypeOK
<1>1. TreeInv => TypeOK
  BY InvGivesShape
<1> QED
  BY <1>1, InitTree, TreeStep, PTL DEF Spec

-------------------------------------------------------------------------------
(* The design in the debug form.                                           *)
(* Entries by name, each name with its values in their order, and a draft  *)
(* with any number of them.                                                *)
IsList(list) ==
    /\ list = [i \in DOMAIN list |-> list[i]]
    /\ Len(list) \in DOMAIN list /\ \A i \in DOMAIN list : list[i] \in DraftValues
IsMap(map) == map = [n \in DOMAIN map |-> map[n]] /\ \A n \in DOMAIN map : IsList(map[n])
IsDraft(draft) ==
    /\ IsMap(draft.params) /\ IsMap(draft.headers) /\ IsMap(draft.cookies)
    /\ draft.body \in {"", "typed", "examples"}

LEMMA AddedKeeps ==
  ASSUME NEW old, NEW names
  PROVE  /\ \A n \in DOMAIN old : Added(old, names)[n] = old[n]
         /\ names \subseteq DOMAIN Added(old, names)
         /\ DOMAIN old \subseteq DOMAIN Added(old, names)
         /\ Added(old, names) = [n \in DOMAIN Added(old, names) |-> Added(old, names)[n]]
  BY DEF Added

(* What is there already is not added again.                               *)
LEMMA AddedTwice ==
  ASSUME NEW map, NEW names, map = [n \in DOMAIN map |-> map[n]], names \subseteq DOMAIN map
  PROVE  Added(map, names) = map
<1>1. DOMAIN map \union names = DOMAIN map
  OBVIOUS
<1>2. Added(map, names) = [n \in DOMAIN map |-> map[n]]
  BY <1>1 DEF Added
<1> QED
  BY <1>2

LEMMA EncodedTwice ==
  \A v : /\ Encoded(Encoded(v)) = Encoded(v) /\ (v # Mixed => Encoded(v) = v)
         /\ UpToEquals(UpToEquals(v)) = UpToEquals(v) /\ (v # Mixed => UpToEquals(v) = v)
  BY DEF Encoded, UpToEquals, Mixed

LEMMA RequotedFacts ==
  ASSUME NEW map
  PROVE  /\ DOMAIN Requoted(map) = DOMAIN map
         /\ Requoted(map) = [n \in DOMAIN Requoted(map) |-> Requoted(map)[n]]
         /\ \A n \in DOMAIN map : /\ DOMAIN Requoted(map)[n] = DOMAIN map[n]
                                   /\ \A i \in DOMAIN map[n] : Requoted(map)[n][i] = Encoded(map[n][i])
         /\ Requoted(Requoted(map)) = Requoted(map)
<1>1. /\ DOMAIN Requoted(map) = DOMAIN map
      /\ \A n \in DOMAIN map : /\ Requoted(map)[n] = [i \in DOMAIN map[n] |-> Encoded(map[n][i])]
                                /\ DOMAIN Requoted(map)[n] = DOMAIN map[n]
                                /\ \A i \in DOMAIN map[n] : Requoted(map)[n][i] = Encoded(map[n][i])
  BY DEF Requoted
<1>2. ASSUME NEW n \in DOMAIN map
      PROVE  [i \in DOMAIN Requoted(map)[n] |-> Encoded(Requoted(map)[n][i])] = Requoted(map)[n]
  <2>1. \A i \in DOMAIN map[n] : Encoded(Requoted(map)[n][i]) = Requoted(map)[n][i]
    BY <1>1, EncodedTwice
  <2> QED
    BY <1>1, <2>1
<1>3. Requoted(Requoted(map)) =
        [n \in DOMAIN map |-> [i \in DOMAIN Requoted(map)[n] |-> Encoded(Requoted(map)[n][i])]]
  BY <1>1 DEF Requoted
<1>4. Requoted(Requoted(map)) = [n \in DOMAIN map |-> Requoted(map)[n]]
  BY <1>2, <1>3
<1>5. Requoted(map) = [n \in DOMAIN map |-> Requoted(map)[n]]
  BY <1>1 DEF Requoted
<1> QED
  BY <1>1, <1>4, <1>5

LEMMA RereadFacts ==
  ASSUME NEW map
  PROVE  /\ DOMAIN Reread(map) = DOMAIN map
         /\ Reread(map) = [n \in DOMAIN Reread(map) |-> Reread(map)[n]]
         /\ \A n \in DOMAIN map : Reread(map)[n] = <<UpToEquals(map[n][Len(map[n])])>>
  BY DEF Reread

(* The parameters, those of the draft and then those of the design.        *)
LEMMA ParamsMerge ==
  ASSUME NEW old, IsMap(old), NEW names
  PROVE  LET new == Requoted(Added(old, names)) IN
         /\ ParamsKept(old, new) /\ names \subseteq DOMAIN new
         /\ Requoted(Added(new, names)) = new
<1> DEFINE all == Added(old, names)
           new == Requoted(all)
<1>1. /\ \A n \in DOMAIN old : n \in DOMAIN all /\ all[n] = old[n]
      /\ names \subseteq DOMAIN all
  BY AddedKeeps
<1>2. /\ DOMAIN new = DOMAIN all /\ new = [n \in DOMAIN new |-> new[n]]
      /\ \A n \in DOMAIN all : /\ DOMAIN new[n] = DOMAIN all[n]
                                /\ \A i \in DOMAIN all[n] : new[n][i] = Encoded(all[n][i])
      /\ Requoted(new) = new
  BY RequotedFacts
<1> HIDE DEF all, new
<1>3. ParamsKept(old, new)
  BY <1>1, <1>2, EncodedTwice DEF ParamsKept
<1>4. Added(new, names) = new
  BY <1>1, <1>2, AddedTwice
<1> QED
  BY <1>1, <1>2, <1>3, <1>4 DEF all, new

LEMMA CookiesMerge ==
  ASSUME NEW old, NEW names
  PROVE  LET new == Added(Reread(old), names) IN
         /\ CookiesKept(old, new) /\ names \subseteq DOMAIN new
         /\ Added(Reread(new), names) = new
<1> DEFINE read == Reread(old)
           new == Added(read, names)
<1>1. /\ DOMAIN read = DOMAIN old
      /\ \A n \in DOMAIN old : read[n] = <<UpToEquals(old[n][Len(old[n])])>>
  BY RereadFacts
<1>2. /\ \A n \in DOMAIN read : n \in DOMAIN new /\ new[n] = read[n]
      /\ names \subseteq DOMAIN new /\ new = [n \in DOMAIN new |-> new[n]]
      /\ \A n \in DOMAIN new \ DOMAIN read : new[n] = <<"">>
  BY AddedKeeps DEF Added
<1> HIDE DEF read, new
<1>3. CookiesKept(old, new)
  BY <1>1, <1>2, EncodedTwice DEF CookiesKept
<1>4. ASSUME NEW n \in DOMAIN new PROVE <<UpToEquals(new[n][Len(new[n])])>> = new[n]
  <2>1. \A v : Len(<<v>>) = 1 /\ <<v>>[1] = v
    OBVIOUS
  <2>2. \E v : new[n] = <<v>> /\ UpToEquals(v) = v
    <3>1. CASE n \in DOMAIN read
      <4> DEFINE v == UpToEquals(old[n][Len(old[n])])
      <4>1. new[n] = <<v>>
        BY <1>1, <1>2, <3>1
      <4>2. UpToEquals(v) = v
        BY EncodedTwice
      <4> HIDE DEF v
      <4> QED
        BY <4>1, <4>2
    <3>2. CASE n \notin DOMAIN read
      <4>1. new[n] = <<"">>
        BY <1>2, <3>2
      <4>2. UpToEquals("") = ""
        BY EncodedTwice DEF Mixed
      <4> QED
        BY <4>1, <4>2
    <3> QED
      BY <3>1, <3>2
  <2> QED
    BY <2>1, <2>2
<1>5. Reread(new) = new
  BY <1>2, <1>4 DEF Reread
<1>6. Added(new, names) = new
  BY <1>2, AddedTwice
<1> QED
  BY <1>2, <1>3, <1>5, <1>6 DEF read, new

LEMMA HeadersMerge ==
  ASSUME NEW old, NEW mode
  PROVE  LET new == MergedHeaders(old, mode) IN
         /\ HeadersKept(old, new)
         /\ Designed("request.headers") \ {"Cookie", "Content-Type"} \subseteq DOMAIN new
         /\ IF mode \in {"none", "form-data"} THEN "Content-Type" \notin DOMAIN new
            ELSE "Content-Type" \in DOMAIN new /\ new["Content-Type"] = <<mode>>
         /\ MergedHeaders(new, mode) = new
<1> DEFINE names == Designed("request.headers") \ {"Cookie"}
           all == Added(old, names)
           new == MergedHeaders(old, mode)
           again == Added(new, names)
<1>1. /\ \A n \in DOMAIN old : n \in DOMAIN all /\ all[n] = old[n]
      /\ names \subseteq DOMAIN all
  BY AddedKeeps
<1>2. /\ new = [n \in (DOMAIN all \ {"Content-Type"}) \union OwnType(mode) |->
                  IF n = "Content-Type" THEN <<mode>> ELSE all[n]]
      /\ MergedHeaders(new, mode) = [n \in (DOMAIN again \ {"Content-Type"}) \union OwnType(mode) |->
                                       IF n = "Content-Type" THEN <<mode>> ELSE again[n]]
  BY DEF MergedHeaders
<1>3. /\ \A n \in DOMAIN new : n \in DOMAIN again /\ again[n] = new[n]
      /\ DOMAIN again = DOMAIN new \union names
  BY AddedKeeps DEF Added
<1>4. OwnType(mode) = IF mode \in {"none", "form-data"} THEN {} ELSE {"Content-Type"}
  BY DEF OwnType
<1> HIDE DEF names, all, new, again
<1>5. DOMAIN new = (DOMAIN all \ {"Content-Type"}) \union OwnType(mode)
  BY <1>2
<1>6. \A n \in DOMAIN new : new[n] = IF n = "Content-Type" THEN <<mode>> ELSE all[n]
  BY <1>2
<1>7. HeadersKept(old, new)
  BY <1>1, <1>5, <1>6 DEF HeadersKept
<1>8. (DOMAIN again \ {"Content-Type"}) \union OwnType(mode) = DOMAIN new
  BY <1>1, <1>3, <1>4, <1>5
<1>9. \A n \in DOMAIN new : (IF n = "Content-Type" THEN <<mode>> ELSE again[n]) = new[n]
  BY <1>3, <1>6
<1>10. MergedHeaders(new, mode) = [n \in DOMAIN new |-> new[n]]
  BY <1>2, <1>8, <1>9
<1>11. new = [n \in DOMAIN new |-> new[n]]
  BY <1>2
<1>12. Designed("request.headers") \ {"Cookie", "Content-Type"} \subseteq DOMAIN new
  BY <1>1, <1>5 DEF names
<1>13. IF mode \in {"none", "form-data"} THEN "Content-Type" \notin DOMAIN new
       ELSE "Content-Type" \in DOMAIN new /\ new["Content-Type"] = <<mode>>
  BY <1>4, <1>5, <1>6
<1> QED
  BY <1>7, <1>10, <1>11, <1>12, <1>13 DEF new

(* The body is typed, made of examples, or rebuilt; the second time it is  *)
(* what it was after the first.                                            *)
LEMMA BodyMerge ==
  ASSUME NEW draft, NEW merged, NEW mode \in BodyModes,
         merged.body = MergedBody(draft, mode), merged.parts = MergedParts(draft, mode)
  PROVE  /\ BodyKept(draft.body, merged.body, mode)
         /\ MergedBody(merged, mode) = merged.body
         /\ MergedParts(merged, mode) = merged.parts
<1>1. BodyKept(draft.body, merged.body, mode)
  BY DEF BodyKept, MergedBody, TextModes
<1>2. MergedBody(merged, mode) = merged.body
  BY DEF MergedBody
<1>3. MergedParts(merged, mode) = merged.parts
  BY DEF MergedParts
<1> QED
  BY <1>1, <1>2, <1>3

(* In every design and for every draft, of any number of entries.          *)
LEMMA AnyDraftKept ==
  ASSUME NEW draft, IsDraft(draft), NEW mode \in BodyModes
  PROVE  Keeps(draft, mode)
<1> DEFINE merged == MergeDesign(draft, mode)
           twice == MergeDesign(merged, mode)
<1>1. /\ merged.params = Requoted(Added(draft.params, Designed("request.params")))
      /\ merged.headers = MergedHeaders(draft.headers, mode)
      /\ merged.cookies = Added(Reread(draft.cookies), Designed("request.cookies"))
      /\ merged.body = MergedBody(draft, mode) /\ merged.parts = MergedParts(draft, mode)
      /\ merged = [params |-> merged.params, fragment |-> FALSE, headers |-> merged.headers,
                   cookies |-> merged.cookies, body |-> merged.body, parts |-> merged.parts]
  BY DEF MergeDesign
<1>2. twice = [params |-> Requoted(Added(merged.params, Designed("request.params"))),
               fragment |-> FALSE,
               headers |-> MergedHeaders(merged.headers, mode),
               cookies |-> Added(Reread(merged.cookies), Designed("request.cookies")),
               body |-> MergedBody(merged, mode), parts |-> MergedParts(merged, mode)]
  BY DEF MergeDesign
<1> HIDE DEF merged, twice
<1>3. /\ ParamsKept(draft.params, merged.params)
      /\ Designed("request.params") \subseteq DOMAIN merged.params
      /\ Requoted(Added(merged.params, Designed("request.params"))) = merged.params
  BY <1>1, ParamsMerge DEF IsDraft
<1>4. /\ CookiesKept(draft.cookies, merged.cookies)
      /\ Designed("request.cookies") \subseteq DOMAIN merged.cookies
      /\ Added(Reread(merged.cookies), Designed("request.cookies")) = merged.cookies
  BY <1>1, CookiesMerge
<1>5. /\ HeadersKept(draft.headers, merged.headers)
      /\ Designed("request.headers") \ {"Cookie", "Content-Type"} \subseteq DOMAIN merged.headers
      /\ TypeIsMode(merged, mode)
      /\ MergedHeaders(merged.headers, mode) = merged.headers
  BY <1>1, HeadersMerge DEF TypeIsMode
<1>6. /\ BodyKept(draft.body, merged.body, mode)
      /\ MergedBody(merged, mode) = merged.body
      /\ MergedParts(merged, mode) = merged.parts
  BY <1>1, BodyMerge
<1>7. twice = merged
  BY <1>1, <1>2, <1>3, <1>4, <1>5, <1>6
<1> QED
  BY <1>3, <1>4, <1>5, <1>6, <1>7 DEF merged, twice, Keeps, DesignShown

LEMMA GivenIsMap == ASSUME NEW given \in Given PROVE IsMap(given)
<1>1. \A v, w : /\ <<v, w>> = [i \in DOMAIN <<v, w>> |-> <<v, w>>[i]]
                /\ DOMAIN <<v, w>> = {1, 2} /\ Len(<<v, w>>) = 2
                /\ <<v, w>>[1] = v /\ <<v, w>>[2] = w
  OBVIOUS
<1>2. \A v, w \in DraftValues : IsList(<<v, w>>)
  BY <1>1 DEF IsList
<1>3. Mixed \in DraftValues /\ "typed" \in DraftValues
  BY DEF DraftValues
<1>4. \A list \in Lists : IsList(list)
  BY <1>2, <1>3 DEF Lists
<1>5. PICK names \in SUBSET Names, list \in Lists : given = Alike(names, list)
  BY DEF Given
<1> QED
  BY <1>4, <1>5 DEF IsMap, Alike

(* Whatever design the editor has reached, with any names and any number   *)
(* of fields, mergeDesignIntoHttpDraft adds the names of the design, keeps *)
(* what was typed but for what the property names, gives the body its      *)
(* mode's type, and changes nothing when it is done again.                 *)
THEOREM MergeKeepsTyped == Spec => []MergeKeepsValues
<1>1. MergeKeepsValues
  <2>1. ASSUME NEW draft \in Drafts PROVE IsDraft(draft)
    <3>1. ASSUME NEW given \in Given, NEW body \in {"", "typed"} PROVE IsDraft(Draft(given, body))
      <4>1. IsMap(given)
        BY GivenIsMap
      <4> QED
        BY <4>1 DEF Draft, IsDraft
    <3>2. IsDraft(Draft([n \in {} |-> <<"">>], "typed"))
      <4>1. IsMap([n \in {} |-> <<"">>])
        BY DEF IsMap
      <4> QED
        BY <4>1 DEF Draft, IsDraft
    <3> QED
      BY <2>1, <3>1, <3>2 DEF Drafts
  <2> QED
    BY <2>1, AnyDraftKept DEF MergeKeepsValues
<1> QED
  BY <1>1, PTL

-------------------------------------------------------------------------------
(***************************************************************************)
(* A response made from the schema of a design is accepted by the          *)
(* validator.  Both follow the fields down, so that each is given by an    *)
(* equation for a field in terms of its children or its parent; since      *)
(* parents stand first (TreeShape) the equations have a solution, and the  *)
(* validator is called with nothing but what was sampled for the same      *)
(* field.                                                                  *)
(***************************************************************************)
(* A set of numbers has a least one, in place of inductions.               *)
LEMMA LeastId ==
  ASSUME NEW B \in SUBSET Nat, B # {}
  PROVE  \E k \in B : \A j \in B : k <= j
<1>1. \E k \in B : \A j \in B : ~(<<j, k>> \in OpToRel(<, Nat))
  BY NatLessThanWellFounded, WFMin
<1>2. PICK k \in B : \A j \in B : ~(<<j, k>> \in OpToRel(<, Nat))
  BY <1>1
<1>3. \A j \in B : ~(j < k)
  BY <1>2 DEF OpToRel
<1> QED
  BY <1>3

(* A set of fields in which parents stand before their children.           *)
Ordered(set) ==
  set \subseteq DOMAIN fields /\ set \subseteq Nat \ {None}
  /\ \A f \in set : fields[f].parentId \in Nat /\ (fields[f].parentId # None => fields[f].parentId < f)

(* What is sampled for a field depends on its children alone.              *)
LEMMA ObjectLocal ==
  ASSUME NEW children, NEW s, NEW t, \A c \in children : s[c] = t[c]
  PROVE  ObjectOf(s, children) = ObjectOf(t, children)
<1> DEFINE Member(n) == CHOOSE c \in children : fields[c].name = n
<1>1. \A n \in NamesOf(children) : Member(n) \in children
  BY DEF NamesOf
<1>2. \A n \in NamesOf(children) : s[Member(n)] = t[Member(n)]
  BY <1>1
<1> HIDE DEF Member
<1>3. [n \in NamesOf(children) |-> s[Member(n)]] = [n \in NamesOf(children) |-> t[Member(n)]]
  BY <1>2
<1> QED
  BY <1>3, Zenon DEF ObjectOf, Member

LEMMA SampleLocal ==
  ASSUME NEW set, Ordered(set), NEW f \in set, NEW s, NEW t,
         \A c \in ChildrenIn(set, f) : s[c] = t[c]
  PROVE  SampleOf(s, set, f) = SampleOf(t, set, f)
<1> DEFINE children == ChildrenIn(set, f)
<1>1. ObjectOf(s, children) = ObjectOf(t, children)
  BY ObjectLocal
<1>2. ASSUME children # {}
      PROVE  \E c \in children : \A d \in children : c <= d
  <2>1. children \in SUBSET Nat
    BY DEF ChildrenIn, Ordered
  <2> QED
    BY <1>2, <2>1, LeastId
<1> DEFINE first == CHOOSE c \in children : \A d \in children : c <= d
<1>3. (IF children = {} THEN Scalar("string") ELSE s[first])
      = (IF children = {} THEN Scalar("string") ELSE t[first])
  BY <1>2
<1> HIDE DEF children
<1>4. Array(<<IF children = {} THEN Scalar("string") ELSE s[first]>>)
      = Array(<<IF children = {} THEN Scalar("string") ELSE t[first]>>)
  BY <1>3
<1> QED
  BY <1>1, <1>4 DEF SampleOf, children

(* The samples of a design exist: those of the later fields come first.    *)
LEMMA SamplesExist ==
  ASSUME NEW set, Ordered(set), NEW n \in Nat, \A f \in set : f <= n
  PROVE  \E s : s = [f \in set |-> SampleOf(s, set, f)]
<1> DEFINE Later(k) == {f \in set : f + k > n}
           Known(k) == \E s : s = [f \in Later(k) |-> SampleOf(s, set, f)]
           Bad == {k \in Nat : ~Known(k)}
<1>0. set \subseteq Nat /\ \A f \in set : f \in Nat /\ ~(f + 0 > n) /\ f + (n + 1) > n
  BY DEF Ordered
<1>1. Known(0)
  <2>1. Later(0) = {}
    BY <1>0
  <2> DEFINE none == [f \in {} |-> None]
  <2>2. \A s : [f \in {} |-> SampleOf(s, set, f)] = none
    BY DEF None
  <2> QED
    BY <2>1, <2>2
<1>2. ASSUME NEW k \in Nat, Known(k) PROVE Known(k + 1)
  <2>1. PICK s : s = [f \in Later(k) |-> SampleOf(s, set, f)]
    BY <1>2
  <2> DEFINE t == [f \in Later(k + 1) |-> SampleOf(s, set, f)]
  <2>2. \A f \in Later(k) : f \in Later(k + 1) /\ t[f] = s[f]
    BY <2>1, <1>0
  <2>3. \A f \in Later(k + 1) : ChildrenIn(set, f) \subseteq Later(k)
    BY <1>0 DEF ChildrenIn, Ordered
  <2>4. \A f \in Later(k + 1) : SampleOf(s, set, f) = SampleOf(t, set, f)
    <3> SUFFICES ASSUME NEW f \in Later(k + 1) PROVE SampleOf(s, set, f) = SampleOf(t, set, f)
      OBVIOUS
    <3>1. \A c \in ChildrenIn(set, f) : s[c] = t[c]
      BY <2>2, <2>3
    <3> HIDE DEF t
    <3> QED
      BY <3>1, SampleLocal
  <2>5. t = [f \in Later(k + 1) |-> SampleOf(t, set, f)]
    BY <2>4, Zenon
  <2> QED
    BY <2>5
<1> HIDE DEF Known
<1>3. Bad = {}
  <2> SUFFICES ASSUME Bad # {} PROVE FALSE
    OBVIOUS
  <2>1. PICK k \in Bad : \A j \in Bad : k <= j
    BY LeastId
  <2>2. k # 0 /\ k - 1 \in Nat
    BY <1>1
  <2>3. Known(k - 1)
    BY <2>1, <2>2
  <2>4. Known(k - 1 + 1)
    BY <2>2, <2>3, <1>2
  <2> QED
    BY <2>1, <2>2, <2>4
<1>4. Known(n + 1)
  BY <1>3
<1>5. Later(n + 1) = set
  BY <1>0
<1> QED
  BY <1>4, <1>5 DEF Known

LEMMA SamplesUnfold ==
  ASSUME NEW set, Ordered(set), NEW n \in Nat, \A f \in set : f <= n
  PROVE  Samples(set) = [f \in set |-> SampleOf(Samples(set), set, f)]
<1> DEFINE Is(s) == s = [f \in set |-> SampleOf(s, set, f)]
<1>1. \E s : Is(s)
  BY SamplesExist
<1>2. Samples(set) = CHOOSE s : Is(s)
  BY Zenon DEF Samples
<1> HIDE DEF Is
<1>3. Is(Samples(set))
  BY <1>1, <1>2, Zenon
<1> QED
  BY <1>3, Zenon DEF Is

(* Dually: what is visited for a field depends on its parent alone.        *)
LEMMA VisitedUnfold ==
  ASSUME NEW set, Ordered(set), NEW n \in Nat, \A f \in set : f <= n, NEW body
  PROVE  Visited(body, set) =
           [id \in set \union {None} |-> VisitedAt(Visited(body, set), body, set, id)]
<1> DEFINE All == set \union {None}
           First(k) == {id \in All : id < k}
           Known(k) == \E at : at = [id \in First(k) |-> VisitedAt(at, body, set, id)]
           Bad == {k \in Nat : ~Known(k)}
<1>0. All \subseteq Nat /\ (\A id \in All : ~(id < 0) /\ id < n + 1) /\ None = 0
  BY DEF Ordered, None
<1>1. Known(0)
  <2>1. First(0) = {}
    BY <1>0
  <2> DEFINE none == [id \in {} |-> None]
  <2>2. \A at : [id \in {} |-> VisitedAt(at, body, set, id)] = none
    OBVIOUS
  <2> QED
    BY <2>1, <2>2
<1>2. ASSUME NEW k \in Nat, Known(k) PROVE Known(k + 1)
  <2>1. PICK s : s = [id \in First(k) |-> VisitedAt(s, body, set, id)]
    BY <1>2
  <2> DEFINE t == [id \in First(k + 1) |-> VisitedAt(s, body, set, id)]
  <2>2. \A id \in First(k) : id \in First(k + 1) /\ t[id] = s[id]
    BY <2>1, <1>0
  <2>3. \A id \in First(k + 1) : /\ id # None /\ fields[id].parentId \in set \union {None}
                                 => fields[id].parentId \in First(k)
    <3> SUFFICES ASSUME NEW id \in First(k + 1), id # None, fields[id].parentId \in set \union {None}
                 PROVE  fields[id].parentId \in First(k)
      OBVIOUS
    <3>1. id \in set /\ id \in Nat /\ id < k + 1
      BY <1>0
    <3>2. fields[id].parentId \in Nat /\ fields[id].parentId < id
      BY <3>1, <1>0 DEF Ordered
    <3> QED
      BY <3>1, <3>2
  <2>4. \A id \in First(k + 1) : VisitedAt(s, body, set, id) = VisitedAt(t, body, set, id)
    <3> SUFFICES ASSUME NEW id \in First(k + 1)
                 PROVE  VisitedAt(s, body, set, id) = VisitedAt(t, body, set, id)
      OBVIOUS
    <3>1. id # None /\ fields[id].parentId \in set \union {None}
          => s[fields[id].parentId] = t[fields[id].parentId]
      BY <2>2, <2>3
    <3> HIDE DEF t
    <3>2. id # None /\ fields[id].parentId \in set \union {None}
          => Members(s, body, id) = Members(t, body, id)
      BY <3>1 DEF Members
    <3> QED
      BY <3>2 DEF VisitedAt
  <2>5. t = [id \in First(k + 1) |-> VisitedAt(t, body, set, id)]
    BY <2>4, Zenon
  <2> QED
    BY <2>5
<1> HIDE DEF Known
<1>3. Bad = {}
  <2> SUFFICES ASSUME Bad # {} PROVE FALSE
    OBVIOUS
  <2>1. PICK k \in Bad : \A j \in Bad : k <= j
    BY LeastId
  <2>2. k # 0 /\ k - 1 \in Nat
    BY <1>1
  <2>3. Known(k - 1)
    BY <2>1, <2>2
  <2>4. Known(k - 1 + 1)
    BY <2>2, <2>3, <1>2
  <2> QED
    BY <2>1, <2>2, <2>4
<1>4. First(n + 1) = All
  BY <1>0
<1>5. Known(n + 1)
  BY <1>3
<1> DEFINE Is(at) == at = [id \in set \union {None} |-> VisitedAt(at, body, set, id)]
<1>6. \E at : Is(at)
  BY <1>4, <1>5 DEF Known
<1>7. Visited(body, set) = CHOOSE at : Is(at)
  BY Zenon DEF Visited
<1> HIDE DEF Is
<1>8. Is(Visited(body, set))
  BY <1>6, <1>7, Zenon
<1> QED
  BY <1>8, Zenon DEF Is

(* The fields of a response in a design the editor has made.               *)
LEMMA ResponseFields ==
  ASSUME TreeInv, NEW r
  PROVE  /\ Ordered(FieldsOf(r)) /\ \A f \in FieldsOf(r) : f <= MaxFields
         /\ \A f \in FieldsOf(r) : fields[f].type \in Types
         /\ \A f, p \in FieldsOf(r) : fields[f].parentId = p /\ fields[p].type = "array"
                                      => fields[f].name = "items"
<1> DEFINE set == FieldsOf(r)
<1>1. set \subseteq DOMAIN fields
  BY DEF FieldsOf
<1>2. \A f \in DOMAIN fields : GoodField(fields, nextField, f)
  BY DEF TreeInv, Good
<1>3. \A f \in set : f \in FieldIds /\ fields[f] \in Field
  BY <1>1, <1>2 DEF GoodField
<1>4. FieldIds \subseteq Nat \ {None} /\ \A f \in FieldIds : f <= MaxFields
  BY FieldTreeAssumption DEF FieldIds, None
<1>5. \A f \in set : fields[f].parentId \in Nat /\ fields[f].type \in Types
  <2>1. \A field \in Field : field.parentId \in FieldIds \union {None} /\ field.type \in Types
    BY DEF Field
  <2>2. None \in Nat
    BY DEF None
  <2> HIDE DEF set
  <2> QED
    BY <1>3, <1>4, <2>1, <2>2
<1>6. \A f \in set : fields[f].parentId # None => fields[f].parentId < f
  BY <1>1, <1>2 DEF GoodField
<1>7. \A f, p \in set : fields[f].parentId = p => Below(fields, f, p)
  BY <1>1, <1>2, <1>3, <1>4 DEF GoodField
<1> HIDE DEF set
<1>8. \A f, p \in set : fields[f].parentId = p /\ fields[p].type = "array" => fields[f].name = "items"
  BY <1>7 DEF Below
<1>9. Ordered(set) /\ \A f \in set : f <= MaxFields
  BY <1>1, <1>3, <1>4, <1>5, <1>6 DEF Ordered
<1> QED
  BY <1>5, <1>8, <1>9 DEF set

(* An object that is sampled has its children's samples under their names. *)
LEMMA ObjectFacts ==
  ASSUME NEW set, DistinctNames(set), NEW id, NEW sample
  PROVE  LET children == ChildrenIn(set, id)
             object == ObjectOf(sample, children) IN
         /\ object.type = "object" /\ DOMAIN object.members = NamesOf(children)
         /\ \A c \in children : object.members[fields[c].name] = sample[c]
<1> DEFINE children == ChildrenIn(set, id)
           Member(n) == CHOOSE c \in children : fields[c].name = n
           members == [n \in NamesOf(children) |-> sample[Member(n)]]
<1>1. ObjectOf(sample, children) = [type |-> "object", members |-> members]
  BY Zenon DEF ObjectOf, Object
<1>2. \A c, d \in children : fields[c].name = fields[d].name => c = d
  BY DEF DistinctNames, ChildrenIn
<1> HIDE DEF children
<1>3. \A c \in children : fields[c].name \in NamesOf(children) /\ Member(fields[c].name) = c
  BY <1>2 DEF NamesOf
<1> HIDE DEF Member
<1>4. \A c \in children : members[fields[c].name] = sample[c]
  BY <1>3
<1> HIDE DEF members
<1>5. DOMAIN members = NamesOf(children)
  BY DEF members
<1> QED
  BY <1>1, <1>4, <1>5 DEF children

(* A sample has the type of its field.                                     *)
LEMMA SampleTypes ==
  ASSUME NEW set, NEW sample, NEW f, fields[f].type \in Types
  PROVE  SampleOf(sample, set, f).type = fields[f].type
<1>1. CASE fields[f].type = "object"
  BY <1>1 DEF SampleOf, ObjectOf, Object
<1>2. CASE fields[f].type = "array"
  BY <1>2 DEF SampleOf, Array
<1>3. CASE fields[f].type \notin {"object", "array"}
  BY <1>3 DEF SampleOf, Scalar
<1> QED
  BY <1>1, <1>2, <1>3

(* What visit is called with, when it is given the sample: the sample of   *)
(* an object, or the string in an array of which nothing is said.          *)
LEMMA VisitedSamples ==
  ASSUME TreeInv, NEW r, DistinctNames(FieldsOf(r)), \A f \in FieldsOf(r) : fields[f].name # "items",
         NEW id \in FieldsOf(r) \union {None},
         NEW value \in Visited(SampleBody(FieldsOf(r)), FieldsOf(r))[id]
  PROVE  \/ value = ObjectOf(Samples(FieldsOf(r)), ChildrenIn(FieldsOf(r), id))
         \/ value = Scalar("string") /\ ChildrenIn(FieldsOf(r), id) = {}
<1> DEFINE set == FieldsOf(r)
           sample == Samples(set)
           body == SampleBody(set)
           at == Visited(body, set)
           As(i, v) == \/ v = ObjectOf(sample, ChildrenIn(set, i))
                       \/ v = Scalar("string") /\ ChildrenIn(set, i) = {}
           Bad == {i \in set \union {None} : \E v \in at[i] : ~As(i, v)}
<1>1. /\ Ordered(set) /\ (\A f \in set : f <= MaxFields) /\ MaxFields \in Nat
      /\ \A f \in set : fields[f].type \in Types
      /\ \A f, p \in set : fields[f].parentId = p /\ fields[p].type = "array" => fields[f].name = "items"
  BY ResponseFields, FieldTreeAssumption
<1>2. sample = [f \in set |-> SampleOf(sample, set, f)]
  BY <1>1, SamplesUnfold
<1>3. at = [i \in set \union {None} |-> VisitedAt(at, body, set, i)]
  BY <1>1, VisitedUnfold
<1>4. DistinctNames(set) /\ \A f \in set : fields[f].name # "items"
  OBVIOUS
<1>5. body = ObjectOf(sample, ChildrenIn(set, None))
  BY DEF SampleBody
<1>6. id \in set \union {None} /\ value \in at[id]
  OBVIOUS
<1> SUFFICES As(id, value)
  OBVIOUS
<1> HIDE DEF set, sample, body, at
<1>7. \A f \in set : sample[f] = SampleOf(sample, set, f) /\ sample[f].type = fields[f].type
  BY <1>1, <1>2, SampleTypes
<1>8. ASSUME NEW i \in set \union {None}, \A j \in set \union {None} : j < i => j \notin Bad,
             NEW v \in at[i]
      PROVE  As(i, v)
  <2>1. v \in VisitedAt(at, body, set, i)
    BY <1>3
  <2>2. CASE i = None
    BY <2>1, <2>2, <1>5 DEF VisitedAt
  <2>3. CASE i # None
    <3> DEFINE p == fields[i].parentId
    <3>1. i \in set /\ p \in set \union {None}
      BY <2>1, <2>3 DEF VisitedAt
    <3>2. p \notin Bad
      BY <3>1, <1>1, <1>8 DEF Ordered, None
    <3>3. i \in ChildrenIn(set, p)
      BY <3>1 DEF ChildrenIn
    <3>4. \A w \in at[p] : w = ObjectOf(sample, ChildrenIn(set, p))
      BY <3>1, <3>2, <3>3
    <3>5. \A w \in at[p] : fields[i].name \in DOMAIN w.members => w.members[fields[i].name] = sample[i]
      BY <3>3, <3>4, <1>4, ObjectFacts
    <3>6. \A m \in Members(at, body, i) : m = sample[i]
      BY <3>5 DEF Members
    <3> HIDE DEF p
    <3>7. CASE fields[i].type = "object"
      <4>1. v \in Members(at, body, i)
        BY <2>1, <2>3, <3>1, <3>7 DEF VisitedAt
      <4>2. v = SampleOf(sample, set, i)
        BY <4>1, <3>1, <3>6, <1>7
      <4> QED
        BY <4>2, <3>7 DEF SampleOf
    <3>8. CASE fields[i].type = "array"
      <4>1. PICK m \in Members(at, body, i) : \E k \in DOMAIN m.elements : v = m.elements[k]
        BY <2>1, <2>3, <3>1, <3>8 DEF VisitedAt
      <4>2. ChildrenIn(set, i) = {}
        BY <3>1, <3>8, <1>1, <1>4 DEF ChildrenIn
      <4>3. m = Array(<<Scalar("string")>>)
        BY <4>1, <4>2, <3>1, <3>6, <3>8, <1>7 DEF SampleOf
      <4> DEFINE string == Scalar("string")
      <4> HIDE DEF string
      <4>4. m.elements = <<string>>
        BY <4>3 DEF Array, string
      <4>5. v = string
        BY <4>1, <4>4
      <4> QED
        BY <4>2, <4>5 DEF string
    <3>9. CASE fields[i].type \notin {"object", "array"}
      BY <2>1, <2>3, <3>1, <3>9 DEF VisitedAt
    <3> QED
      BY <3>7, <3>8, <3>9
  <2> QED
    BY <2>2, <2>3
<1>9. Bad = {}
  <2> SUFFICES ASSUME Bad # {} PROVE FALSE
    OBVIOUS
  <2>1. Bad \in SUBSET Nat
    BY <1>1 DEF Ordered, None
  <2>2. PICK i \in Bad : \A j \in Bad : i <= j
    BY <2>1, LeastId
  <2>3. \A j \in set \union {None} : j < i => j \notin Bad
    BY <2>1, <2>2
  <2> QED
    BY <2>2, <2>3, <1>8
<1> QED
  BY <1>6, <1>9

LEMMA OwnSchema ==
  ASSUME TreeInv, NEW r, DistinctNames(FieldsOf(r)), \A f \in FieldsOf(r) : fields[f].name # "items"
  PROVE  Conforming(r)
<1> DEFINE set == FieldsOf(r)
           sample == Samples(set)
           body == SampleBody(set)
<1> SUFFICES ASSUME NEW additional \in BOOLEAN, NEW id \in set \union {None},
                    NEW value \in Visited(body, set)[id]
             PROVE  Passes(value, ChildrenIn(set, id), additional)
  BY DEF Conforming, Accepted
<1> DEFINE children == ChildrenIn(set, id)
<1>1. \/ value = ObjectOf(sample, children)
      \/ value = Scalar("string") /\ children = {}
  BY VisitedSamples
<1>2. \A f \in set : sample[f].type = fields[f].type
  <2>1. /\ Ordered(set) /\ (\A f \in set : f <= MaxFields) /\ MaxFields \in Nat
        /\ \A f \in set : fields[f].type \in Types
    BY ResponseFields, FieldTreeAssumption
  <2>2. sample = [f \in set |-> SampleOf(sample, set, f)]
    BY <2>1, SamplesUnfold
  <2> HIDE DEF set, sample
  <2> QED
    BY <2>1, <2>2, SampleTypes
<1>3. CASE value = ObjectOf(sample, children)
  <2>1. /\ value.type = "object" /\ DOMAIN value.members = NamesOf(children)
        /\ \A c \in children : value.members[fields[c].name] = sample[c]
    BY <1>3, ObjectFacts
  <2>2. children \subseteq set
    BY DEF ChildrenIn
  <2> HIDE DEF set, sample, children
  <2> QED
    BY <2>1, <2>2, <1>2 DEF Passes, MatchesType, children
<1>4. CASE value = Scalar("string") /\ children = {}
  BY <1>4 DEF Passes, Scalar
<1> QED
  BY <1>1, <1>3, <1>4

(* However fields were added, renamed, retyped, nested and deleted, a      *)
(* response that conforms to the schema written for the design             *)
(* (renderSchemaField) passes every assertion that visit pushes for it,    *)
(* for any number of fields, within the validator's own limits on depth    *)
(* and nodes, as long as no array has items.                               *)
THEOREM SchemasAgree == Spec => []OwnSchemaAccepted
<1>1. TreeInv => OwnSchemaAccepted
  BY OwnSchema DEF OwnSchemaAccepted
<1> QED
  BY <1>1, InitTree, TreeStep, PTL DEF Spec
-------------------------------------------------------------------------------
(***************************************************************************)
(* What is stored for a request is its own definition and shows the design *)
(* that was on the panel when it was saved.  The invariant follows a text  *)
(* from the panel into the saves under way, into the store, and back into  *)
(* the panel of the tab that loads it; `drift` names the parts of a design *)
(* that its text has not followed, and `excused` a tab that made, or may   *)
(* make, another definition.                                               *)
(***************************************************************************)
(* The types of the panels and of the store; definitions are numbered.     *)
PanelTypes ==
    /\ panel \in [Tabs -> Panels \union {Absent}]
    /\ loading \in [Tabs -> SUBSET LoadRows]
    /\ saving \in [Tabs -> SUBSET SaveRows]
    /\ requestId \in [Tabs -> Tabs \union {Absent}]
    /\ excused \subseteq Tabs /\ DOMAIN shownAtSave = Tabs
StoredTypes ==
    /\ Cardinality(DOMAIN definitions) \in Nat
    /\ DOMAIN definitions = 1 .. Cardinality(DOMAIN definitions)
    /\ definitions \in [DOMAIN definitions -> Texts]
    /\ maker \in [DOMAIN definitions -> Tabs]
    /\ DOMAIN binding \subseteq Tabs
DefinitionTypes == PanelTypes /\ StoredTypes

(* A text shows a design, but for the parts that have drifted and those    *)
(* that are not written; an empty text will be generated from it.          *)
Shows(text, design, drift) ==
    text.empty \/ \A part \in Written(text.design.version) \ drift : text.design[part] = design[part]

(* The visual editor shows its text.  The source editor does so while its  *)
(* text is the baseline and neither came about otherwise than by typing.   *)
Honest(p) ==
    /\ p.mode = "visual" => Shows(p.content, p.design, p.drift)
    /\ p.mode = "source" /\ ~p.unparsed =>
          /\ Shows(p.baseline, p.design, p.drift) /\ p.design.fields = p.lastValid
          /\ ~p.dirty => Shows(p.content, p.design, p.drift)
    /\ p.content.valid => ~p.content.empty

(* A definition is known only to the tab that made it: its panel, its      *)
(* saves, its loads and the binding of its request.                        *)
OwnDefinition(t, id) == id \in DOMAIN definitions /\ maker[id] = t

(* A save holds a text of what was shown when it began, for the request    *)
(* that the tab had.                                                       *)
OwnSave(t, save) ==
    /\ ~save.content.empty /\ Shows(save.content, save.shown, save.drift)
    /\ save.requestId = requestId[t]
    /\ save.id # Absent => OwnDefinition(t, save.id)
    /\ save.phase = "bind" => save.id # Absent
    /\ save.here => Mounted(t)
OwnLoad(t, load) ==
    /\ load.requestId \in {t, Absent}
    /\ \A link \in load.links : link = Absent \/ OwnDefinition(t, link)
    /\ \A list \in load.lists : \A d \in DOMAIN list : ~list[d].empty
Owned(t) ==
    /\ requestId[t] \in {t, Absent}
    /\ Mounted(t) /\ panel[t].definitionId # Absent => OwnDefinition(t, panel[t].definitionId)
    /\ \A save \in saving[t] : OwnSave(t, save)
    /\ \A load \in loading[t] : OwnLoad(t, load)
StoredOwned ==
    /\ \A r \in DOMAIN binding : OwnDefinition(r, binding[r])
    /\ \A d \in DOMAIN definitions : ~definitions[d].empty

(* A tab that is not excused makes one definition: a save that will make   *)
(* it is alone, and a panel has one save.                                  *)
MakesOne(t) ==
    /\ \A d, e \in DOMAIN definitions : maker[d] = t /\ maker[e] = t => d = e
    /\ \A a, b \in saving[t] : (a.here /\ b.here) \/ a.id = Absent => a = b
    /\ \A save \in saving[t] : save.id = Absent => \A d \in DOMAIN definitions : maker[d] # t

(* It has its request, and a panel knows the definition: it has loaded it, *)
(* or the definition is bound and what reload may get has it.              *)
CurrentSave(t, save) ==
    IF save.here THEN panel[t].loaded /\ panel[t].busy /\ save.id = panel[t].definitionId
    ELSE Mounted(t) => save.id # Absent /\ save.id = BoundTo(t)
CurrentLoad(t, load) ==
    /\ load.requestId = t /\ load.links \subseteq {BoundTo(t)}
    /\ BoundTo(t) # Absent => \A list \in load.lists :
          /\ BoundTo(t) \in DOMAIN list
          /\ ~panel[t].raced => list[BoundTo(t)] = definitions[BoundTo(t)]
Knows(t) ==
    /\ requestId[t] = t
    /\ loading[t] # {} => Mounted(t) /\ ~panel[t].loaded
    /\ \A a, b \in loading[t] : a = b
    /\ \A load \in loading[t] : CurrentLoad(t, load)
    /\ \A save \in saving[t] : CurrentSave(t, save)
    /\ Mounted(t) => \A d \in DOMAIN definitions : maker[d] = t =>
          d = IF panel[t].loaded THEN panel[t].definitionId ELSE BoundTo(t)

(* The text of a panel that was not edited since it was loaded is the one  *)
(* that is stored or being saved; the one stored is of the design that was *)
(* shown.                                                                  *)
Unedited(t) ==
    /\ Mounted(t) /\ ~panel[t].raced => \A save \in saving[t] : save.here
    /\ Mounted(t) /\ panel[t].loaded /\ ~panel[t].edited /\ ~panel[t].raced =>
          /\ panel[t].definitionId # Absent => definitions[panel[t].definitionId] = panel[t].content
          /\ \A save \in saving[t] : save.content = panel[t].content
    /\ shownAtSave[t] # Absent => \A d \in DOMAIN definitions : maker[d] = t =>
          Shows(definitions[d], shownAtSave[t].design, shownAtSave[t].drift)

TabInv(t) ==
    /\ Mounted(t) => Honest(panel[t])
    /\ Owned(t)
    /\ t \notin excused => MakesOne(t) /\ Knows(t) /\ Unedited(t)

(* Neither OneDefinition nor ReopensAsSaved is inductive: where the id of  *)
(* a tab's only definition is at each moment, and when a text is that of   *)
(* the design that is shown, are what they follow from.                    *)
DefinitionInv == DefinitionTypes /\ StoredOwned /\ \A t \in Tabs : TabInv(t)

-------------------------------------------------------------------------------
(* Texts and designs.                                                      *)
LEMMA PartNames == DOMAIN Default = {"fields", "responses", "security", "bodyMode", "version"}
  BY DEF Default

LEMMA DefaultFacts == Default \in Designs /\ NoText \in Texts /\ NoText.empty /\ ~NoText.valid
  BY DefinitionAssumption DEF Default, Designs, NoText, Texts, Versions

LEMMA ShowsParts ==
  ASSUME NEW text \in Texts, NEW design \in Designs, NEW drift
  PROVE  Shows(text, design, drift) <=>
            \/ text.empty
            \/ /\ "fields" \in drift \/ text.design.fields = design.fields
               /\ "responses" \in drift \/ text.design.responses = design.responses
               /\ "security" \in drift \/ text.design.security = design.security
               /\ \/ "bodyMode" \in drift \/ text.design.version = "2.0"
                  \/ text.design.bodyMode = design.bodyMode
<1>1. text.design \in Designs /\ text.design.version \in {"2.0", "3.1"}
  BY DEF Texts, Designs, Versions
<1>2. Written(text.design.version) =
        {"fields", "responses", "security"} \union
        (IF text.design.version = "2.0" THEN {} ELSE {"bodyMode"})
  BY <1>1 DEF Written, Parts
<1> QED  BY <1>1, <1>2 DEF Shows

LEMMA GeneratedFacts ==
  ASSUME NEW design \in Designs
  PROVE  LET text == FieldsToDefinition(design) IN
         /\ text \in Texts /\ text.valid /\ ~text.empty
         /\ text.design.fields = design.fields /\ text.design.responses = design.responses
         /\ text.design.security = design.security /\ text.design.version = design.version
         /\ text.design.version = "2.0" \/ text.design.bodyMode = design.bodyMode
<1> DEFINE d == [design EXCEPT !.bodyMode = IF design.version = "2.0" THEN 0 ELSE @]
<1>1. /\ d \in Designs /\ d.fields = design.fields /\ d.responses = design.responses
      /\ d.security = design.security /\ d.version = design.version
      /\ d.version = "2.0" \/ d.bodyMode = design.bodyMode
  BY DefinitionAssumption DEF Designs
<1>2. FieldsToDefinition(design) = [design |-> d, valid |-> TRUE, empty |-> FALSE]
  BY DEF FieldsToDefinition, Text
<1> HIDE DEF d
<1> QED  BY <1>1, <1>2 DEF Texts

-------------------------------------------------------------------------------
(* Steps of one tab.                                                       *)
LEMMA TabFacts ==
  ASSUME DefinitionInv, NEW t \in Tabs
  PROVE  /\ Mounted(t) <=> panel[t] \in Panels
         /\ saving[t] \subseteq SaveRows /\ loading[t] \subseteq LoadRows
         /\ TabInv(t) /\ PanelTypes /\ StoredTypes /\ StoredOwned
<1>1. TabInv(t) /\ PanelTypes /\ StoredTypes /\ StoredOwned
  BY DEF DefinitionInv, DefinitionTypes
<1>2. Mounted(t) <=> panel[t] \in Panels
  BY <1>1, DefinitionAssumption DEF PanelTypes, Mounted
<1>3. saving[t] \subseteq SaveRows /\ loading[t] \subseteq LoadRows
  BY <1>1 DEF PanelTypes
<1> QED  BY <1>1, <1>2, <1>3

(* The binding of a request is of a definition of its tab.                 *)
LEMMA LinkedOwn ==
  ASSUME StoredTypes, StoredOwned, NEW t \in Tabs
  PROVE  /\ BoundTo(t) = Absent <=> t \notin DOMAIN binding
         /\ BoundTo(t) # Absent => OwnDefinition(t, BoundTo(t)) /\ BoundTo(t) = binding[t]
         /\ BoundTo(t) \in Nat \union {Absent}
<1>1. CASE t \in DOMAIN binding
  <2>1. BoundTo(t) = binding[t] /\ OwnDefinition(t, binding[t])
    BY <1>1 DEF BoundTo, StoredOwned
  <2>2. binding[t] \in Nat
    BY <2>1 DEF OwnDefinition, StoredTypes
  <2> QED  BY <1>1, <2>1, <2>2, DefinitionAssumption
<1>2. CASE t \notin DOMAIN binding
  BY <1>2 DEF BoundTo
<1> QED  BY <1>1, <1>2

LEMMA LoadFacts ==
  ASSUME NEW load \in LoadRows, NEW list, NEW r, NEW id
  PROVE  /\ Listed(load, list).requestId = load.requestId /\ Listed(load, list).links = load.links
         /\ Listed(load, list).lists = load.lists \union {list}
         /\ list \in TextLists => Listed(load, list) \in LoadRows
         /\ load.requestId # r => LinkedTo(load, r, id) = load
         /\ LinkedTo(load, r, id).requestId = load.requestId
         /\ LinkedTo(load, r, id).lists = load.lists
         /\ LinkedTo(load, r, id).links \subseteq load.links \union {id}
         /\ id \in Nat \union {Absent} => LinkedTo(load, r, id) \in LoadRows
<1>1. /\ Listed(load, list) = [load EXCEPT !.lists = @ \union {list}]
      /\ LinkedTo(load, r, id) = IF load.requestId = r THEN [load EXCEPT !.links = @ \union {id}] ELSE load
  BY DEF Listed, LinkedTo
<1> QED  BY <1>1 DEF LoadRows

(* A store is one of the answers client.list may give.                     *)
LEMMA StoreIsList ==
  ASSUME NEW store, DOMAIN store \subseteq Nat, store \in [DOMAIN store -> Texts]
  PROVE  store \in TextLists
<1>1. DOMAIN store \in SUBSET Nat
  OBVIOUS
<1> QED  BY <1>1 DEF TextLists

LEMMA ListFacts ==
  ASSUME NEW list \in TextLists
  PROVE  /\ Absent \notin DOMAIN list
         /\ \A d \in DOMAIN list : d \in Nat /\ list[d] \in Texts
<1>1. PICK ids \in SUBSET Nat : list \in [ids -> Texts]
  BY DEF TextLists
<1> QED  BY <1>1, DefinitionAssumption

(* What a tab keeps while another takes a step, which may store a          *)
(* definition of its own and bind it.                                      *)
LEMMA OtherTab ==
  ASSUME NEW u \in Tabs, TabInv(u), StoredTypes, StoredOwned, StoredOwned', loading[u] \subseteq LoadRows,
         panel'[u] = panel[u], saving'[u] = saving[u],
         \/ loading'[u] = loading[u]
         \/ loading'[u] = {Listed(load, definitions') : load \in loading[u]},
         requestId'[u] = requestId[u], shownAtSave'[u] = shownAtSave[u],
         u \in excused => u \in excused',
         \A d \in DOMAIN definitions : maker[d] = u =>
            d \in DOMAIN definitions' /\ maker'[d] = u /\ definitions'[d] = definitions[d],
         \A d \in DOMAIN definitions' : maker'[d] = u => d \in DOMAIN definitions /\ maker[d] = u,
         BoundTo(u)' = BoundTo(u)
  PROVE  TabInv(u)'
<1>1. (Mounted(u) <=> Mounted(u)') /\ (Mounted(u)' => Honest(panel[u])')
  BY DEF TabInv, Mounted, Honest, Shows
<1>2. \A id : OwnDefinition(u, id) => OwnDefinition(u, id)'
  BY DEF OwnDefinition
<1>3. \A new \in loading'[u] : \E load \in loading[u] :
        /\ new.requestId = load.requestId /\ new.links = load.links
        /\ new.lists \subseteq load.lists \union {definitions'}
  <2>1. CASE loading'[u] = loading[u]
    BY <2>1
  <2>2. CASE loading'[u] = {Listed(load, definitions') : load \in loading[u]}
    BY <2>2, LoadFacts
  <2> QED  BY <2>1, <2>2
<1>4. \A d \in DOMAIN definitions' : ~definitions'[d].empty
  BY DEF StoredOwned
<1>5. Owned(u)'
  <2>1. ASSUME NEW save \in saving'[u] PROVE OwnSave(u, save)'
    <3>1. OwnSave(u, save)
      BY DEF TabInv, Owned
    <3> QED  BY <1>1, <1>2, <3>1 DEF OwnSave, Shows
  <2>2. ASSUME NEW new \in loading'[u] PROVE OwnLoad(u, new)'
    <3>1. PICK load \in loading[u] :
            /\ new.requestId = load.requestId /\ new.links = load.links
            /\ new.lists \subseteq load.lists \union {definitions'}
      BY <1>3
    <3>2. OwnLoad(u, load)
      BY DEF TabInv, Owned
    <3> QED  BY <1>2, <1>4, <3>1, <3>2 DEF OwnLoad
  <2>3. /\ requestId'[u] \in {u, Absent}
        /\ (Mounted(u) /\ panel[u].definitionId # Absent => OwnDefinition(u, panel[u].definitionId))'
    BY <1>1, <1>2 DEF TabInv, Owned
  <2> QED  BY <2>1, <2>2, <2>3 DEF Owned
<1>6. ASSUME u \notin excused' PROVE MakesOne(u)' /\ Unedited(u)'
  <2>1. MakesOne(u) /\ Unedited(u) /\ Owned(u)
    BY <1>6 DEF TabInv
  <2>2. MakesOne(u)'
    BY <2>1 DEF MakesOne
  <2>3. Unedited(u)'
    BY <1>1, <2>1 DEF Unedited, Shows, Owned, OwnDefinition
  <2> QED  BY <2>2, <2>3
<1>7. ASSUME u \notin excused' PROVE Knows(u)'
  <2>1. Knows(u)
    BY <1>7 DEF TabInv
  <2>2. BoundTo(u) # Absent =>
          /\ BoundTo(u) \in DOMAIN definitions'
          /\ definitions'[BoundTo(u)] = definitions[BoundTo(u)]
    BY LinkedOwn DEF OwnDefinition
  <2>3. ASSUME NEW new \in loading'[u] PROVE CurrentLoad(u, new)'
    <3>1. PICK load \in loading[u] :
            /\ new.requestId = load.requestId /\ new.links = load.links
            /\ new.lists \subseteq load.lists \union {definitions'}
      BY <1>3
    <3>2. CurrentLoad(u, load)
      BY <2>1 DEF Knows
    <3> QED  BY <2>2, <3>1, <3>2 DEF CurrentLoad
  <2>4. ASSUME NEW save \in saving'[u] PROVE CurrentSave(u, save)'
    BY <1>1, <2>1 DEF Knows, CurrentSave
  <2>5. \A a, b \in loading'[u] : a = b
    <3>1. CASE loading'[u] = loading[u]
      BY <2>1, <3>1 DEF Knows
    <3>2. CASE loading'[u] = {Listed(load, definitions') : load \in loading[u]}
      BY <2>1, <3>2 DEF Knows
    <3> QED  BY <3>1, <3>2
  <2>6. loading'[u] # {} => loading[u] # {}
    BY <1>3
  <2>7. /\ requestId'[u] = u
        /\ loading'[u] # {} => Mounted(u)' /\ ~panel'[u].loaded
        /\ Mounted(u)' => \A d \in DOMAIN definitions' : maker'[d] = u =>
              d = IF panel'[u].loaded THEN panel'[u].definitionId ELSE BoundTo(u)'
    BY <1>1, <2>1, <2>6 DEF Knows
  <2> QED  BY <2>3, <2>4, <2>5, <2>7 DEF Knows
<1> QED  BY <1>1, <1>5, <1>6, <1>7 DEF TabInv

(* A step of a tab that stores and binds nothing.                          *)
LEMMA TabStep ==
  ASSUME DefinitionInv, NEW t \in Tabs, NEW p, NEW l, NEW s,
         panel' = [panel EXCEPT ![t] = p], loading' = [loading EXCEPT ![t] = l],
         saving' = [saving EXCEPT ![t] = s], UNCHANGED <<stored, shownAtSave, maker>>,
         excused \subseteq excused', excused' \subseteq Tabs,
         p \in Panels \union {Absent}, l \subseteq LoadRows, s \subseteq SaveRows,
         TabInv(t)'
  PROVE  DefinitionInv'
<1>0. PanelTypes /\ StoredTypes /\ StoredOwned /\ \A u \in Tabs : TabInv(u) /\ loading[u] \subseteq LoadRows
  BY TabFacts DEF DefinitionInv, DefinitionTypes
<1>1. PanelTypes'
  BY <1>0 DEF PanelTypes, stored
<1>2. StoredTypes' /\ StoredOwned'
  BY <1>0 DEF StoredTypes, StoredOwned, OwnDefinition, stored
<1>3. ASSUME NEW u \in Tabs, u # t PROVE TabInv(u)'
  <2>1. /\ TabInv(u) /\ loading[u] \subseteq LoadRows /\ BoundTo(u)' = BoundTo(u)
        /\ panel'[u] = panel[u] /\ saving'[u] = saving[u] /\ loading'[u] = loading[u]
    BY <1>0, <1>3 DEF PanelTypes, BoundTo, stored
  <2>2. /\ requestId'[u] = requestId[u] /\ shownAtSave'[u] = shownAtSave[u]
        /\ definitions' = definitions /\ maker' = maker
    BY DEF stored
  <2> QED  BY <1>0, <1>2, <2>1, <2>2, OtherTab
<1> QED  BY <1>1, <1>2, <1>3 DEF DefinitionInv, DefinitionTypes

(* A handler that only sets what the panel shows.                          *)
LEMMA PanelOnly ==
  ASSUME DefinitionInv, NEW t \in Tabs, Mounted(t), NEW new \in Panels, Set(t, new),
         UNCHANGED <<loading, saving, stored, history>>,
         new.definitionId = panel[t].definitionId, new.loaded = panel[t].loaded,
         new.busy = panel[t].busy, new.raced = panel[t].raced,
         \/ new.edited
         \/ new.edited = panel[t].edited /\ new.content = panel[t].content,
         Honest(new)
  PROVE  DefinitionInv'
<1>1. /\ TabInv(t) /\ PanelTypes /\ saving[t] \subseteq SaveRows /\ loading[t] \subseteq LoadRows
      /\ StoredTypes /\ StoredOwned
  BY TabFacts
<1>2. /\ panel' = [panel EXCEPT ![t] = new] /\ panel'[t] = new
      /\ loading' = [loading EXCEPT ![t] = loading[t]]
      /\ saving' = [saving EXCEPT ![t] = saving[t]]
  BY <1>1 DEF Set, PanelTypes
<1>3. Mounted(t)' /\ BoundTo(t)' = BoundTo(t) /\ \A id : OwnDefinition(t, id)' <=> OwnDefinition(t, id)
  BY <1>2, DefinitionAssumption DEF Mounted, BoundTo, OwnDefinition, stored, history
<1>4. Honest(panel[t])'
  BY <1>2 DEF Honest, Shows
<1>5. Owned(t)'
  <2>1. Owned(t)
    BY <1>1 DEF TabInv
  <2>2. \A save \in saving[t] : OwnSave(t, save)'
    BY <1>3, <2>1 DEF Owned, OwnSave, Shows, stored
  <2>3. \A load \in loading[t] : OwnLoad(t, load)'
    BY <1>3, <2>1 DEF Owned, OwnLoad, stored
  <2> QED  BY <1>2, <1>3, <2>1, <2>2, <2>3 DEF Owned, stored
<1>6. ASSUME t \notin excused' PROVE MakesOne(t)' /\ Knows(t)' /\ Unedited(t)'
  <2>1. MakesOne(t) /\ Knows(t) /\ Unedited(t)
    BY <1>1, <1>6 DEF TabInv, history
  <2>2. MakesOne(t)'
    BY <2>1 DEF MakesOne, stored, history
  <2>3. \A save \in saving[t] : CurrentSave(t, save)'
    BY <1>2, <1>3, <2>1 DEF Knows, CurrentSave
  <2>4. \A load \in loading[t] : CurrentLoad(t, load)'
    BY <1>2, <1>3, <2>1 DEF Knows, CurrentLoad, stored
  <2>5. Knows(t)'
    BY <1>2, <1>3, <2>1, <2>3, <2>4 DEF Knows, stored, history
  <2>6. Unedited(t)'
    BY <1>2, <1>3, <2>1 DEF Unedited, Shows, stored, history
  <2> QED  BY <2>2, <2>5, <2>6
<1>7. TabInv(t)'
  BY <1>4, <1>5, <1>6 DEF TabInv
<1>8. UNCHANGED <<stored, shownAtSave, maker>> /\ excused \subseteq excused' /\ excused' \subseteq Tabs
  BY <1>1 DEF history, PanelTypes
<1> QED  BY <1>1, <1>2, <1>7, <1>8, TabStep

-------------------------------------------------------------------------------
(* The visual editor.                                                      *)
LEMMA EditedKeeps ==
  ASSUME DefinitionInv, NEW t \in Tabs, Mounted(t), NEW design \in Designs, NEW generated \in Designs,
         \/ generated = design
         \/ /\ panel[t].mode = "visual"
            /\ generated # design /\ generated = [design EXCEPT !.responses = generated.responses],
         Set(t, Edited(t, design, generated)), UNCHANGED <<loading, saving, stored, history>>
  PROVE  DefinitionInv'
<1> DEFINE p == panel[t]
           text == FieldsToDefinition(generated)
           new == Edited(t, design, generated)
           drift == IF generated = design THEN {} ELSE {"responses"}
           unparsed == p.mode = "source"
<1>1. p \in Panels
  BY TabFacts
<1>2. /\ text \in Texts /\ text.valid /\ ~text.empty
      /\ text.design.fields = generated.fields /\ text.design.responses = generated.responses
      /\ text.design.security = generated.security
      /\ text.design.version = "2.0" \/ text.design.bodyMode = generated.bodyMode
  BY GeneratedFacts
<1>3. new = [p EXCEPT !.design = design, !.content = text, !.lastVisual = text, !.edited = TRUE,
                      !.drift = drift, !.unparsed = unparsed]
  BY DEF Edited
<1>4. drift \in SUBSET DOMAIN Default /\ unparsed \in BOOLEAN
  BY PartNames
<1>5. Shows(text, design, drift)
  <2>1. generated.fields = design.fields /\ generated.security = design.security
        /\ generated.bodyMode = design.bodyMode
    BY DEF Designs
  <2>2. "responses" \in drift \/ generated.responses = design.responses
    OBVIOUS
  <2> HIDE DEF drift, text
  <2> QED  BY <1>2, <2>1, <2>2, ShowsParts
<1> HIDE DEF text, new, drift
<1>6. new \in Panels
  BY <1>1, <1>2, <1>3, <1>4 DEF Panels
<1>7. /\ new.design = design /\ new.content = text /\ new.drift = drift /\ new.edited
      /\ new.definitionId = p.definitionId /\ new.loaded = p.loaded
      /\ new.busy = p.busy /\ new.raced = p.raced
      /\ new.mode = p.mode /\ new.unparsed = (p.mode = "source")
  BY <1>1, <1>3 DEF Panels
<1>8. Honest(new)
  BY <1>2, <1>5, <1>7 DEF Honest
<1> QED  BY <1>6, <1>7, <1>8, PanelOnly DEF new

LEMMA VisualKeeps ==
  ASSUME DefinitionInv, NEW t \in Tabs,
         \/ UpdateFields(t) \/ ChangeBodyMode(t) \/ ChangeSecurity(t) \/ ChangeResponses(t)
         \/ ChangeResponsesAndFields(t)
  PROVE  DefinitionInv'
<1> DEFINE design == panel[t].design
<1>1. /\ Mounted(t) /\ panel[t] \in Panels /\ panel[t].mode = "visual"
      /\ UNCHANGED <<loading, saving, stored, history>>
  BY TabFacts DEF UpdateFields, ChangeBodyMode, ChangeSecurity, ChangeResponses,
                  ChangeResponsesAndFields, Visual
<1>2. design \in Designs
  BY <1>1 DEF Panels
<1>3. \A value \in Values :
        /\ [design EXCEPT !.fields = value] \in Designs
        /\ [design EXCEPT !.bodyMode = value] \in Designs
        /\ [design EXCEPT !.security = value] \in Designs
        /\ [design EXCEPT !.responses = value] \in Designs
  BY <1>2 DEF Designs
<1>4. CASE UpdateFields(t)
  BY <1>1, <1>3, <1>4, EditedKeeps DEF UpdateFields
<1>5. CASE ChangeBodyMode(t)
  BY <1>1, <1>3, <1>5, EditedKeeps DEF ChangeBodyMode
<1>6. CASE ChangeSecurity(t)
  BY <1>1, <1>3, <1>6, EditedKeeps DEF ChangeSecurity
<1>7. CASE ChangeResponses(t)
  BY <1>1, <1>3, <1>7, EditedKeeps DEF ChangeResponses
<1>8. CASE ChangeResponsesAndFields(t)
  <2>1. PICK value \in Values, others \in Values :
          /\ value # design.responses
          /\ LET stale == [design EXCEPT !.fields = others]
             IN  Set(t, Edited(t, [stale EXCEPT !.responses = value], stale))
    BY <1>8 DEF ChangeResponsesAndFields
  <2> DEFINE stale == [design EXCEPT !.fields = others]
             shown == [stale EXCEPT !.responses = value]
  <2>2. stale \in Designs /\ shown \in Designs /\ stale.responses = design.responses
        /\ shown.responses = value
    BY <1>2 DEF Designs
  <2>3. stale # shown /\ stale = [shown EXCEPT !.responses = stale.responses]
    BY <1>2, <2>1, <2>2 DEF Designs
  <2>4. Set(t, Edited(t, shown, stale))
    BY <2>1
  <2> HIDE DEF shown, stale
  <2> QED  BY <1>1, <2>2, <2>3, <2>4, EditedKeeps
<1> QED  BY <1>4, <1>5, <1>6, <1>7, <1>8

LEMMA VersionKeeps == ASSUME DefinitionInv, NEW t \in Tabs, ChangeOpenApiVersion(t) PROVE DefinitionInv'
<1>1. /\ Mounted(t) /\ panel[t] \in Panels /\ UNCHANGED <<loading, saving, stored, history>>
      /\ Honest(panel[t])
  BY TabFacts DEF ChangeOpenApiVersion, TabInv
<1>2. PICK version \in Versions :
        LET design == [panel[t].design EXCEPT !.version = version] IN
        Set(t, IF design.fields # 0 THEN Edited(t, design, design)
               ELSE [panel[t] EXCEPT !.design = design, !.drift = @ \union {"version"}])
  BY DEF ChangeOpenApiVersion
<1> DEFINE p == panel[t]
           design == [p.design EXCEPT !.version = version]
           new == [p EXCEPT !.design = design, !.drift = @ \union {"version"}]
<1>3. /\ p.design \in Designs /\ design \in Designs /\ design.fields = p.design.fields
      /\ design.responses = p.design.responses /\ design.security = p.design.security
      /\ design.bodyMode = p.design.bodyMode
  BY <1>1 DEF Panels, Designs
<1>4. CASE design.fields # 0
  <2>1. Set(t, Edited(t, design, design))
    BY <1>2, <1>4
  <2> HIDE DEF design
  <2> QED  BY <1>1, <1>3, <2>1, EditedKeeps
<1>5. CASE design.fields = 0
  <2>1. Set(t, new)
    BY <1>2, <1>5
  <2> HIDE DEF design
  <2>2. p.drift \union {"version"} \in SUBSET DOMAIN Default
    BY <1>1, PartNames DEF Panels
  <2>3. /\ new \in Panels /\ new.definitionId = p.definitionId /\ new.loaded = p.loaded
        /\ new.busy = p.busy /\ new.raced = p.raced
        /\ new.edited = p.edited /\ new.content = p.content /\ new.mode = p.mode
        /\ new.unparsed = p.unparsed /\ new.dirty = p.dirty /\ new.baseline = p.baseline
        /\ new.design = design /\ new.drift = p.drift \union {"version"} /\ new.lastValid = p.lastValid
    BY <1>1, <1>3, <2>2 DEF Panels
  <2> HIDE DEF new
  <2>4. \A text \in Texts : Shows(text, p.design, p.drift) => Shows(text, design, new.drift)
    BY <1>3, <2>3, ShowsParts
  <2>5. Honest(new)
    BY <1>1, <1>3, <2>3, <2>4 DEF Honest, Panels
  <2> QED  BY <1>1, <2>1, <2>3, <2>5, PanelOnly DEF new
<1> QED  BY <1>4, <1>5

-------------------------------------------------------------------------------
(* The source editor.                                                      *)
LEMMA EnterSourceKeeps == ASSUME DefinitionInv, NEW t \in Tabs, EnterSourceMode(t) PROVE DefinitionInv'
<1> DEFINE p == panel[t]
           unparsed == p.mode = "source"
           lastValid == IF p.mode = "source" THEN p.lastValid ELSE p.design.fields
           new == [p EXCEPT !.mode = "source", !.baseline = p.content, !.dirty = FALSE,
                            !.unparsed = unparsed, !.lastValid = lastValid]
<1>1. Mounted(t) /\ p \in Panels /\ Honest(p) /\ UNCHANGED <<loading, saving, stored, history>>
  BY TabFacts DEF EnterSourceMode, TabInv
<1>2. Set(t, new)
  BY DEF EnterSourceMode
<1>3. unparsed \in BOOLEAN /\ lastValid \in Values
  BY <1>1 DEF Panels, Designs
<1>4. /\ new \in Panels /\ new.definitionId = p.definitionId /\ new.loaded = p.loaded
      /\ new.busy = p.busy /\ new.raced = p.raced
      /\ new.edited = p.edited /\ new.content = p.content /\ new.mode = "source"
      /\ new.unparsed = (p.mode = "source") /\ new.baseline = p.content
      /\ new.design = p.design /\ new.drift = p.drift
      /\ p.mode = "visual" => new.lastValid = p.design.fields
  BY <1>1, <1>3 DEF Panels
<1> HIDE DEF new, p
<1>5. Honest(new)
  BY <1>1, <1>4 DEF Honest, Panels
<1> QED  BY <1>1, <1>2, <1>4, <1>5, PanelOnly DEF p

LEMMA EditSourceKeeps == ASSUME DefinitionInv, NEW t \in Tabs, EditSource(t) PROVE DefinitionInv'
<1> DEFINE p == panel[t]
<1>1. /\ Mounted(t) /\ p \in Panels /\ Honest(p) /\ p.mode = "source"
      /\ UNCHANGED <<loading, saving, stored, history>>
  BY TabFacts DEF EditSource, Source, TabInv
<1>2. PICK design \in Designs, valid \in BOOLEAN :
        Set(t, [p EXCEPT !.content = Text(design, valid), !.edited = TRUE,
                         !.dirty = Text(design, valid) # p.baseline,
                         !.design.version = design.version])
  BY DEF EditSource
<1> DEFINE text == Text(design, valid)
           dirty == text # p.baseline
           shown == [p.design EXCEPT !.version = design.version]
           new == [p EXCEPT !.content = text, !.edited = TRUE, !.dirty = dirty, !.design = shown]
<1>3. text \in Texts /\ ~text.empty
  BY DEF Text, Texts
<1>4. /\ p.design \in Designs /\ shown \in Designs /\ shown.fields = p.design.fields
      /\ shown.responses = p.design.responses /\ shown.security = p.design.security
      /\ shown.bodyMode = p.design.bodyMode
  BY <1>1 DEF Panels, Designs
<1>5. Set(t, new)
  BY <1>2
<1> HIDE DEF text, shown
<1>6. /\ new \in Panels /\ new.definitionId = p.definitionId /\ new.loaded = p.loaded
      /\ new.busy = p.busy /\ new.raced = p.raced
      /\ new.edited /\ new.content = text /\ new.mode = "source"
      /\ new.unparsed = p.unparsed /\ new.baseline = p.baseline /\ new.lastValid = p.lastValid
      /\ new.design = shown /\ new.drift = p.drift /\ (~new.dirty => text = p.baseline)
  BY <1>1, <1>3, <1>4 DEF Panels
<1> HIDE DEF new
<1>7. Shows(p.baseline, p.design, p.drift) => Shows(p.baseline, shown, p.drift)
  <2>1. p.baseline \in Texts
    BY <1>1 DEF Panels
  <2> QED  BY <1>4, <2>1, ShowsParts
<1>8. Honest(new)
  BY <1>1, <1>3, <1>4, <1>6, <1>7 DEF Honest
<1> QED  BY <1>1, <1>5, <1>6, <1>8, PanelOnly

LEMMA FormatSourceKeeps == ASSUME DefinitionInv, NEW t \in Tabs, FormatSource(t) PROVE DefinitionInv'
<1> DEFINE p == panel[t]
           text == [p.content EXCEPT !.valid = TRUE]
           new == [p EXCEPT !.content = text, !.edited = TRUE, !.unparsed = TRUE]
<1>1. /\ Mounted(t) /\ p \in Panels /\ p.mode = "source" /\ ~p.content.empty
      /\ UNCHANGED <<loading, saving, stored, history>> /\ Set(t, new)
  BY TabFacts DEF FormatSource, Source
<1>2. text \in Texts /\ ~text.empty
  BY <1>1 DEF Panels, Texts
<1> HIDE DEF text
<1>3. /\ new \in Panels /\ new.definitionId = p.definitionId /\ new.loaded = p.loaded
      /\ new.busy = p.busy /\ new.raced = p.raced
      /\ new.edited /\ new.content = text /\ new.mode = "source" /\ new.unparsed
  BY <1>1, <1>2 DEF Panels
<1>4. Honest(new)
  BY <1>2, <1>3 DEF Honest
<1> QED  BY <1>1, <1>3, <1>4, PanelOnly

LEMMA ReparsedFacts ==
  ASSUME DefinitionInv, NEW t \in Tabs, Source(t), panel[t].content.valid
  PROVE  LET new == Reparsed(t) IN
         /\ new \in Panels /\ Honest(new) /\ new.definitionId = panel[t].definitionId
         /\ new.loaded = panel[t].loaded
         /\ new.busy = panel[t].busy /\ new.raced = panel[t].raced /\ new.edited = panel[t].edited
         /\ new.content = panel[t].content
<1> DEFINE p == panel[t]
           text == p.content.design
           shown == [p.design EXCEPT !.responses = text.responses,
                        !.fields = IF p.content = p.lastVisual THEN @ ELSE text.fields]
           drift == {part \in {"fields", "security", "bodyMode"} : shown[part] # text[part]}
                    \union (p.drift \intersect {"version"})
           new == Reparsed(t)
<1>1. p \in Panels /\ Honest(p)
  BY TabFacts DEF Source, TabInv
<1>2. p.content \in Texts /\ text \in Designs /\ p.design \in Designs /\ ~p.content.empty
  BY <1>1 DEF Panels, Texts, Honest
<1>3. shown \in Designs /\ shown.responses = text.responses
  BY <1>2 DEF Designs
<1>4. drift \in SUBSET DOMAIN Default
  BY PartNames
<1>5. /\ "fields" \in drift \/ text.fields = shown.fields
      /\ "security" \in drift \/ text.security = shown.security
      /\ "bodyMode" \in drift \/ text.bodyMode = shown.bodyMode
  <2> HIDE DEF shown, text
  <2> QED  OBVIOUS
<1>6. new = [p EXCEPT !.mode = "visual", !.design = shown, !.dirty = FALSE, !.lastVisual = p.content,
                      !.baseline = p.content, !.unparsed = FALSE, !.drift = drift]
  BY DEF Reparsed
<1> HIDE DEF shown, drift, new
<1>7. Shows(p.content, shown, drift)
  BY <1>2, <1>3, <1>5, ShowsParts
<1>8. /\ new \in Panels /\ new.definitionId = p.definitionId /\ new.loaded = p.loaded
      /\ new.busy = p.busy /\ new.raced = p.raced
      /\ new.edited = p.edited /\ new.content = p.content /\ new.mode = "visual"
      /\ new.design = shown /\ new.drift = drift
  BY <1>1, <1>2, <1>3, <1>4, <1>6 DEF Panels
<1>9. Honest(new)
  BY <1>2, <1>7, <1>8 DEF Honest
<1> QED  BY <1>8, <1>9 DEF new

LEMMA UnreadFacts ==
  ASSUME DefinitionInv, NEW t \in Tabs, Source(t), ~panel[t].dirty
  PROVE  LET new == Unread(t) IN
         /\ new \in Panels /\ Honest(new) /\ new.definitionId = panel[t].definitionId
         /\ new.loaded = panel[t].loaded
         /\ new.busy = panel[t].busy /\ new.raced = panel[t].raced /\ new.edited = panel[t].edited
         /\ new.content = panel[t].content
<1> DEFINE p == panel[t]
           text == p.content.design
           drift == IF ~p.unparsed THEN p.drift
                    ELSE {part \in DOMAIN Default : p.design[part] # text[part]}
           new == Unread(t)
<1>1. p \in Panels /\ Honest(p) /\ p.mode = "source" /\ ~p.dirty
  BY TabFacts DEF Source, TabInv
<1>2. p.content \in Texts /\ p.design \in Designs
  BY <1>1 DEF Panels
<1>3. drift \in SUBSET DOMAIN Default
  BY <1>1 DEF Panels
<1>4. Shows(p.content, p.design, drift)
  <2>1. CASE p.unparsed
    <3>1. drift = {part \in {"fields", "responses", "security", "bodyMode", "version"} :
                      p.design[part] # text[part]}
      BY <2>1, PartNames
    <3>2. /\ "fields" \in drift \/ text.fields = p.design.fields
          /\ "responses" \in drift \/ text.responses = p.design.responses
          /\ "security" \in drift \/ text.security = p.design.security
          /\ "bodyMode" \in drift \/ text.bodyMode = p.design.bodyMode
      <4> HIDE DEF drift, p, text
      <4> QED  BY <3>1
    <3> QED  BY <1>2, <3>2, ShowsParts
  <2>2. CASE ~p.unparsed
    BY <1>1, <2>2 DEF Honest
  <2> QED  BY <2>1, <2>2
<1>5. new = [p EXCEPT !.mode = "visual", !.unparsed = FALSE, !.drift = drift]
  BY DEF Unread
<1> HIDE DEF drift, new
<1>6. /\ new \in Panels /\ new.definitionId = p.definitionId /\ new.loaded = p.loaded
      /\ new.busy = p.busy /\ new.raced = p.raced
      /\ new.edited = p.edited /\ new.content = p.content /\ new.mode = "visual"
      /\ new.design = p.design /\ new.drift = drift
  BY <1>1, <1>3, <1>5 DEF Panels
<1>7. Honest(new)
  BY <1>1, <1>4, <1>6 DEF Honest
<1> QED  BY <1>6, <1>7 DEF new

LEMMA EnterVisualKeeps == ASSUME DefinitionInv, NEW t \in Tabs, EnterVisualMode(t) PROVE DefinitionInv'
<1> DEFINE p == panel[t]
<1>1. /\ Source(t) /\ Mounted(t) /\ p \in Panels /\ Honest(p) /\ p.mode = "source"
      /\ UNCHANGED <<loading, saving, stored, history>>
  BY TabFacts DEF EnterVisualMode, Source, TabInv
<1>2. CASE ~p.dirty
  <2>1. Set(t, Unread(t))
    BY <1>2 DEF EnterVisualMode
  <2> QED  BY <1>1, <1>2, <2>1, UnreadFacts, PanelOnly
<1>3. CASE p.dirty /\ p.content.valid
  <2>1. Set(t, Reparsed(t))
    BY <1>3 DEF EnterVisualMode
  <2> QED  BY <1>1, <1>3, <2>1, ReparsedFacts, PanelOnly
<1>4. CASE p.dirty /\ ~p.content.valid
  <2> DEFINE shown == [p.design EXCEPT !.fields = p.lastValid]
             new == [p EXCEPT !.design = shown]
  <2>1. Set(t, new)
    BY <1>4 DEF EnterVisualMode
  <2>2. /\ shown \in Designs /\ shown.fields = p.lastValid
        /\ p.design.fields = p.lastValid => shown = p.design
    BY <1>1 DEF Panels, Designs
  <2> HIDE DEF shown
  <2>3. /\ new \in Panels /\ new.definitionId = p.definitionId /\ new.loaded = p.loaded
        /\ new.busy = p.busy /\ new.raced = p.raced
        /\ new.edited = p.edited /\ new.content = p.content /\ new.mode = "source"
        /\ new.design = shown /\ new.drift = p.drift /\ new.dirty /\ new.unparsed = p.unparsed
        /\ new.baseline = p.baseline /\ new.lastValid = p.lastValid
    BY <1>1, <1>4, <2>2 DEF Panels
  <2> HIDE DEF new
  <2>4. Honest(new)
    BY <1>1, <1>4, <2>2, <2>3 DEF Honest
  <2> QED  BY <1>1, <2>1, <2>3, <2>4, PanelOnly
<1> QED  BY <1>2, <1>3, <1>4

LEMMA ImportKeeps == ASSUME DefinitionInv, NEW t \in Tabs, ImportFile(t) PROVE DefinitionInv'
<1> DEFINE p == panel[t]
<1>1. Mounted(t) /\ p \in Panels /\ UNCHANGED <<loading, saving, stored, history>>
  BY TabFacts DEF ImportFile
<1>2. PICK design \in Files, valid \in BOOLEAN :
        Set(t, [p EXCEPT
                  !.content = Text(design, valid), !.edited = TRUE, !.unparsed = p.mode = "source",
                  !.design.fields = design.fields, !.design.responses = design.responses,
                  !.design.version = design.version,
                  !.drift = {part \in {"security", "bodyMode"} : p.design[part] # design[part]}])
  BY DEF ImportFile
<1> DEFINE text == Text(design, valid)
           unparsed == p.mode = "source"
           shown == [p.design EXCEPT !.fields = design.fields, !.responses = design.responses,
                                     !.version = design.version]
           drift == {part \in {"security", "bodyMode"} : p.design[part] # design[part]}
           new == [p EXCEPT !.content = text, !.edited = TRUE, !.unparsed = unparsed,
                            !.design = shown, !.drift = drift]
<1>3. design \in Designs
  BY DEF Files
<1>4. text \in Texts /\ ~text.empty /\ text.design = design
  BY <1>3 DEF Text, Texts
<1>5. /\ shown \in Designs /\ shown.fields = design.fields /\ shown.responses = design.responses
      /\ shown.security = p.design.security /\ shown.bodyMode = p.design.bodyMode
  BY <1>1, <1>3 DEF Panels, Designs
<1>6. /\ drift \in SUBSET DOMAIN Default
      /\ "security" \in drift \/ design.security = p.design.security
      /\ "bodyMode" \in drift \/ design.bodyMode = p.design.bodyMode
  <2> HIDE DEF p
  <2> QED  BY PartNames
<1>7. Set(t, new)
  BY <1>1, <1>2 DEF Panels, Designs
<1> HIDE DEF text, shown, drift
<1>8. Shows(text, shown, drift)
  BY <1>4, <1>5, <1>6, ShowsParts
<1>9. /\ new \in Panels /\ new.definitionId = p.definitionId /\ new.loaded = p.loaded
      /\ new.busy = p.busy /\ new.raced = p.raced
      /\ new.edited /\ new.content = text /\ new.mode = p.mode /\ new.unparsed = (p.mode = "source")
      /\ new.design = shown /\ new.drift = drift
  BY <1>1, <1>4, <1>5, <1>6 DEF Panels
<1> HIDE DEF new
<1>10. Honest(new)
  BY <1>4, <1>8, <1>9 DEF Honest
<1> QED  BY <1>1, <1>7, <1>9, <1>10, PanelOnly

-------------------------------------------------------------------------------
(* Showing the tab and loading.                                            *)
LEMMA OpenKeeps == ASSUME DefinitionInv, NEW t \in Tabs, OpenDesignTab(t) PROVE DefinitionInv'
<1> DEFINE raced == saving[t] # {}
           new == [NewPanel EXCEPT !.raced = raced]
<1>1. /\ ~Mounted(t) /\ TabInv(t) /\ PanelTypes /\ StoredTypes /\ StoredOwned
      /\ panel' = [panel EXCEPT ![t] = new]
      /\ loading' = [loading EXCEPT ![t] = {NewLoad(requestId[t])}]
      /\ excused' = IF Unbound(t) THEN excused \union {t} ELSE excused
      /\ UNCHANGED <<saving, stored, shownAtSave, maker, steps>>
  BY TabFacts DEF OpenDesignTab, Set
<1>2. /\ NewPanel \in Panels /\ NewPanel.content = NoText /\ NewPanel.mode = "visual"
      /\ NewPanel.definitionId = Absent /\ ~NewPanel.loaded
  BY DefaultFacts, DefinitionAssumption, PartNames DEF NewPanel, Panels
<1>3. /\ new \in Panels /\ new.content = NoText /\ new.mode = "visual"
      /\ new.definitionId = Absent /\ ~new.loaded /\ new.raced = (saving[t] # {})
  BY <1>2 DEF Panels
<1>4. PICK load \in LoadRows :
        /\ load = NewLoad(requestId[t]) /\ load.requestId = requestId[t]
        /\ load.lists = {definitions} /\ load.links = {BoundTo(requestId[t])}
  <2>1. requestId[t] \in Tabs \union {Absent} /\ definitions \in TextLists
    BY <1>1, StoreIsList DEF PanelTypes, StoredTypes
  <2>2. BoundTo(requestId[t]) \in Nat \union {Absent}
    BY <1>1, <2>1, LinkedOwn, DefinitionAssumption DEF BoundTo, StoredTypes
  <2> DEFINE row == NewLoad(requestId[t])
  <2>3. /\ row \in LoadRows /\ row.requestId = requestId[t]
        /\ row.lists = {definitions} /\ row.links = {BoundTo(requestId[t])}
    BY <2>1, <2>2 DEF NewLoad, LoadRows
  <2> HIDE DEF row
  <2> QED  BY <2>3 DEF row
<1> DEFINE l == {load}
<1> HIDE DEF new, raced
<1>5. panel'[t] = new /\ loading'[t] = {load} /\ saving' = saving /\ Mounted(t)'
  BY <1>1, <1>3, <1>4, DefinitionAssumption DEF PanelTypes, Mounted
<1>6. Honest(panel[t])'
  BY <1>3, <1>5, DefaultFacts DEF Honest, Shows
<1>7. BoundTo(t)' = BoundTo(t) /\ \A id : OwnDefinition(t, id)' <=> OwnDefinition(t, id)
  BY <1>1 DEF BoundTo, OwnDefinition, stored
<1>8. Owned(t)'
  <2>1. Owned(t)
    BY <1>1 DEF TabInv
  <2>2. \A save \in saving[t] : OwnSave(t, save)'
    BY <1>1, <1>5, <1>7, <2>1 DEF Owned, OwnSave, Shows, stored
  <2>3. OwnLoad(t, load)'
    <3>1. requestId[t] \in {t, Absent} /\ \A d \in DOMAIN definitions : ~definitions[d].empty
      BY <1>1, <2>1 DEF Owned, StoredOwned
    <3>2. BoundTo(requestId[t]) = Absent \/ OwnDefinition(t, BoundTo(requestId[t]))
      BY <1>1, <3>1, LinkedOwn, DefinitionAssumption DEF BoundTo, StoredTypes
    <3> QED  BY <1>1, <1>4, <1>7, <3>1, <3>2 DEF OwnLoad, stored
  <2> QED  BY <1>1, <1>3, <1>5, <2>1, <2>2, <2>3 DEF Owned, stored
<1>9. ASSUME t \notin excused' PROVE MakesOne(t)' /\ Knows(t)' /\ Unedited(t)'
  <2>1. MakesOne(t) /\ Knows(t) /\ Unedited(t) /\ Owned(t) /\ ~Unbound(t) /\ requestId[t] = t
    BY <1>1, <1>9 DEF TabInv, Knows
  <2>2. ASSUME NEW d \in DOMAIN definitions, maker[d] = t PROVE d = BoundTo(t) /\ BoundTo(t) # Absent
    <3>1. d \in DOMAIN maker /\ d # Absent
      BY <1>1, DefinitionAssumption DEF StoredTypes
    <3>2. PICK r \in DOMAIN binding : binding[r] = d
      BY <2>1, <2>2, <3>1 DEF Unbound
    <3>3. r = t
      BY <1>1, <2>2, <3>2 DEF StoredOwned, OwnDefinition
    <3> QED  BY <3>1, <3>2, <3>3 DEF BoundTo
  <2>3. MakesOne(t)'
    BY <1>1, <2>1 DEF MakesOne, stored
  <2>4. ASSUME NEW save \in saving[t] PROVE CurrentSave(t, save)'
    <3>1. ~save.here /\ save.id # Absent /\ OwnDefinition(t, save.id)
      BY <1>1, <2>1 DEF Owned, OwnSave, Unbound
    <3> QED  BY <1>7, <2>2, <3>1 DEF CurrentSave, OwnDefinition
  <2>5. CurrentLoad(t, load)'
    <3>1. BoundTo(t) # Absent => BoundTo(t) \in DOMAIN definitions
      BY <1>1, LinkedOwn DEF OwnDefinition
    <3> QED  BY <1>1, <1>4, <1>7, <2>1, <3>1 DEF CurrentLoad, stored
  <2>6. Knows(t)'
    BY <1>1, <1>3, <1>5, <1>7, <2>1, <2>2, <2>4, <2>5 DEF Knows, stored
  <2>7. Unedited(t)'
    BY <1>1, <1>3, <1>5, <2>1 DEF Unedited, Shows, stored
  <2> QED  BY <2>3, <2>6, <2>7
<1>10. TabInv(t)'
  BY <1>6, <1>8, <1>9 DEF TabInv
<1>11. /\ UNCHANGED <<stored, shownAtSave, maker>> /\ excused \subseteq excused' /\ excused' \subseteq Tabs
       /\ l \subseteq LoadRows /\ loading' = [loading EXCEPT ![t] = l]
       /\ saving[t] \subseteq SaveRows /\ saving' = [saving EXCEPT ![t] = saving[t]]
  BY <1>1, <1>4 DEF PanelTypes
<1> HIDE DEF l
<1> QED  BY <1>1, <1>3, <1>10, <1>11, TabStep

LEMMA LeaveKeeps == ASSUME DefinitionInv, NEW t \in Tabs, LeaveDesignTab(t) PROVE DefinitionInv'
<1> DEFINE l == {}
           s == {Left(save) : save \in saving[t]}
<1>1. /\ Mounted(t) /\ TabInv(t) /\ PanelTypes /\ StoredTypes /\ StoredOwned /\ saving[t] \subseteq SaveRows
      /\ panel' = [panel EXCEPT ![t] = Absent] /\ loading' = [loading EXCEPT ![t] = l]
      /\ saving' = [saving EXCEPT ![t] = s]
      /\ UNCHANGED <<stored, history>>
  BY TabFacts DEF LeaveDesignTab
<1>2. panel'[t] = Absent /\ loading'[t] = {} /\ saving'[t] = s /\ ~Mounted(t)'
  BY <1>1 DEF PanelTypes, Mounted
<1>3. \A row \in s : \E save \in saving[t] :
        /\ row = Left(save) /\ row \in SaveRows /\ ~row.here
        /\ row.phase = save.phase /\ row.requestId = save.requestId /\ row.id = save.id
        /\ row.content = save.content /\ row.drift = save.drift /\ row.shown = save.shown
  <2>1. ASSUME NEW save \in saving[t]
        PROVE  LET row == Left(save) IN
               /\ row \in SaveRows /\ ~row.here
               /\ row.phase = save.phase /\ row.requestId = save.requestId /\ row.id = save.id
               /\ row.content = save.content /\ row.drift = save.drift /\ row.shown = save.shown
    BY <1>1 DEF Left, SaveRows
  <2> QED  BY <2>1
<1>4. Owned(t)'
  <2>1. Owned(t)
    BY <1>1 DEF TabInv
  <2>2. ASSUME NEW row \in s PROVE OwnSave(t, row)'
    <3>1. PICK save \in saving[t] :
            /\ ~row.here /\ row.phase = save.phase /\ row.requestId = save.requestId /\ row.id = save.id
            /\ row.content = save.content /\ row.drift = save.drift /\ row.shown = save.shown
      BY <1>3
    <3>2. OwnSave(t, save)
      BY <2>1 DEF Owned
    <3> QED  BY <1>1, <3>1, <3>2 DEF OwnSave, OwnDefinition, Shows, stored, history
  <2> HIDE DEF s
  <2> QED  BY <1>1, <1>2, <2>1, <2>2 DEF Owned, stored
<1>5. ASSUME t \notin excused' PROVE MakesOne(t)' /\ Knows(t)' /\ Unedited(t)'
  <2>1. MakesOne(t) /\ Knows(t) /\ Unedited(t)
    BY <1>1, <1>5 DEF TabInv, history
  <2> HIDE DEF s
  <2>2. \A row \in s : row.id = Absent => \A d \in DOMAIN definitions : maker[d] # t
    BY <1>3, <2>1 DEF MakesOne
  <2>3. \A a, b \in s : a.id = Absent => a = b
    BY <1>3, <2>1 DEF MakesOne
  <2>4. \A row \in s : ~row.here
    BY <1>3
  <2>5. MakesOne(t)'
    BY <1>1, <1>2, <2>1, <2>2, <2>3, <2>4 DEF MakesOne, stored, history
  <2>6. \A row \in s : CurrentSave(t, row)'
    BY <1>2, <2>4 DEF CurrentSave
  <2>7. Knows(t)'
    BY <1>1, <1>2, <2>1, <2>6 DEF Knows, stored, history
  <2>8. Unedited(t)'
    BY <1>1, <1>2, <2>1 DEF Unedited, Shows, stored, history
  <2> QED  BY <2>5, <2>7, <2>8
<1>6. TabInv(t)'
  BY <1>2, <1>4, <1>5 DEF TabInv
<1>7. s \subseteq SaveRows
  BY <1>3
<1>8. /\ excused \subseteq excused' /\ excused' \subseteq Tabs /\ l \subseteq LoadRows
      /\ Absent \in Panels \union {Absent} /\ UNCHANGED <<stored, shownAtSave, maker>>
  BY <1>1 DEF PanelTypes, history
<1> HIDE DEF l, s
<1> QED  BY <1>1, <1>6, <1>7, <1>8, TabStep

LEMMA ParsedFacts ==
  ASSUME NEW t \in Tabs, panel[t] \in Panels, NEW id \in Nat \union {Absent}, NEW text \in Texts,
         text.valid => ~text.empty
  PROVE  LET new == Parsed(t, id, text) IN
         /\ new \in Panels /\ Honest(new) /\ new.definitionId = id /\ new.content = text
         /\ new.loaded /\ ~new.edited /\ new.busy = panel[t].busy /\ new.raced = panel[t].raced
<1> DEFINE p == panel[t]
           unparsed == p.mode = "source"
           new == Parsed(t, id, text)
<1>1. new = [p EXCEPT !.design = text.design, !.content = text, !.definitionId = id,
                      !.lastVisual = text, !.drift = {}, !.loaded = TRUE, !.edited = FALSE,
                      !.unparsed = unparsed]
  BY DEF Parsed
<1>2. text.design \in Designs /\ unparsed \in BOOLEAN /\ {} \in SUBSET DOMAIN Default
  BY DEF Texts
<1> HIDE DEF new
<1>3. /\ new \in Panels /\ new.definitionId = id /\ new.content = text /\ new.loaded /\ ~new.edited
      /\ new.busy = p.busy /\ new.raced = p.raced
      /\ new.design = text.design /\ new.drift = {} /\ new.mode = p.mode
      /\ new.unparsed = (p.mode = "source")
  BY <1>1, <1>2 DEF Panels
<1>4. Shows(text, text.design, {})
  BY DEF Shows
<1>5. Honest(new)
  BY <1>3, <1>4 DEF Honest
<1> QED  BY <1>3, <1>5 DEF new

(* One of a tab's loads is over, and none has begun.                       *)
LEMMA FewerLoads ==
  ASSUME NEW t \in Tabs, PanelTypes, NEW load \in loading[t],
         loading' = [loading EXCEPT ![t] = @ \ {load}]
  PROVE  /\ loading'[t] \subseteq loading[t] /\ loading[t] \ {load} \subseteq LoadRows
         /\ (\A a, b \in loading[t] : a = b) => loading'[t] = {}
         /\ loading' = [loading EXCEPT ![t] = loading[t] \ {load}]
  BY DEF PanelTypes

LEMMA ParsedKeeps ==
  ASSUME DefinitionInv, NEW t \in Tabs, Mounted(t), NEW load \in loading[t],
         loading' = [loading EXCEPT ![t] = @ \ {load}],
         NEW id \in Nat \union {Absent}, NEW text \in Texts, text.valid => ~text.empty,
         Set(t, Parsed(t, id, text)), UNCHANGED <<saving, stored, history>>,
         id # Absent => OwnDefinition(t, id),
         CurrentLoad(t, load) =>
            /\ id = BoundTo(t)
            /\ id # Absent /\ ~panel[t].raced => definitions[id] = text
  PROVE  DefinitionInv'
<1> DEFINE new == Parsed(t, id, text)
           p == panel[t]
<1>1. /\ p \in Panels /\ TabInv(t) /\ PanelTypes /\ StoredTypes /\ StoredOwned
  BY TabFacts
<1>2. /\ new \in Panels /\ Honest(new) /\ new.definitionId = id /\ new.content = text
      /\ new.loaded /\ ~new.edited /\ new.busy = p.busy /\ new.raced = p.raced
  BY <1>1, ParsedFacts
<1>3. panel' = [panel EXCEPT ![t] = new]
  BY DEF Set
<1> HIDE DEF new
<1>4. panel'[t] = new /\ Mounted(t)'
  BY <1>1, <1>2, <1>3, DefinitionAssumption DEF PanelTypes, Mounted
<1>5. /\ loading'[t] \subseteq loading[t] /\ loading[t] \ {load} \subseteq LoadRows
      /\ (\A a, b \in loading[t] : a = b) => loading'[t] = {}
      /\ loading' = [loading EXCEPT ![t] = loading[t] \ {load}]
  BY <1>1, FewerLoads
<1>6. BoundTo(t)' = BoundTo(t) /\ \A d : OwnDefinition(t, d)' <=> OwnDefinition(t, d)
  BY DEF BoundTo, OwnDefinition, stored, history
<1>7. Honest(panel[t])'
  BY <1>2, <1>4 DEF Honest, Shows
<1>8. Owned(t)'
  <2>1. Owned(t)
    BY <1>1 DEF TabInv
  <2>2. \A save \in saving[t] : OwnSave(t, save)'
    BY <1>4, <1>6, <2>1 DEF Owned, OwnSave, Shows, stored
  <2>3. \A other \in loading[t] : OwnLoad(t, other)'
    BY <1>6, <2>1 DEF Owned, OwnLoad, stored
  <2> QED  BY <1>2, <1>4, <1>5, <1>6, <2>1, <2>2, <2>3 DEF Owned, stored
<1>9. ASSUME t \notin excused' PROVE MakesOne(t)' /\ Knows(t)' /\ Unedited(t)'
  <2>1. MakesOne(t) /\ Knows(t) /\ Unedited(t)
    BY <1>1, <1>9 DEF TabInv, history
  <2>2. ~p.loaded /\ CurrentLoad(t, load) /\ loading'[t] = {} /\ id = BoundTo(t)
    BY <1>5, <2>1 DEF Knows
  <2>3. MakesOne(t)'
    BY <2>1 DEF MakesOne, stored, history
  <2>4. ASSUME NEW save \in saving[t] PROVE ~save.here /\ CurrentSave(t, save)'
    <3>1. CurrentSave(t, save)
      BY <2>1 DEF Knows
    <3> QED  BY <1>6, <2>2, <3>1 DEF CurrentSave
  <2>5. Knows(t)'
    BY <1>2, <1>4, <1>6, <2>1, <2>2, <2>4 DEF Knows, stored, history
  <2>6. Unedited(t)'
    <3>1. ~p.raced => saving[t] = {}
      BY <2>1, <2>4 DEF Unedited
    <3> QED  BY <1>2, <1>4, <2>1, <2>2, <3>1 DEF Unedited, Shows, stored, history
  <2> QED  BY <2>3, <2>5, <2>6
<1>10. TabInv(t)'
  BY <1>7, <1>8, <1>9 DEF TabInv
<1>11. /\ UNCHANGED <<stored, shownAtSave, maker>> /\ excused \subseteq excused' /\ excused' \subseteq Tabs
       /\ saving[t] \subseteq SaveRows /\ saving' = [saving EXCEPT ![t] = saving[t]]
  BY <1>1 DEF history, PanelTypes
<1> DEFINE l == loading[t] \ {load}
<1>12. l \subseteq LoadRows /\ loading' = [loading EXCEPT ![t] = l] /\ new \in Panels \union {Absent}
  BY <1>2, <1>5
<1> HIDE DEF l
<1> QED  BY <1>3, <1>10, <1>11, <1>12, TabStep

(* What is inferred is a text, or none.                                    *)
LEMMA InferredFacts ==
  ASSUME NEW t \in Tabs, NEW value \in Values
  PROVE  \E text \in Texts : (text.valid => ~text.empty) /\ Inferred(t, value) = Parsed(t, Absent, text)
<1> DEFINE design == [Default EXCEPT !.fields = value, !.bodyMode = value]
           text == IF value = 0 THEN NoText ELSE FieldsToDefinition(design)
<1>1. design \in Designs
  BY DefaultFacts DEF Designs
<1>2. text \in Texts /\ (text.valid => ~text.empty)
  BY <1>1, DefaultFacts, GeneratedFacts
<1>3. Inferred(t, value) = Parsed(t, Absent, text)
  BY DEF Inferred
<1> HIDE DEF text
<1> QED  BY <1>2, <1>3

LEMMA LoadedKeeps == ASSUME DefinitionInv, NEW t \in Tabs, Loaded(t) PROVE DefinitionInv'
<1>0. PICK load \in loading[t] :
        \E list \in load.lists, link \in load.links :
           /\ Mounted(t)
           /\ loading' = [loading EXCEPT ![t] = @ \ {load}]
           /\ \/ link \in DOMAIN list /\ Set(t, Parsed(t, link, list[link]))
              \/ link \notin DOMAIN list /\ \E value \in Values : Set(t, Inferred(t, value))
           /\ UNCHANGED <<saving, stored, history, steps>>
  BY DEF Loaded
<1>1. PICK list \in load.lists, link \in load.links :
        /\ Mounted(t)
        /\ loading' = [loading EXCEPT ![t] = @ \ {load}]
        /\ \/ link \in DOMAIN list /\ Set(t, Parsed(t, link, list[link]))
           \/ link \notin DOMAIN list /\ \E value \in Values : Set(t, Inferred(t, value))
        /\ UNCHANGED <<saving, stored, history, steps>>
  BY <1>0
<1>2. /\ loading[t] \subseteq LoadRows /\ OwnLoad(t, load) /\ load \in LoadRows
  BY TabFacts DEF TabInv, Owned
<1>3. list \in TextLists
  BY <1>1, <1>2 DEF LoadRows
<1>4. Absent \notin DOMAIN list /\ \A d \in DOMAIN list : d \in Nat /\ list[d] \in Texts
  BY <1>3, ListFacts
<1>5. CASE link \in DOMAIN list /\ Set(t, Parsed(t, link, list[link]))
  <2>1. link \in Nat /\ link # Absent /\ list[link] \in Texts /\ ~list[link].empty /\ OwnDefinition(t, link)
    BY <1>1, <1>2, <1>4, <1>5 DEF OwnLoad
  <2>2. CurrentLoad(t, load) => link = BoundTo(t) /\ (~panel[t].raced => definitions[link] = list[link])
    BY <1>1, <2>1 DEF CurrentLoad
  <2> QED  BY <1>1, <1>5, <2>1, <2>2, ParsedKeeps
<1>6. CASE link \notin DOMAIN list /\ \E value \in Values : Set(t, Inferred(t, value))
  <2>1. PICK value \in Values : Set(t, Inferred(t, value))
    BY <1>6
  <2>2. PICK text \in Texts : (text.valid => ~text.empty) /\ Inferred(t, value) = Parsed(t, Absent, text)
    BY InferredFacts
  <2>3. CurrentLoad(t, load) => BoundTo(t) = Absent
    BY <1>1, <1>6 DEF CurrentLoad
  <2> QED  BY <1>1, <2>1, <2>2, <2>3, ParsedKeeps
<1> QED  BY <1>1, <1>5, <1>6

LEMMA LoadFailedKeeps == ASSUME DefinitionInv, NEW t \in Tabs, LoadFailed(t) PROVE DefinitionInv'
<1>1. PICK load \in loading[t] : loading' = [loading EXCEPT ![t] = @ \ {load}]
  BY DEF LoadFailed
<1>2. TabInv(t) /\ PanelTypes /\ UNCHANGED <<panel, saving, stored, history, steps>>
  BY TabFacts DEF LoadFailed
<1>3. /\ loading'[t] \subseteq loading[t] /\ loading[t] \ {load} \subseteq LoadRows
      /\ loading' = [loading EXCEPT ![t] = loading[t] \ {load}]
  BY <1>1, <1>2, FewerLoads
<1>4. /\ Mounted(t)' <=> Mounted(t)
      /\ BoundTo(t)' = BoundTo(t) /\ \A d : OwnDefinition(t, d)' <=> OwnDefinition(t, d)
  BY <1>2 DEF Mounted, BoundTo, OwnDefinition, stored, history
<1>5. TabInv(t)'
  <2>1. Mounted(t)' => Honest(panel[t])'
    BY <1>2, <1>4 DEF TabInv, Honest, Shows
  <2>2. Owned(t)'
    <3>1. Owned(t)
      BY <1>2 DEF TabInv
    <3>2. \A save \in saving[t] : OwnSave(t, save)'
      BY <1>2, <1>4, <3>1 DEF Owned, OwnSave, Shows, stored
    <3>3. \A other \in loading[t] : OwnLoad(t, other)'
      BY <1>2, <1>4, <3>1 DEF Owned, OwnLoad, stored
    <3> QED  BY <1>2, <1>3, <1>4, <3>1, <3>2, <3>3 DEF Owned, stored
  <2>3. ASSUME t \notin excused' PROVE MakesOne(t)' /\ Knows(t)' /\ Unedited(t)'
    <3>1. MakesOne(t) /\ Knows(t) /\ Unedited(t)
      BY <1>2, <2>3 DEF TabInv, history
    <3>2. MakesOne(t)'
      BY <1>2, <3>1 DEF MakesOne, stored, history
    <3>3. \A save \in saving[t] : CurrentSave(t, save)'
      BY <1>2, <1>4, <3>1 DEF Knows, CurrentSave
    <3>4. \A other \in loading[t] : CurrentLoad(t, other)'
      BY <1>2, <1>4, <3>1 DEF Knows, CurrentLoad, stored
    <3>5. Knows(t)'
      BY <1>2, <1>3, <1>4, <3>1, <3>3, <3>4 DEF Knows, stored, history
    <3>6. Unedited(t)'
      BY <1>2, <1>4, <3>1 DEF Unedited, Shows, stored, history
    <3> QED  BY <3>2, <3>5, <3>6
  <2> QED  BY <2>1, <2>2, <2>3 DEF TabInv
<1>6. /\ panel' = [panel EXCEPT ![t] = panel[t]] /\ saving' = [saving EXCEPT ![t] = saving[t]]
      /\ panel[t] \in Panels \union {Absent} /\ saving[t] \subseteq SaveRows
      /\ UNCHANGED <<stored, shownAtSave, maker>> /\ excused \subseteq excused' /\ excused' \subseteq Tabs
  BY <1>2 DEF PanelTypes, history
<1> QED  BY <1>3, <1>5, <1>6, TabStep

-------------------------------------------------------------------------------
(* Saving.                                                                 *)
LEMMA SaveKeeps == ASSUME DefinitionInv, steps \in Nat, NEW t \in Tabs, SaveDefinition(t) PROVE DefinitionInv'
<1> DEFINE p == panel[t]
           content == DefinitionContent(t)
           lastValid == IF p.mode = "source" THEN p.lastValid ELSE p.design.fields
           refused == [p EXCEPT !.mode = "source", !.unparsed = TRUE, !.lastValid = lastValid]
           texts == IF p.content.empty THEN content ELSE p.content
           visual == IF p.content.empty THEN content ELSE p.lastVisual
           new == [p EXCEPT !.busy = TRUE, !.content = texts, !.lastVisual = visual]
           shown == IF Source(t) THEN content.design ELSE p.design
<1>1. /\ Mounted(t) /\ p \in Panels /\ Honest(p) /\ TabInv(t) /\ PanelTypes /\ StoredOwned /\ ~p.busy
      /\ saving[t] \subseteq SaveRows /\ loading[t] \subseteq LoadRows /\ UNCHANGED <<loading, stored>>
  BY TabFacts DEF SaveDefinition, TabInv
<1>2. \/ /\ Set(t, refused) /\ UNCHANGED <<saving, history>>
      \/ /\ content.valid /\ Set(t, new) /\ saving' = [saving EXCEPT ![t] = @ \union {NewSave(t)}]
         /\ excused' = IF p.loaded THEN excused ELSE excused \union {t}
         /\ UNCHANGED <<shownAtSave, maker>>
  BY DEF SaveDefinition
<1>3. p.design \in Designs /\ p.content \in Texts
  BY <1>1 DEF Panels
<1>4. CASE Set(t, refused) /\ UNCHANGED <<saving, history>>
  <2>1. lastValid \in Values
    BY <1>1, <1>3 DEF Panels, Designs
  <2> HIDE DEF lastValid
  <2>2. /\ refused \in Panels /\ refused.definitionId = p.definitionId /\ refused.loaded = p.loaded
        /\ refused.busy = p.busy /\ refused.raced = p.raced
        /\ refused.edited = p.edited /\ refused.content = p.content /\ refused.mode = "source"
        /\ refused.unparsed
    BY <1>1, <2>1 DEF Panels
  <2>3. Honest(refused)
    BY <1>1, <2>2 DEF Honest
  <2> QED  BY <1>1, <1>4, <2>2, <2>3, PanelOnly
<1>5. CASE /\ content.valid /\ Set(t, new) /\ saving' = [saving EXCEPT ![t] = @ \union {NewSave(t)}]
           /\ excused' = IF p.loaded THEN excused ELSE excused \union {t}
           /\ UNCHANGED <<shownAtSave, maker>>
  <2>1. content \in Texts /\ ~content.empty /\ texts = content
    BY <1>1, <1>3, GeneratedFacts DEF DefinitionContent, Honest
  <2>2. Shows(p.content, p.design, p.drift) => Shows(content, p.design, p.drift)
    <3>1. CASE p.content.empty
      BY <1>3, <2>1, <3>1, GeneratedFacts, ShowsParts DEF DefinitionContent
    <3>2. CASE ~p.content.empty
      BY <3>2 DEF DefinitionContent
    <3> QED  BY <3>1, <3>2
  <2>3. visual \in Texts /\ shown \in Designs
    BY <1>1, <1>3, <2>1 DEF Panels, Texts
  <2>4. ~p.content.empty => content = p.content
    BY DEF DefinitionContent
  <2>5. Shows(content, shown, p.drift)
    <3>1. CASE Source(t)
      BY <3>1 DEF Shows
    <3>2. CASE ~Source(t)
      <4>1. p.mode = "visual"
        BY <1>1, <3>2 DEF Panels, Source
      <4> QED  BY <1>1, <2>2, <3>2, <4>1 DEF Honest
    <3> QED  BY <3>1, <3>2
  <2>6. PICK row \in SaveRows :
          /\ row = NewSave(t) /\ row.phase = "save" /\ row.requestId = requestId[t]
          /\ row.id = p.definitionId /\ row.content = content /\ row.drift = p.drift
          /\ row.shown = shown /\ row.here
    <3> DEFINE made == NewSave(t)
    <3>1. made = [phase |-> "save", requestId |-> requestId[t], id |-> p.definitionId,
                  content |-> content, drift |-> p.drift, shown |-> shown, here |-> TRUE, number |-> steps]
      BY DEF NewSave
    <3>2. /\ requestId[t] \in Tabs \union {Absent} /\ p.definitionId \in Nat \union {Absent}
          /\ p.drift \in SUBSET DOMAIN Default
      BY <1>1 DEF PanelTypes, Panels
    <3> HIDE DEF made, content, shown
    <3>3. made \in SaveRows
      BY <2>1, <2>3, <3>1, <3>2 DEF SaveRows
    <3>4. /\ made.phase = "save" /\ made.requestId = requestId[t] /\ made.id = p.definitionId
          /\ made.content = content /\ made.drift = p.drift /\ made.shown = shown /\ made.here
      BY <3>1
    <3> QED  BY <3>3, <3>4 DEF made
  <2> DEFINE s == saving[t] \union {row}
  <2> HIDE DEF content, texts, visual, shown
  <2>7. /\ new \in Panels /\ new.definitionId = p.definitionId /\ new.loaded = p.loaded
        /\ new.busy /\ new.raced = p.raced
        /\ new.edited = p.edited /\ new.content = content /\ new.mode = p.mode
        /\ new.unparsed = p.unparsed /\ new.baseline = p.baseline /\ new.dirty = p.dirty
        /\ new.design = p.design /\ new.drift = p.drift /\ new.lastValid = p.lastValid
    BY <1>1, <2>1, <2>3 DEF Panels
  <2> HIDE DEF new
  <2>8. panel'[t] = new /\ saving'[t] = s /\ Mounted(t)'
    BY <1>1, <1>5, <2>6, <2>7, DefinitionAssumption DEF PanelTypes, Set, Mounted
  <2>9. BoundTo(t)' = BoundTo(t) /\ \A d : OwnDefinition(t, d)' <=> OwnDefinition(t, d)
    BY <1>1, <1>5 DEF BoundTo, OwnDefinition, stored
  <2>10. Honest(new)
    BY <1>1, <2>1, <2>2, <2>7 DEF Honest
  <2>11. Honest(panel[t])'
    BY <2>8, <2>10 DEF Honest, Shows
  <2>12. Owned(t)'
    <3>1. Owned(t)
      BY <1>1 DEF TabInv
    <3>2. \A save \in saving[t] : OwnSave(t, save)'
      BY <1>1, <2>8, <2>9, <3>1 DEF Owned, OwnSave, Shows, stored
    <3>3. OwnSave(t, row)'
      BY <1>1, <2>1, <2>5, <2>6, <2>8, <2>9, <3>1 DEF Owned, OwnSave, Shows, stored
    <3>4. \A load \in loading[t] : OwnLoad(t, load)'
      BY <2>9, <3>1 DEF Owned, OwnLoad
    <3> QED  BY <1>1, <2>7, <2>8, <2>9, <3>1, <3>2, <3>3, <3>4 DEF Owned, stored
  <2>13. ASSUME t \notin excused' PROVE MakesOne(t)' /\ Knows(t)' /\ Unedited(t)'
    <3>1. MakesOne(t) /\ Knows(t) /\ Unedited(t) /\ p.loaded /\ Owned(t)
      BY <1>1, <1>5, <2>13 DEF TabInv
    <3>2. ASSUME NEW save \in saving[t]
          PROVE  ~save.here /\ save.id # Absent /\ save.id = BoundTo(t) /\ OwnDefinition(t, save.id)
      BY <1>1, <3>1 DEF Knows, CurrentSave, Owned, OwnSave
    <3>3. p.definitionId = Absent => saving[t] = {} /\ \A d \in DOMAIN definitions : maker[d] # t
      <4>1. ASSUME p.definitionId = Absent, NEW d, OwnDefinition(t, d) PROVE FALSE
        <5>1. d # Absent
          BY <4>1, TabFacts, DefinitionAssumption DEF OwnDefinition, StoredTypes
        <5> QED  BY <1>1, <3>1, <4>1, <5>1 DEF Knows, OwnDefinition
      <4> QED  BY <3>2, <4>1 DEF OwnDefinition
    <3>4. MakesOne(t)'
      <4>1. \A a, b \in s : (a.here /\ b.here) \/ a.id = Absent => a = b
        BY <2>6, <3>1, <3>2, <3>3 DEF MakesOne
      <4>2. \A save \in s : save.id = Absent => \A d \in DOMAIN definitions : maker[d] # t
        BY <2>6, <3>1, <3>3 DEF MakesOne
      <4> HIDE DEF s
      <4> QED  BY <1>1, <1>5, <2>8, <3>1, <4>1, <4>2 DEF MakesOne, stored
    <3>5. \A save \in s : CurrentSave(t, save)'
      BY <2>6, <2>7, <2>8, <2>9, <3>1, <3>2 DEF CurrentSave
    <3>6. Knows(t)'
      <4> HIDE DEF s
      <4> QED  BY <1>1, <1>5, <2>7, <2>8, <2>9, <3>1, <3>5 DEF Knows, stored
    <3>7. p.definitionId # Absent /\ ~p.edited /\ ~p.raced => definitions[p.definitionId] = content
      <4>1. p.definitionId # Absent => ~definitions[p.definitionId].empty
        BY <1>1, <3>1 DEF Owned, OwnDefinition, StoredOwned
      <4> QED  BY <1>1, <2>4, <3>1, <4>1 DEF Unedited
    <3>8. ~p.raced => saving[t] = {}
      BY <1>1, <3>1, <3>2 DEF Unedited
    <3>9. Unedited(t)'
      BY <1>1, <1>5, <2>6, <2>7, <2>8, <3>1, <3>7, <3>8 DEF Unedited, Shows, stored
    <3> QED  BY <3>4, <3>6, <3>9
  <2>14. TabInv(t)'
    BY <2>11, <2>12, <2>13 DEF TabInv
  <2>15. /\ panel' = [panel EXCEPT ![t] = new] /\ loading' = [loading EXCEPT ![t] = loading[t]]
         /\ saving' = [saving EXCEPT ![t] = s]
         /\ new \in Panels \union {Absent} /\ s \subseteq SaveRows
         /\ excused \subseteq excused' /\ excused' \subseteq Tabs
         /\ UNCHANGED <<stored, shownAtSave, maker>>
    BY <1>1, <1>5, <2>6, <2>7 DEF PanelTypes, Set
  <2> HIDE DEF s
  <2> QED  BY <1>1, <2>14, <2>15, TabStep
<1> QED  BY <1>2, <1>4, <1>5

(* The store after client.save.                                            *)
Stores(t, save, id) ==
    /\ id = SavedId(save) /\ ~save.content.empty /\ (save.id # Absent => OwnDefinition(t, save.id))
    /\ definitions' = Put(id, save.content)
    /\ maker' = [d \in DOMAIN maker \union {id} |-> IF d = id /\ save.id = Absent THEN t ELSE maker[d]]
    /\ UNCHANGED binding

StoreGrown(t, save, id) ==
    /\ id \in Nat /\ id # Absent /\ (save.id # Absent => id = save.id)
    /\ DOMAIN definitions' = DOMAIN definitions \union {id}
    /\ definitions'[id] = save.content /\ maker'[id] = t
    /\ \A d \in DOMAIN definitions : maker'[d] = maker[d] /\ (d # id => definitions'[d] = definitions[d])
    /\ save.id = Absent => id \notin DOMAIN definitions
    /\ StoredTypes' /\ StoredOwned' /\ definitions' \in TextLists

LEMMA StoreGrows ==
  ASSUME StoredTypes, StoredOwned, NEW t \in Tabs, NEW save \in SaveRows, NEW id, Stores(t, save, id)
  PROVE  StoreGrown(t, save, id)
<1> DEFINE D == DOMAIN definitions
           n == Cardinality(D)
<1>1. /\ n \in Nat /\ D = 1 .. n /\ DOMAIN maker = D /\ id \in Nat /\ id # Absent
      /\ save.id # Absent => id = save.id /\ id \in D /\ maker[id] = t
      /\ save.id = Absent => id = n + 1 /\ id \notin D
  BY DefinitionAssumption DEF StoredTypes, OwnDefinition, SavedId, Stores
<1>2. save.content \in Texts
  BY DEF SaveRows
<1>3. /\ definitions' = [d \in D \union {id} |-> IF d = id THEN save.content ELSE definitions[d]]
      /\ maker' = [d \in DOMAIN maker \union {id} |-> IF d = id /\ save.id = Absent THEN t ELSE maker[d]]
      /\ UNCHANGED binding
  BY DEF Put, Stores
<1> HIDE DEF D, n
<1>4. /\ DOMAIN definitions' = D \union {id} /\ DOMAIN maker' = D \union {id}
      /\ definitions'[id] = save.content /\ maker'[id] = t
      /\ \A d \in D : maker'[d] = maker[d] /\ (d # id => definitions'[d] = definitions[d])
  BY <1>1, <1>3
<1>5. definitions' \in [D \union {id} -> Texts] /\ maker' \in [D \union {id} -> Tabs]
  <2>1. definitions \in [D -> Texts] /\ maker \in [D -> Tabs]
    BY DEF StoredTypes, D
  <2> QED  BY <1>1, <1>2, <1>3, <2>1
<1>6. PICK m \in Nat : D \union {id} = 1 .. m
  <2>1. CASE save.id # Absent
    BY <1>1, <2>1
  <2>2. CASE save.id = Absent
    <3>1. D \union {id} = 1 .. (n + 1)
      BY <1>1, <2>2
    <3> QED  BY <1>1, <3>1
  <2> QED  BY <2>1, <2>2
<1>7. Cardinality(1 .. m) = m
  BY <1>6, FS_Interval
<1>8. StoredTypes'
  BY <1>3, <1>4, <1>5, <1>6, <1>7 DEF StoredTypes
<1>9. StoredOwned'
  <2>1. ~save.content.empty
    BY DEF Stores
  <2> QED  BY <1>1, <1>3, <1>4, <2>1 DEF StoredOwned, OwnDefinition, D
<1>10. definitions' \in TextLists
  BY <1>4, <1>5, <1>6, StoreIsList
<1> QED  BY <1>1, <1>4, <1>8, <1>9, <1>10 DEF D, StoreGrown

(* A save goes on to bind what it has stored.                              *)
LEMMA BindingRow ==
  ASSUME NEW save \in SaveRows, NEW id \in Nat
  PROVE  \E row \in SaveRows :
            /\ row = [save EXCEPT !.phase = "bind", !.id = id] /\ row.phase = "bind" /\ row.id = id
            /\ row.requestId = save.requestId /\ row.content = save.content /\ row.drift = save.drift
            /\ row.shown = save.shown /\ row.here = save.here
<1> DEFINE row == [save EXCEPT !.phase = "bind", !.id = id]
<1>1. /\ row \in SaveRows /\ row.phase = "bind" /\ row.id = id
      /\ row.requestId = save.requestId /\ row.content = save.content /\ row.drift = save.drift
      /\ row.shown = save.shown /\ row.here = save.here
  BY DEF SaveRows
<1> QED  BY <1>1

(* What a panel that is told the end or the success of a save keeps.       *)
Told(t, here, id) == panel' = IF here THEN [panel EXCEPT ![t] = Remember(t, id)] ELSE panel
Ended(t, here) == panel' = IF here THEN [panel EXCEPT ![t].busy = FALSE] ELSE panel

LEMMA PanelTold ==
  ASSUME DefinitionInv, NEW t \in Tabs, NEW here \in BOOLEAN, here => Mounted(t), NEW id \in Nat,
         Told(t, here, id) \/ Ended(t, here)
  PROVE  /\ panel' \in [Tabs -> Panels \union {Absent}]
         /\ \A u \in Tabs : u # t => panel'[u] = panel[u]
         /\ Mounted(t)' <=> Mounted(t)
         /\ Mounted(t) =>
              /\ Honest(panel[t])' /\ panel'[t].content = panel[t].content
              /\ panel'[t].loaded = panel[t].loaded /\ panel'[t].edited = panel[t].edited
              /\ panel'[t].raced = panel[t].raced
         /\ ~here => panel'[t] = panel[t]
         /\ here /\ Told(t, here, id) => panel'[t].definitionId = id /\ panel'[t].busy = panel[t].busy
         /\ here /\ Ended(t, here) => panel'[t].definitionId = panel[t].definitionId
<1>1. TabInv(t) /\ panel \in [Tabs -> Panels \union {Absent}]
  BY TabFacts DEF PanelTypes
<1>2. CASE ~here
  <2>1. panel' = panel
    BY <1>2 DEF Told, Ended
  <2> QED  BY <1>1, <1>2, <2>1 DEF Mounted, TabInv, Honest, Shows
<1>3. ASSUME here, NEW new \in Panels, panel' = [panel EXCEPT ![t] = new],
             new.content = panel[t].content, new.mode = panel[t].mode, new.design = panel[t].design,
             new.drift = panel[t].drift, new.unparsed = panel[t].unparsed,
             new.baseline = panel[t].baseline, new.lastValid = panel[t].lastValid,
             new.dirty = panel[t].dirty
      PROVE  /\ panel' \in [Tabs -> Panels \union {Absent}] /\ panel'[t] = new
             /\ \A u \in Tabs : u # t => panel'[u] = panel[u]
             /\ Mounted(t)' /\ Mounted(t) /\ Honest(panel[t])'
  <2>1. panel' \in [Tabs -> Panels \union {Absent}] /\ panel'[t] = new
    BY <1>1, <1>3
  <2>2. Mounted(t)' /\ Mounted(t) /\ Honest(panel[t])
    BY <1>1, <1>3, <2>1, DefinitionAssumption DEF Mounted, TabInv
  <2>3. Honest(new)
    BY <1>3, <2>2 DEF Honest
  <2>4. Honest(panel[t])'
    BY <2>1, <2>3 DEF Honest, Shows
  <2> QED  BY <1>1, <1>3, <2>1, <2>2, <2>4
<1>4. CASE here
  <2> DEFINE p == panel[t]
             told == [p EXCEPT !.definitionId = id]
             ended == [p EXCEPT !.busy = FALSE]
  <2>1. p \in Panels
    BY <1>1, <1>4 DEF Mounted
  <2>2. /\ told \in Panels /\ told.definitionId = id /\ told.busy = p.busy
        /\ told.content = p.content /\ told.mode = p.mode /\ told.design = p.design
        /\ told.drift = p.drift /\ told.unparsed = p.unparsed /\ told.baseline = p.baseline
        /\ told.lastValid = p.lastValid /\ told.dirty = p.dirty
        /\ told.loaded = p.loaded /\ told.edited = p.edited /\ told.raced = p.raced
    BY <2>1 DEF Panels
  <2>3. /\ ended \in Panels /\ ended.definitionId = p.definitionId
        /\ ended.content = p.content /\ ended.mode = p.mode /\ ended.design = p.design
        /\ ended.drift = p.drift /\ ended.unparsed = p.unparsed /\ ended.baseline = p.baseline
        /\ ended.lastValid = p.lastValid /\ ended.dirty = p.dirty
        /\ ended.loaded = p.loaded /\ ended.edited = p.edited /\ ended.raced = p.raced
    BY <2>1 DEF Panels
  <2>4. /\ Told(t, here, id) <=> panel' = [panel EXCEPT ![t] = told]
        /\ Ended(t, here) <=> panel' = [panel EXCEPT ![t] = ended]
    BY <1>4 DEF Remember, Told, Ended
  <2> HIDE DEF told, ended
  <2>5. CASE panel' = [panel EXCEPT ![t] = told]
    <3>1. /\ panel' \in [Tabs -> Panels \union {Absent}] /\ panel'[t] = told
          /\ \A u \in Tabs : u # t => panel'[u] = panel[u]
          /\ Mounted(t)' /\ Mounted(t) /\ Honest(panel[t])'
      BY <1>3, <1>4, <2>2, <2>5
    <3>2. panel' = [panel EXCEPT ![t] = ended] => panel'[t].definitionId = panel[t].definitionId
      BY <1>1, <2>3
    <3> QED  BY <1>4, <2>2, <2>4, <3>1, <3>2
  <2>6. CASE panel' = [panel EXCEPT ![t] = ended]
    <3>1. /\ panel' \in [Tabs -> Panels \union {Absent}] /\ panel'[t] = ended
          /\ \A u \in Tabs : u # t => panel'[u] = panel[u]
          /\ Mounted(t)' /\ Mounted(t) /\ Honest(panel[t])'
      BY <1>3, <1>4, <2>3, <2>6
    <3>2. panel' = [panel EXCEPT ![t] = told] =>
            panel'[t].definitionId = id /\ panel'[t].busy = panel[t].busy
      BY <1>1, <2>2
    <3> QED  BY <1>4, <2>3, <2>4, <3>1, <3>2
  <2> QED  BY <1>4, <2>4, <2>5, <2>6
<1> QED  BY <1>2, <1>4

(* client.save has stored the text, under a new id or the one it had.      *)
LEMMA SavedKeeps == ASSUME DefinitionInv, NEW t \in Tabs, DefinitionSaved(t) PROVE DefinitionInv'
<1>1. PICK save \in saving[t] :
        LET id == SavedId(save) IN
        /\ save.phase = "save"
        /\ definitions' = Put(id, save.content)
        /\ loading' = [x \in Tabs |-> {Listed(load, Put(id, save.content)) : load \in loading[x]}]
        /\ maker' = [d \in DOMAIN maker \union {id} |-> IF d = id /\ save.id = Absent THEN t ELSE maker[d]]
        /\ shownAtSave' = [shownAtSave EXCEPT ![t] = [design |-> save.shown, drift |-> save.drift]]
        /\ panel' = IF save.here THEN [panel EXCEPT ![t] = Remember(t, id)] ELSE panel
        /\ saving' = [saving EXCEPT ![t] = (@ \ {save}) \union {[save EXCEPT !.phase = "bind", !.id = id]}]
        /\ UNCHANGED <<requestId, binding, excused, steps>>
  BY DEF DefinitionSaved
<1> DEFINE D == DOMAIN definitions
<1>2. PICK id : id = SavedId(save)
  OBVIOUS
<1>3. /\ TabInv(t) /\ PanelTypes /\ StoredTypes /\ StoredOwned /\ Owned(t) /\ OwnSave(t, save)
      /\ save \in SaveRows /\ save.here \in BOOLEAN /\ saving[t] \subseteq SaveRows
      /\ \A u \in Tabs : loading[u] \subseteq LoadRows /\ TabInv(u)
  BY TabFacts DEF TabInv, Owned, SaveRows
<1>4. Stores(t, save, id)
  BY <1>1, <1>2, <1>3 DEF OwnSave, Stores
<1>5. /\ id \in Nat /\ id # Absent /\ (save.id # Absent => id = save.id)
      /\ DOMAIN definitions' = D \union {id} /\ definitions'[id] = save.content /\ maker'[id] = t
      /\ \A d \in D : maker'[d] = maker[d] /\ (d # id => definitions'[d] = definitions[d])
      /\ save.id = Absent => id \notin D
      /\ StoredTypes' /\ StoredOwned' /\ definitions' \in TextLists
  <2>1. StoredTypes /\ StoredOwned /\ save \in SaveRows
    BY <1>3
  <2>2. StoreGrown(t, save, id)
    BY <1>4, <2>1, StoreGrows
  <2> QED  BY <2>2 DEF StoreGrown
<1>6. PICK row \in SaveRows :
         /\ row = [save EXCEPT !.phase = "bind", !.id = id] /\ row.phase = "bind" /\ row.id = id
         /\ row.requestId = save.requestId /\ row.content = save.content /\ row.drift = save.drift
         /\ row.shown = save.shown /\ row.here = save.here
  BY <1>3, <1>5, BindingRow
<1> DEFINE s == (saving[t] \ {save}) \union {row}
<1>7. /\ Told(t, save.here, id) /\ definitions' = Put(id, save.content)
      /\ save.here => Mounted(t)
      /\ save.id # Absent => OwnDefinition(t, save.id)
      /\ saving' = [saving EXCEPT ![t] = s]
      /\ shownAtSave' = [shownAtSave EXCEPT ![t] = [design |-> save.shown, drift |-> save.drift]]
      /\ UNCHANGED <<requestId, binding, excused>>
      /\ \A u \in Tabs : loading'[u] = {Listed(load, definitions') : load \in loading[u]}
      /\ DOMAIN loading' = Tabs
  BY <1>1, <1>2, <1>3, <1>6 DEF OwnSave, Told
<1>8. /\ panel' \in [Tabs -> Panels \union {Absent}]
      /\ \A u \in Tabs : u # t => panel'[u] = panel[u]
      /\ Mounted(t)' <=> Mounted(t)
      /\ Mounted(t) =>
           /\ Honest(panel[t])' /\ panel'[t].content = panel[t].content
           /\ panel'[t].loaded = panel[t].loaded /\ panel'[t].edited = panel[t].edited
           /\ panel'[t].raced = panel[t].raced
      /\ ~save.here => panel'[t] = panel[t]
      /\ save.here => panel'[t].definitionId = id /\ panel'[t].busy = panel[t].busy
  <2> DEFINE here == save.here
  <2>1. here \in BOOLEAN /\ (here => Mounted(t)) /\ id \in Nat /\ Told(t, here, id)
    BY <1>3, <1>5, <1>7
  <2> HIDE DEF here
  <2>2. /\ panel' \in [Tabs -> Panels \union {Absent}]
        /\ \A u \in Tabs : u # t => panel'[u] = panel[u]
        /\ Mounted(t)' <=> Mounted(t)
        /\ Mounted(t) =>
             /\ Honest(panel[t])' /\ panel'[t].content = panel[t].content
             /\ panel'[t].loaded = panel[t].loaded /\ panel'[t].edited = panel[t].edited
             /\ panel'[t].raced = panel[t].raced
        /\ ~here => panel'[t] = panel[t]
        /\ here => panel'[t].definitionId = id /\ panel'[t].busy = panel[t].busy
    BY <2>1, PanelTold
  <2> QED  BY <2>2 DEF here
<1>9. /\ saving'[t] = s /\ BoundTo(t)' = BoundTo(t)
      /\ shownAtSave'[t] = [design |-> save.shown, drift |-> save.drift]
      /\ \A other \in saving[t] : other \in s \/ other = save
      /\ row \in s /\ \A other \in s : other = row \/ (other \in saving[t] /\ other # save)
  BY <1>3, <1>7 DEF PanelTypes, BoundTo
<1> HIDE DEF s, D
<1>10. PanelTypes'
  <2>1. loading' \in [Tabs -> SUBSET LoadRows]
    <3>1. \A u \in Tabs : loading'[u] \subseteq LoadRows
      BY <1>3, <1>5, <1>7, LoadFacts
    <3>2. loading' = [x \in Tabs |-> {Listed(load, Put(id, save.content)) : load \in loading[x]}]
      BY <1>1, <1>2
    <3> QED  BY <3>1, <3>2
  <2>2. s \subseteq SaveRows
    BY <1>3, <1>6, <1>9
  <2>3. saving' \in [Tabs -> SUBSET SaveRows]
    BY <1>3, <1>7, <2>2 DEF PanelTypes
  <2> QED  BY <1>3, <1>7, <1>8, <2>1, <2>3 DEF PanelTypes
<1>11. \A d : OwnDefinition(t, d) => OwnDefinition(t, d)'
  BY <1>5 DEF OwnDefinition, D
<1>12. \A new \in loading'[t] : \E load \in loading[t] :
         /\ new.requestId = load.requestId /\ new.links = load.links
         /\ new.lists \subseteq load.lists \union {definitions'}
  BY <1>3, <1>7, LoadFacts
<1>13. Owned(t)'
  <2>1. ASSUME NEW other \in s PROVE OwnSave(t, other)'
    <3>1. CASE other = row
      BY <1>3, <1>5, <1>6, <1>7, <1>8, <3>1 DEF OwnSave, OwnDefinition, Shows
    <3>2. CASE other \in saving[t]
      <4>1. OwnSave(t, other)
        BY <1>3, <3>2 DEF Owned
      <4> QED  BY <1>7, <1>8, <1>11, <4>1 DEF OwnSave, Shows
    <3> QED  BY <1>9, <3>1, <3>2
  <2>2. ASSUME NEW new \in loading'[t] PROVE OwnLoad(t, new)'
    <3>1. PICK load \in loading[t] :
            /\ new.requestId = load.requestId /\ new.links = load.links
            /\ new.lists \subseteq load.lists \union {definitions'}
      BY <1>12
    <3>2. OwnLoad(t, load) /\ \A d \in DOMAIN definitions' : ~definitions'[d].empty
      BY <1>3, <1>5 DEF Owned, StoredOwned
    <3> QED  BY <1>11, <3>1, <3>2 DEF OwnLoad
  <2>3. (Mounted(t) /\ panel[t].definitionId # Absent => OwnDefinition(t, panel[t].definitionId))'
    <3>1. CASE save.here
      BY <1>5, <1>8, <3>1 DEF OwnDefinition
    <3>2. CASE ~save.here
      BY <1>3, <1>8, <1>11, <3>2 DEF Owned
    <3> QED  BY <1>3, <3>1, <3>2
  <2> QED  BY <1>3, <1>7, <1>9, <2>1, <2>2, <2>3 DEF Owned
<1>14. ASSUME t \notin excused' PROVE MakesOne(t)' /\ Knows(t)' /\ Unedited(t)'
  <2>1. MakesOne(t) /\ Knows(t) /\ Unedited(t)
    BY <1>3, <1>7, <1>14 DEF TabInv
  <2>2. \A d \in D : maker[d] = t => d = id
    BY <1>7, <1>5, <2>1 DEF MakesOne, OwnDefinition, D
  <2>3. \A d \in DOMAIN definitions' : maker'[d] = t => d = id
    BY <1>5, <2>2
  <2>4. \A other \in s : other # row => other.id # Absent /\ ~(other.here /\ row.here)
    BY <1>6, <1>9, <2>1 DEF MakesOne
  <2>5. MakesOne(t)'
    <3>1. \A a, b \in s : (a.here /\ b.here) \/ a.id = Absent => a = b
      BY <1>5, <1>6, <1>9, <2>1, <2>4 DEF MakesOne
    <3>2. \A other \in s : other.id # Absent
      BY <1>5, <1>6, <2>4
    <3> QED  BY <1>9, <2>3, <3>1, <3>2 DEF MakesOne
  <2>6. CurrentSave(t, save)
    BY <2>1 DEF Knows
  <2>7. ASSUME NEW other \in s PROVE CurrentSave(t, other)'
    <3>1. CASE other = row
      BY <1>7, <1>5, <1>6, <1>8, <1>9, <2>6, <3>1 DEF CurrentSave
    <3>2. CASE other # row
      <4>1. CurrentSave(t, other) /\ other \in saving[t]
        BY <1>9, <2>1, <3>2 DEF Knows
      <4>2. save.here => ~other.here
        BY <1>6, <2>4, <3>2
      <4> QED  BY <1>8, <1>9, <4>1, <4>2 DEF CurrentSave
    <3> QED  BY <3>1, <3>2
  <2>8. loading[t] # {} => ~save.here
    BY <2>1, <2>6 DEF Knows, CurrentSave
  <2>9. loading[t] # {} => Mounted(t) /\ panel[t].raced /\ ~panel[t].loaded
    BY <2>1, <2>8 DEF Knows, Unedited
  <2>10. ASSUME NEW new \in loading'[t] PROVE CurrentLoad(t, new)'
    <3>1. PICK load \in loading[t] :
            /\ new.requestId = load.requestId /\ new.links = load.links
            /\ new.lists \subseteq load.lists \union {definitions'}
      BY <1>12
    <3>2. CurrentLoad(t, load)
      BY <2>1 DEF Knows
    <3>3. BoundTo(t) # Absent => BoundTo(t) \in DOMAIN definitions'
      BY <1>3, <1>5, LinkedOwn DEF OwnDefinition, D
    <3>4. panel'[t].raced
      BY <1>8, <2>9, <3>1
    <3> QED  BY <1>9, <3>1, <3>2, <3>3, <3>4 DEF CurrentLoad
  <2>11. \A a, b \in loading'[t] : a = b
    BY <1>3, <1>7, <2>1 DEF Knows
  <2>12. loading'[t] # {} => loading[t] # {}
    BY <1>12
  <2>13. Mounted(t)' => \A d \in DOMAIN definitions' : maker'[d] = t =>
            d = IF panel'[t].loaded THEN panel'[t].definitionId ELSE BoundTo(t)'
    <3>1. CASE save.here
      BY <1>8, <2>3, <2>6, <3>1 DEF CurrentSave
    <3>2. ASSUME ~save.here, Mounted(t) PROVE id = IF panel[t].loaded THEN panel[t].definitionId ELSE BoundTo(t)
      <4>1. save.id # Absent /\ id = save.id /\ OwnDefinition(t, id)
        BY <1>7, <1>5, <2>6, <3>2 DEF CurrentSave
      <4> QED  BY <2>1, <3>2, <4>1 DEF Knows, OwnDefinition
    <3> QED  BY <1>3, <1>8, <1>9, <2>3, <3>1, <3>2
  <2>14. Knows(t)'
    BY <1>7, <1>8, <1>9, <2>1, <2>7, <2>9, <2>10, <2>11, <2>12, <2>13 DEF Knows
  <2>15. Unedited(t)'
    <3>1. Shows(save.content, save.shown, save.drift)
      BY <1>3 DEF OwnSave
    <3>2. \A d \in DOMAIN definitions' : maker'[d] = t =>
            Shows(definitions'[d], shownAtSave'[t].design, shownAtSave'[t].drift)
      BY <1>5, <1>9, <2>3, <3>1
    <3>3. Mounted(t) /\ ~panel[t].raced => save.here /\ \A other \in s : other.here
      BY <1>6, <1>9, <2>1 DEF Unedited
    <3>4. ASSUME Mounted(t), panel[t].loaded, ~panel[t].edited, ~panel[t].raced
          PROVE  /\ definitions'[panel'[t].definitionId] = panel[t].content
                 /\ \A other \in s : other.content = panel[t].content
      <4>1. save.here /\ \A other \in saving[t] : other.content = panel[t].content
        BY <2>1, <3>3, <3>4 DEF Unedited
      <4> QED  BY <1>5, <1>6, <1>8, <1>9, <4>1
    <3> QED  BY <1>8, <1>9, <3>2, <3>3, <3>4 DEF Unedited, Shows
  <2> QED  BY <2>5, <2>14, <2>15
<1>15. TabInv(t)'
  BY <1>8, <1>13, <1>14 DEF TabInv
<1>16. ASSUME NEW u \in Tabs, u # t PROVE TabInv(u)'
  <2>1. TabInv(u) /\ panel'[u] = panel[u] /\ saving'[u] = saving[u] /\ loading[u] \subseteq LoadRows
        /\ requestId'[u] = requestId[u] /\ shownAtSave'[u] = shownAtSave[u] /\ BoundTo(u)' = BoundTo(u)
        /\ loading'[u] = {Listed(load, definitions') : load \in loading[u]}
    BY <1>3, <1>7, <1>8, <1>16 DEF PanelTypes, BoundTo
  <2>2. /\ \A d \in DOMAIN definitions : maker[d] = u =>
              d \in DOMAIN definitions' /\ maker'[d] = u /\ definitions'[d] = definitions[d]
        /\ \A d \in DOMAIN definitions' : maker'[d] = u => d \in DOMAIN definitions /\ maker[d] = u
    BY <1>5, <1>16 DEF D
  <2> QED  BY <1>3, <1>5, <1>7, <2>1, <2>2, OtherTab
<1> QED  BY <1>5, <1>10, <1>15, <1>16 DEF DefinitionInv, DefinitionTypes

(* A binding that is made or removed changes no reload of another tab.     *)
LEMMA OtherLoads ==
  ASSUME NEW t \in Tabs, NEW u \in Tabs, u # t, Owned(u), loading[u] \subseteq LoadRows, NEW id
  PROVE  {LinkedTo(load, t, id) : load \in loading[u]} = loading[u]
<1>1. \A load \in loading[u] : load.requestId # t
  BY DefinitionAssumption DEF Owned, OwnLoad
<1>2. \A load \in loading[u] : LinkedTo(load, t, id) = load
  BY <1>1 DEF LinkedTo
<1> QED  BY <1>2

(* What the end of a save may do to the bindings and to reloads under way. *)
Rebound(t, save) ==
    /\ DOMAIN binding' \subseteq Tabs
    /\ \A r \in DOMAIN binding' : OwnDefinition(r, binding'[r])
    /\ \A u \in Tabs : u # t => BoundTo(u)' = BoundTo(u) /\ loading'[u] = loading[u]
    /\ BoundTo(t)' = BoundTo(t) \/ (save.id # Absent /\ BoundTo(t)' = save.id)
    /\ loading' \in [Tabs -> SUBSET LoadRows]
    /\ \A new \in loading'[t] : \E load \in loading[t] :
          /\ new.requestId = load.requestId /\ new.lists = load.lists
          /\ new.links \subseteq load.links \union ({save.id} \ {Absent})
    /\ (\A a, b \in loading[t] : a = b) => \A a, b \in loading'[t] : a = b

(* The panel and the saves when a save is over.                            *)
LEMMA SaveEnds ==
  ASSUME DefinitionInv, NEW t \in Tabs, NEW save \in saving[t], Ends(t, save), Rebound(t, save),
         UNCHANGED <<requestId, definitions, history>>
  PROVE  DefinitionInv'
<1> DEFINE s == saving[t] \ {save}
<1>1. /\ TabInv(t) /\ PanelTypes /\ StoredTypes /\ StoredOwned /\ Owned(t) /\ OwnSave(t, save)
      /\ save \in SaveRows /\ saving[t] \subseteq SaveRows
      /\ \A u \in Tabs : loading[u] \subseteq LoadRows /\ TabInv(u)
      /\ UNCHANGED <<shownAtSave, maker, excused>>
  BY TabFacts DEF TabInv, Owned, history
<1>2. saving' = [saving EXCEPT ![t] = s] /\ saving'[t] = s
  BY <1>1 DEF Ends, PanelTypes
<1>3. /\ panel' \in [Tabs -> Panels \union {Absent}]
      /\ \A u \in Tabs : u # t => panel'[u] = panel[u]
      /\ Mounted(t)' <=> Mounted(t)
      /\ Mounted(t) =>
           /\ Honest(panel[t])' /\ panel'[t].content = panel[t].content
           /\ panel'[t].loaded = panel[t].loaded /\ panel'[t].edited = panel[t].edited
           /\ panel'[t].raced = panel[t].raced
      /\ ~save.here => panel'[t] = panel[t]
      /\ save.here => panel'[t].definitionId = panel[t].definitionId
  <2> DEFINE here == save.here
  <2>1. here \in BOOLEAN /\ (here => Mounted(t)) /\ 0 \in Nat /\ Ended(t, here)
    BY <1>1 DEF OwnSave, SaveRows, Ends, Ended
  <2> HIDE DEF here
  <2>2. /\ panel' \in [Tabs -> Panels \union {Absent}]
        /\ \A u \in Tabs : u # t => panel'[u] = panel[u]
        /\ Mounted(t)' <=> Mounted(t)
        /\ Mounted(t) =>
             /\ Honest(panel[t])' /\ panel'[t].content = panel[t].content
             /\ panel'[t].loaded = panel[t].loaded /\ panel'[t].edited = panel[t].edited
             /\ panel'[t].raced = panel[t].raced
        /\ ~here => panel'[t] = panel[t]
        /\ here => panel'[t].definitionId = panel[t].definitionId
    BY <2>1, PanelTold
  <2> QED  BY <2>2 DEF here
<1>4. /\ DOMAIN binding' \subseteq Tabs
      /\ \A r \in DOMAIN binding' : OwnDefinition(r, binding'[r])
      /\ \A u \in Tabs : u # t => BoundTo(u)' = BoundTo(u) /\ loading'[u] = loading[u]
      /\ BoundTo(t)' = BoundTo(t) \/ (save.id # Absent /\ BoundTo(t)' = save.id)
      /\ loading' \in [Tabs -> SUBSET LoadRows]
      /\ \A new \in loading'[t] : \E load \in loading[t] :
            /\ new.requestId = load.requestId /\ new.lists = load.lists
            /\ new.links \subseteq load.links \union ({save.id} \ {Absent})
      /\ (\A a, b \in loading[t] : a = b) => \A a, b \in loading'[t] : a = b
  BY DEF Rebound
<1>5. PanelTypes'
  <2>1. s \subseteq SaveRows
    BY <1>1
  <2>2. saving' \in [Tabs -> SUBSET SaveRows]
    BY <1>1, <1>2, <2>1 DEF PanelTypes
  <2> QED  BY <1>1, <1>3, <1>4, <2>2 DEF PanelTypes
<1>6. \A u, d : OwnDefinition(u, d)' <=> OwnDefinition(u, d)
  BY <1>1 DEF OwnDefinition
<1>7. StoredTypes' /\ StoredOwned'
  <2>1. StoredTypes'
    BY <1>1, <1>4 DEF StoredTypes
  <2>2. StoredOwned'
    BY <1>1, <1>4, <1>6 DEF StoredOwned
  <2> QED  BY <2>1, <2>2
<1>8. Owned(t)'
  <2>1. ASSUME NEW other \in s PROVE OwnSave(t, other)'
    <3>1. OwnSave(t, other)
      BY <1>1 DEF Owned
    <3> QED  BY <1>3, <1>6, <3>1 DEF OwnSave, Shows
  <2>2. ASSUME NEW new \in loading'[t] PROVE OwnLoad(t, new)'
    <3>1. PICK load \in loading[t] :
            /\ new.requestId = load.requestId /\ new.lists = load.lists
            /\ new.links \subseteq load.links \union ({save.id} \ {Absent})
      BY <1>4
    <3>2. OwnLoad(t, load) /\ (save.id # Absent => OwnDefinition(t, save.id))
      BY <1>1 DEF Owned, OwnSave
    <3> QED  BY <1>6, <3>1, <3>2 DEF OwnLoad
  <2>3. (Mounted(t) /\ panel[t].definitionId # Absent => OwnDefinition(t, panel[t].definitionId))'
    BY <1>1, <1>3, <1>6 DEF Owned
  <2> HIDE DEF s
  <2> QED  BY <1>1, <1>2, <2>1, <2>2, <2>3 DEF Owned
<1>9. ASSUME t \notin excused' PROVE MakesOne(t)' /\ Knows(t)' /\ Unedited(t)'
  <2>1. MakesOne(t) /\ Knows(t) /\ Unedited(t) /\ CurrentSave(t, save)
    BY <1>1, <1>9 DEF TabInv, Knows
  <2>2. MakesOne(t)'
    BY <1>1, <1>2, <2>1 DEF MakesOne
  <2>3. \A d : OwnDefinition(t, d) /\ save.id # Absent => d = save.id
    BY <1>1, <2>1 DEF MakesOne, OwnSave, OwnDefinition
  <2>4. ~save.here /\ Mounted(t) => BoundTo(t)' = BoundTo(t) /\ save.id = BoundTo(t)
    BY <1>4, <2>1 DEF CurrentSave
  <2>5. ASSUME NEW other \in s PROVE CurrentSave(t, other)'
    <3>1. CurrentSave(t, other) /\ (other.here => ~save.here) /\ OwnSave(t, other)
      BY <1>1, <2>1 DEF Knows, MakesOne, Owned
    <3>2. ~other.here /\ Mounted(t) => BoundTo(t)' = BoundTo(t)
      BY <1>4, <2>3, <3>1 DEF CurrentSave, OwnSave
    <3> QED  BY <1>3, <3>1, <3>2 DEF CurrentSave
  <2>6. loading[t] # {} => Mounted(t) /\ ~panel[t].loaded /\ ~save.here
    BY <2>1 DEF Knows, CurrentSave
  <2>7. ASSUME NEW new \in loading'[t] PROVE CurrentLoad(t, new)'
    <3>1. PICK load \in loading[t] :
            /\ new.requestId = load.requestId /\ new.lists = load.lists
            /\ new.links \subseteq load.links \union ({save.id} \ {Absent})
      BY <1>4
    <3>2. CurrentLoad(t, load) /\ BoundTo(t)' = BoundTo(t) /\ save.id = BoundTo(t) /\ panel'[t].raced = panel[t].raced
      BY <1>3, <2>1, <2>4, <2>6, <3>1 DEF Knows
    <3> QED  BY <1>1, <3>1, <3>2 DEF CurrentLoad
  <2>8. Mounted(t)' => \A d \in DOMAIN definitions' : maker'[d] = t =>
           d = IF panel'[t].loaded THEN panel'[t].definitionId ELSE BoundTo(t)'
    <3>1. ASSUME Mounted(t), NEW d \in DOMAIN definitions, maker[d] = t
          PROVE  d = IF panel[t].loaded THEN panel[t].definitionId ELSE BoundTo(t)'
      BY <2>1, <2>4, <3>1 DEF Knows, CurrentSave
    <3>2. Mounted(t) => panel'[t].definitionId = panel[t].definitionId
      BY <1>1, <1>3 DEF SaveRows
    <3> QED  BY <1>1, <1>3, <3>1, <3>2
  <2>9. Knows(t)'
    <3>1. loading'[t] # {} => loading[t] # {}
      BY <1>4
    <3> HIDE DEF s
    <3> QED  BY <1>1, <1>2, <1>3, <1>4, <2>1, <2>5, <2>6, <2>7, <2>8, <3>1 DEF Knows
  <2>10. Unedited(t)'
    <3>1. Mounted(t) => panel'[t].definitionId = panel[t].definitionId
      BY <1>1, <1>3 DEF SaveRows
    <3> QED  BY <1>1, <1>2, <1>3, <2>1, <3>1 DEF Unedited, Shows
  <2> QED  BY <2>2, <2>9, <2>10
<1>10. TabInv(t)'
  BY <1>3, <1>8, <1>9 DEF TabInv
<1>11. ASSUME NEW u \in Tabs, u # t PROVE TabInv(u)'
  <2>1. TabInv(u) /\ panel'[u] = panel[u] /\ saving'[u] = saving[u] /\ loading[u] \subseteq LoadRows
        /\ requestId'[u] = requestId[u] /\ shownAtSave'[u] = shownAtSave[u] /\ BoundTo(u)' = BoundTo(u)
        /\ loading'[u] = loading[u]
    BY <1>1, <1>2, <1>3, <1>4, <1>11 DEF PanelTypes
  <2> QED  BY <1>1, <1>7, <2>1, OtherTab
<1> QED  BY <1>5, <1>7, <1>10, <1>11 DEF DefinitionInv, DefinitionTypes

LEMMA BoundKeeps == ASSUME DefinitionInv, NEW t \in Tabs, DefinitionBound(t) PROVE DefinitionInv'
<1>1. PICK save \in saving[t] :
        /\ save.phase = "bind" /\ save.requestId # Absent
        /\ binding' = [r \in DOMAIN binding \union {save.requestId} |->
                          IF r = save.requestId THEN save.id ELSE binding[r]]
        /\ loading' = [x \in Tabs |-> {LinkedTo(load, save.requestId, save.id) : load \in loading[x]}]
        /\ Ends(t, save)
        /\ UNCHANGED <<requestId, definitions, history>>
  BY DEF DefinitionBound
<1>2. /\ StoredTypes /\ StoredOwned /\ OwnSave(t, save) /\ save \in SaveRows /\ Owned(t)
      /\ \A u \in Tabs : loading[u] \subseteq LoadRows /\ Owned(u)
  BY TabFacts DEF TabInv, Owned
<1>3. /\ save.requestId = t /\ save.id # Absent /\ save.id \in Nat /\ OwnDefinition(t, save.id)
      /\ UNCHANGED maker
  BY <1>1, <1>2 DEF OwnSave, Owned, SaveRows, history
<1>4. /\ DOMAIN binding' = DOMAIN binding \union {t} /\ binding'[t] = save.id
      /\ \A r \in DOMAIN binding : r # t => binding'[r] = binding[r]
      /\ DOMAIN binding \subseteq Tabs
  BY <1>1, <1>2, <1>3 DEF StoredTypes
<1>5. \A r \in DOMAIN binding' : OwnDefinition(r, binding'[r])
  BY <1>2, <1>3, <1>4 DEF StoredOwned
<1>6. BoundTo(t)' = save.id /\ \A u \in Tabs : u # t => BoundTo(u)' = BoundTo(u)
  BY <1>4 DEF BoundTo
<1>7. /\ \A u \in Tabs : loading'[u] = {LinkedTo(load, t, save.id) : load \in loading[u]}
      /\ DOMAIN loading' = Tabs
      /\ loading' = [x \in Tabs |-> {LinkedTo(load, t, save.id) : load \in loading[x]}]
  BY <1>1, <1>3
<1>8. ASSUME NEW u \in Tabs, u # t PROVE loading'[u] = loading[u]
  <2>1. Owned(u) /\ loading[u] \subseteq LoadRows
    BY <1>2
  <2>2. {LinkedTo(load, t, save.id) : load \in loading[u]} = loading[u]
    BY <1>8, <2>1, OtherLoads
  <2> QED  BY <1>7, <2>2
<1>9. \A u \in Tabs : loading'[u] \subseteq LoadRows
  BY <1>2, <1>3, <1>7, LoadFacts
<1>10. loading' \in [Tabs -> SUBSET LoadRows]
  BY <1>7, <1>9
<1>11. \A new \in loading'[t] : \E load \in loading[t] :
          /\ new.requestId = load.requestId /\ new.lists = load.lists
          /\ new.links \subseteq load.links \union ({save.id} \ {Absent})
  BY <1>2, <1>3, <1>7, LoadFacts
<1>12. (\A a, b \in loading[t] : a = b) => \A a, b \in loading'[t] : a = b
  BY <1>7
<1>13. Rebound(t, save)
  BY <1>3, <1>4, <1>5, <1>6, <1>8, <1>10, <1>11, <1>12 DEF Rebound
<1> QED  BY <1>1, <1>13, SaveEnds

LEMMA SaveFailedKeeps == ASSUME DefinitionInv, NEW t \in Tabs, SaveFailed(t) PROVE DefinitionInv'
<1>1. PICK save \in saving[t] : Ends(t, save) /\ UNCHANGED <<loading, requestId, definitions, binding, history>>
  BY DEF SaveFailed, stored
<1>2. PanelTypes /\ StoredTypes /\ StoredOwned
  BY TabFacts
<1>3. /\ DOMAIN binding' \subseteq Tabs /\ \A r \in DOMAIN binding' : OwnDefinition(r, binding'[r])
      /\ \A u \in Tabs : BoundTo(u)' = BoundTo(u) /\ loading'[u] = loading[u]
      /\ loading' \in [Tabs -> SUBSET LoadRows]
  BY <1>1, <1>2 DEF PanelTypes, StoredTypes, StoredOwned, BoundTo
<1>4. Rebound(t, save)
  BY <1>1, <1>3 DEF Rebound
<1> QED  BY <1>1, <1>4, SaveEnds

LEMMA RequestDeletedKeeps == ASSUME DefinitionInv, NEW t \in Tabs, DeleteRequest(t) PROVE DefinitionInv'
<1> DEFINE s == {Orphan(save) : save \in saving[t]}
<1>1. /\ TabInv(t) /\ PanelTypes /\ StoredTypes /\ StoredOwned /\ Owned(t)
      /\ saving[t] \subseteq SaveRows
      /\ \A u \in Tabs : loading[u] \subseteq LoadRows /\ TabInv(u) /\ Owned(u)
      /\ requestId[t] # Absent
      /\ requestId' = [requestId EXCEPT ![t] = Absent]
      /\ binding' = [r \in DOMAIN binding \ {requestId[t]} |-> binding[r]]
      /\ loading' = [x \in Tabs |->
                       {LinkedTo(load, requestId[t], Absent) : load \in loading[x]}
                       \union {load \in {NewLoad(Absent)} : x = t /\ Mounted(t)}]
      /\ saving' = [saving EXCEPT ![t] = s]
      /\ excused' = excused \union {t}
      /\ UNCHANGED <<panel, definitions, shownAtSave, maker>>
  BY TabFacts DEF DeleteRequest, TabInv
<1>2. requestId[t] = t
  BY <1>1 DEF Owned
<1>3. /\ DOMAIN binding' = DOMAIN binding \ {t}
      /\ \A r \in DOMAIN binding' : binding'[r] = binding[r]
      /\ \A u \in Tabs : u # t => BoundTo(u)' = BoundTo(u)
  BY <1>1, <1>2 DEF BoundTo
<1>4. StoredTypes' /\ StoredOwned'
  BY <1>1, <1>3 DEF StoredTypes, StoredOwned, OwnDefinition
<1>5. PICK fresh \in LoadRows :
        /\ fresh = NewLoad(Absent) /\ fresh.requestId = Absent
        /\ fresh.lists = {definitions} /\ fresh.links = {Absent}
  <2> DEFINE row == NewLoad(Absent)
  <2>1. BoundTo(Absent) = Absent /\ definitions \in TextLists
    BY <1>1, StoreIsList, DefinitionAssumption DEF BoundTo, StoredTypes
  <2>2. /\ row \in LoadRows /\ row.requestId = Absent
        /\ row.lists = {definitions} /\ row.links = {Absent}
    BY <2>1 DEF NewLoad, LoadRows
  <2> HIDE DEF row
  <2> QED  BY <2>2 DEF row
<1>6. /\ DOMAIN loading' = Tabs
      /\ \A u \in Tabs : u # t => loading'[u] = {LinkedTo(load, t, Absent) : load \in loading[u]}
      /\ \A new \in loading'[t] : new = fresh \/ \E load \in loading[t] : new = LinkedTo(load, t, Absent)
  BY <1>1, <1>2, <1>5
<1>7. ASSUME NEW u \in Tabs, u # t PROVE loading'[u] = loading[u]
  <2>1. Owned(u) /\ loading[u] \subseteq LoadRows
    BY <1>1
  <2>2. {LinkedTo(load, t, Absent) : load \in loading[u]} = loading[u]
    BY <1>7, <2>1, OtherLoads
  <2> QED  BY <1>6, <1>7, <2>2
<1>8. \A new \in loading'[t] :
        /\ new \in LoadRows
        /\ \/ new = fresh
           \/ \E load \in loading[t] :
                 /\ new.requestId = load.requestId /\ new.lists = load.lists
                 /\ new.links \subseteq load.links \union {Absent}
  <2>1. ASSUME NEW load \in loading[t]
        PROVE  LET new == LinkedTo(load, t, Absent) IN
               /\ new \in LoadRows
               /\ new.requestId = load.requestId /\ new.lists = load.lists
               /\ new.links \subseteq load.links \union {Absent}
    <3>1. load \in LoadRows
      BY <1>1
    <3> QED  BY <3>1, LoadFacts
  <2> QED  BY <1>5, <1>6, <2>1
<1>9. \A row \in s : \E save \in saving[t] :
        /\ row \in SaveRows /\ row.requestId = Absent
        /\ row.phase = save.phase /\ row.id = save.id /\ row.here = save.here
        /\ row.content = save.content /\ row.drift = save.drift /\ row.shown = save.shown
  <2>1. ASSUME NEW save \in saving[t]
        PROVE  LET row == Orphan(save) IN
               /\ row \in SaveRows /\ row.requestId = Absent
               /\ row.phase = save.phase /\ row.id = save.id /\ row.here = save.here
               /\ row.content = save.content /\ row.drift = save.drift /\ row.shown = save.shown
    BY <1>1 DEF Orphan, SaveRows
  <2> QED  BY <2>1
<1> HIDE DEF s
<1>10. PanelTypes'
  <2>1. \A u \in Tabs : loading'[u] \subseteq LoadRows
    BY <1>1, <1>7, <1>8
  <2>2. loading' \in [Tabs -> SUBSET LoadRows]
    BY <1>1, <2>1
  <2>3. s \subseteq SaveRows
    BY <1>9
  <2>4. saving' \in [Tabs -> SUBSET SaveRows]
    BY <1>1, <2>3 DEF PanelTypes
  <2> QED  BY <1>1, <2>2, <2>4 DEF PanelTypes
<1>11. TabInv(t)'
  <2>1. saving'[t] = s /\ requestId'[t] = Absent /\ (Mounted(t)' <=> Mounted(t))
    BY <1>1 DEF PanelTypes, Mounted
  <2>2. \A d : OwnDefinition(t, d)' <=> OwnDefinition(t, d)
    BY <1>1 DEF OwnDefinition
  <2>3. Mounted(t)' => Honest(panel[t])'
    BY <1>1, <2>1 DEF TabInv, Honest, Shows
  <2>4. ASSUME NEW row \in s PROVE OwnSave(t, row)'
    <3>1. PICK save \in saving[t] :
            /\ row.requestId = Absent /\ row.phase = save.phase /\ row.id = save.id /\ row.here = save.here
            /\ row.content = save.content /\ row.drift = save.drift /\ row.shown = save.shown
      BY <1>9
    <3>2. OwnSave(t, save)
      BY <1>1 DEF Owned
    <3> QED  BY <2>1, <2>2, <3>1, <3>2 DEF OwnSave, Shows
  <2>5. ASSUME NEW new \in loading'[t] PROVE OwnLoad(t, new)'
    <3>1. CASE new = fresh
      BY <1>1, <1>5, <3>1 DEF OwnLoad, StoredOwned
    <3>2. CASE new # fresh
      <4>1. PICK load \in loading[t] :
              /\ new.requestId = load.requestId /\ new.lists = load.lists
              /\ new.links \subseteq load.links \union {Absent}
        BY <1>8, <3>2
      <4>2. OwnLoad(t, load)
        BY <1>1 DEF Owned
      <4> QED  BY <2>2, <4>1, <4>2 DEF OwnLoad
    <3> QED  BY <3>1, <3>2
  <2>6. Owned(t)'
    BY <1>1, <2>1, <2>2, <2>4, <2>5 DEF Owned
  <2>7. t \in excused'
    BY <1>1
  <2> QED  BY <2>3, <2>6, <2>7 DEF TabInv
<1>12. ASSUME NEW u \in Tabs, u # t PROVE TabInv(u)'
  <2>1. /\ TabInv(u) /\ panel'[u] = panel[u] /\ saving'[u] = saving[u] /\ loading[u] \subseteq LoadRows
        /\ loading'[u] = loading[u] /\ requestId'[u] = requestId[u] /\ shownAtSave'[u] = shownAtSave[u]
        /\ BoundTo(u)' = BoundTo(u) /\ (u \in excused => u \in excused')
    BY <1>1, <1>3, <1>7, <1>12 DEF PanelTypes
  <2> QED  BY <1>1, <1>4, <2>1, OtherTab
<1> QED  BY <1>4, <1>10, <1>11, <1>12 DEF DefinitionInv, DefinitionTypes

-------------------------------------------------------------------------------
LEMMA DefinitionStart == DefinitionInit => DefinitionInv /\ steps \in Nat
<1> SUFFICES ASSUME DefinitionInit PROVE DefinitionInv /\ steps \in Nat
  OBVIOUS
<1>1. PanelTypes
  BY DEF DefinitionInit, PanelTypes
<1>2. DOMAIN definitions = {} /\ DOMAIN maker = {} /\ DOMAIN binding = {}
  BY DEF DefinitionInit
<1>3. {} = 1 .. 0 /\ Cardinality({}) = 0
  BY FS_EmptySet
<1>4. StoredTypes /\ StoredOwned
  BY <1>2, <1>3 DEF DefinitionInit, StoredTypes, StoredOwned
<1>5. ASSUME NEW t \in Tabs PROVE TabInv(t)
  BY <1>2 DEF DefinitionInit, TabInv, Mounted, Owned, MakesOne, Knows, Unedited
<1>6. steps \in Nat
  BY DEF DefinitionInit
<1> QED  BY <1>1, <1>4, <1>5, <1>6 DEF DefinitionInv, DefinitionTypes

LEMMA DefinitionStep == DefinitionInv /\ steps \in Nat /\ [DefinitionNext]_definitionVars => DefinitionInv'
<1> SUFFICES ASSUME DefinitionInv, steps \in Nat, [DefinitionNext]_definitionVars PROVE DefinitionInv'
  OBVIOUS
<1>1. CASE UNCHANGED definitionVars
  <2>1. PanelTypes' /\ StoredTypes' /\ StoredOwned'
    BY <1>1 DEF definitionVars, DefinitionInv, DefinitionTypes, PanelTypes, StoredTypes, StoredOwned,
                OwnDefinition
  <2>2. ASSUME NEW u \in Tabs PROVE TabInv(u)'
    <3>1. /\ TabInv(u) /\ StoredTypes /\ StoredOwned /\ loading[u] \subseteq LoadRows
          /\ BoundTo(u)' = BoundTo(u)
      BY <1>1, TabFacts DEF definitionVars, BoundTo
    <3> QED  BY <1>1, <2>1, <3>1, OtherTab DEF definitionVars
  <2> QED  BY <2>1, <2>2 DEF DefinitionInv, DefinitionTypes
<1>2. ASSUME NEW t \in Tabs,
             \/ OpenDesignTab(t) \/ LeaveDesignTab(t) \/ Load(t)
             \/ SaveDefinition(t) \/ Settle(t) \/ DeleteRequest(t)
      PROVE  DefinitionInv'
  BY <1>2, OpenKeeps, LeaveKeeps, LoadedKeeps, LoadFailedKeeps, SaveKeeps, SavedKeeps, BoundKeeps,
     SaveFailedKeeps, RequestDeletedKeeps DEF Load, Settle
<1>3. ASSUME NEW t \in Tabs,
             \/ UpdateFields(t) \/ ChangeBodyMode(t) \/ ChangeSecurity(t)
             \/ ChangeResponses(t) \/ ChangeResponsesAndFields(t) \/ ChangeOpenApiVersion(t)
             \/ EnterSourceMode(t) \/ EditSource(t) \/ FormatSource(t) \/ EnterVisualMode(t)
             \/ ImportFile(t)
      PROVE  DefinitionInv'
  BY <1>3, VisualKeeps, VersionKeeps, EnterSourceKeeps, EditSourceKeeps, FormatSourceKeeps,
     EnterVisualKeeps, ImportKeeps
<1> QED  BY <1>1, <1>2, <1>3 DEF DefinitionNext

(* Edits and saves are counted.                                            *)
LEMMA StepsCounted == steps \in Nat /\ [DefinitionNext]_definitionVars => steps' \in Nat
<1> SUFFICES ASSUME steps \in Nat, [DefinitionNext]_definitionVars PROVE steps' \in Nat
  OBVIOUS
<1>1. steps' = steps \/ steps' = steps + 1
  <2>1. ASSUME NEW t \in Tabs, OpenDesignTab(t) \/ LeaveDesignTab(t) \/ Load(t) \/ Settle(t)
        PROVE  steps' = steps
    BY <2>1 DEF OpenDesignTab, LeaveDesignTab, Load, Loaded, LoadFailed, Settle, DefinitionSaved,
                DefinitionBound, SaveFailed, history
  <2>2. ASSUME NEW t \in Tabs, EnterSourceMode(t) \/ EnterVisualMode(t) PROVE steps' = steps
    BY <2>2 DEF EnterSourceMode, EnterVisualMode
  <2>3. ASSUME NEW t \in Tabs,
               \/ UpdateFields(t) \/ ChangeBodyMode(t) \/ ChangeSecurity(t)
               \/ ChangeResponses(t) \/ ChangeResponsesAndFields(t) \/ ChangeOpenApiVersion(t)
               \/ EditSource(t) \/ FormatSource(t) \/ ImportFile(t) \/ SaveDefinition(t) \/ DeleteRequest(t)
        PROVE  steps' = steps + 1
    BY <2>3 DEF UpdateFields, ChangeBodyMode, ChangeSecurity, ChangeResponses, ChangeResponsesAndFields,
                ChangeOpenApiVersion, EditSource, FormatSource, ImportFile, SaveDefinition,
                DeleteRequest, User
  <2> QED  BY <2>1, <2>2, <2>3 DEF DefinitionNext, definitionVars
<1> QED  BY <1>1

LEMMA DefinitionInvariant == DefinitionSpec => []DefinitionInv
<1>1. DefinitionInv /\ steps \in Nat /\ [DefinitionNext]_definitionVars => (DefinitionInv /\ steps \in Nat)'
  BY DefinitionStep, StepsCounted
<1> QED  BY <1>1, DefinitionStart, PTL DEF DefinitionSpec

(* However often saving and binding fail, are tried again and interleave   *)
(* with loads, with edits and with leaving the tab and showing it again,   *)
(* in any number of tabs, a request has at most one definition, but for    *)
(* the excused tabs.                                                       *)
THEOREM RequestsHaveOneDefinition == DefinitionSpec => []OneDefinition
<1>1. DefinitionInv => OneDefinition
  <2> SUFFICES ASSUME DefinitionInv, NEW d \in DOMAIN maker, NEW e \in DOMAIN maker,
                      maker[d] = maker[e], maker[d] \notin excused
               PROVE  d = e
    BY DEF OneDefinition
  <2> DEFINE t == maker[d]
  <2>1. DOMAIN maker = DOMAIN definitions /\ t \in Tabs
    BY DEF DefinitionInv, DefinitionTypes, StoredTypes
  <2>2. MakesOne(t)
    BY <2>1 DEF DefinitionInv, TabInv
  <2> QED  BY <2>1, <2>2 DEF MakesOne
<1> QED  BY <1>1, DefinitionInvariant, PTL

(* A design tab that is opened again shows the design that was shown when  *)
(* it was saved, whatever was edited, formatted, imported or switched      *)
(* between the editors, and whichever saves were left to go on, but for    *)
(* the parts known to drift and a panel shown while a save was under way.  *)
THEOREM DesignsReopenAsSaved == DefinitionSpec => []ReopensAsSaved
<1>1. DefinitionInv => ReopensAsSaved
  <2> SUFFICES ASSUME DefinitionInv, NEW t \in Tabs \ excused, shownAtSave[t] # Absent, Visual(t),
                      panel[t].loaded, ~panel[t].edited, panel[t].definitionId # Absent,
                      ~panel[t].raced,
                      NEW part \in Written(panel[t].content.design.version)
                                      \ (shownAtSave[t].drift \union panel[t].drift)
               PROVE  panel[t].design[part] = shownAtSave[t].design[part]
    BY DEF ReopensAsSaved
  <2> DEFINE p == panel[t]
             d == p.definitionId
  <2>1. /\ Mounted(t) /\ p.mode = "visual" /\ Honest(p) /\ Unedited(t) /\ OwnDefinition(t, d)
        /\ StoredOwned
    BY TabFacts DEF Visual, TabInv, Owned
  <2>2. definitions[d] = p.content /\ maker[d] = t /\ d \in DOMAIN definitions
        /\ ~p.content.empty
    BY <2>1 DEF Unedited, OwnDefinition, StoredOwned
  <2>3. Shows(p.content, p.design, p.drift)
    BY <2>1 DEF Honest
  <2>4. Shows(p.content, shownAtSave[t].design, shownAtSave[t].drift)
    BY <2>1, <2>2 DEF Unedited
  <2> QED  BY <2>2, <2>3, <2>4 DEF Shows
<1> QED  BY <1>1, DefinitionInvariant, PTL

(* The panels, their saves and the store keep their types, and definitions *)
(* are numbered without a gap.                                             *)
THEOREM DefinitionTypesHold == DefinitionSpec => []DefinitionTypes
<1>1. DefinitionInv => DefinitionTypes
  BY DEF DefinitionInv
<1> QED  BY <1>1, DefinitionInvariant, PTL
=============================================================================
