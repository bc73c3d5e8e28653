----------------------------- MODULE CopyProofs -----------------------------
(***************************************************************************)
(* Lemmas about what the explorer's commands make of the store, for every  *)
(* tree of collections, every imported file and every snapshot: the store  *)
(* stays sound, and the scripts of a clone, an import and a restore, run   *)
(* from a store that nothing else changes, make what they promise of it.   *)
(* They are about the operators of Explorer and ResourceStore, not about   *)
(* steps; AppProofs uses them for the handlers.                            *)
(*                                                                         *)
(* Inductions over a tree, a script or a recursive function are by a least *)
(* counterexample: a set of numbers that is not empty has a least element. *)
(***************************************************************************)
EXTENDS Explorer, FiniteSetTheorems, SequenceTheorems, WellFoundedInduction, TLAPS

-------------------------------------------------------------------------------
(* The store is sound: its collections are trees within their projects,    *)
(* its requests are in them.                                               *)

(* A row of a collection, and one of a request.                            *)
IsRow(x) == x = Row(x.project, x.parent, x.order, x.name) /\ x.order \in Nat
IsReq(x) == /\ x = [coll |-> x.coll, caseOf |-> x.caseOf, redacted |-> x.redacted]
            /\ x.caseOf \in Nat \union {None} /\ x.redacted \in BOOLEAN

(* Every collection is deeper than its parent.                             *)
Deeper(colls, depth) ==
    \A c \in DOMAIN colls : /\ depth[c] \in Nat
                            /\ colls[c].parent # None => depth[colls[c].parent] < depth[c]

(* The collections are trees, each within one of the projects.             *)
IsForest(projects, colls) ==
    /\ IsFiniteSet(DOMAIN colls) /\ DOMAIN colls \subseteq Nat /\ colls = [c \in DOMAIN colls |-> colls[c]]
    /\ \A c \in DOMAIN colls :
          /\ IsRow(colls[c]) /\ colls[c].project \in projects
          /\ colls[c].parent # None => /\ colls[c].parent \in DOMAIN colls
                                       /\ colls[colls[c].parent].project = colls[c].project
    /\ \E depth : Deeper(colls, depth)

(* Every request is in a collection there is.                              *)
Filed(colls, reqs) ==
    /\ IsFiniteSet(DOMAIN reqs) /\ DOMAIN reqs \subseteq Nat /\ reqs = [r \in DOMAIN reqs |-> reqs[r]]
    /\ \A r \in DOMAIN reqs : IsReq(reqs[r]) /\ reqs[r].coll \in DOMAIN colls

(* What the statements of a store never break.                             *)
Sane(s) ==
    /\ s = [version |-> s.version, projects |-> s.projects, colls |-> s.colls, reqs |-> s.reqs]
    /\ IsFiniteSet(s.projects) /\ IsForest(s.projects, s.colls) /\ Filed(s.colls, s.reqs)

(* A set of numbers has a least one, in place of inductions.               *)
LEMMA LeastId ==
  ASSUME NEW B \in SUBSET Nat, B # {}
  PROVE  \E k \in B : \A j \in B : k <= j
<1>1. \E k \in B : \A j \in B : ~(<<j, k>> \in OpToRel(<, Nat))
  BY NatLessThanWellFounded, WFMin
<1>2. PICK k \in B : \A j \in B : ~(<<j, k>> \in OpToRel(<, Nat))
  BY <1>1
<1>3. \A j \in B : ~(j < k)
  BY <1>2 DEF OpToRel
<1> QED
  BY <1>3

(* The image of a finite set is finite.                                    *)
LEMMA ImageFinite ==
  ASSUME NEW S, IsFiniteSet(S), NEW f
  PROVE  IsFiniteSet({f[x] : x \in S})
<1> DEFINE T == {f[x] : x \in S}
           g == [x \in S |-> f[x]]
<1>1. g \in Surjection(S, T)
  BY DEF Surjection
<1> HIDE DEF g, T
<1>2. IsFiniteSet(T)
  BY <1>1, FS_Surjection
<1> QED
  BY <1>2 DEF T

(* A finite set of numbers has a greatest one.                             *)
LEMMA FiniteMax ==
  ASSUME NEW S \in SUBSET Nat, IsFiniteSet(S), S # {}
  PROVE  \E m \in S : \A x \in S : x <= m
<1> DEFINE HasMax(T) == \E m \in T : \A x \in T : x <= m
           Bad == {n \in Nat : \E T \in SUBSET S : T # {} /\ Cardinality(T) = n /\ ~HasMax(T)}
<1> SUFFICES ASSUME ~HasMax(S) PROVE FALSE
  OBVIOUS
<1>1. Cardinality(S) \in Bad
  BY FS_CardinalityType
<1>2. PICK n \in Bad : \A j \in Bad : n <= j
  BY <1>1, LeastId
<1>3. PICK T \in SUBSET S : T # {} /\ Cardinality(T) = n /\ ~HasMax(T)
  BY <1>2
<1>4. PICK x \in T : TRUE
  BY <1>3
<1>5. IsFiniteSet(T)
  BY FS_Subset
<1>6. T \ {x} \in SUBSET S /\ Cardinality(T \ {x}) = n - 1 /\ IsFiniteSet(T \ {x})
  BY <1>3, <1>4, <1>5, FS_RemoveElement
<1>7. Cardinality(T \ {x}) \in Nat
  BY <1>6, FS_CardinalityType
<1>8. T \ {x} # {} => HasMax(T \ {x})
  <2> SUFFICES ASSUME T \ {x} # {}, ~HasMax(T \ {x}) PROVE FALSE
    OBVIOUS
  <2>1. n - 1 \in Bad
    BY <1>6, <1>7
  <2> QED
    BY <1>2, <2>1
<1>9. CASE T \ {x} = {}
  <2>1. T = {x} /\ x \in Nat
    BY <1>4, <1>9
  <2> QED
    BY <1>3, <2>1
<1>10. CASE T \ {x} # {}
  <2>1. PICK m \in T \ {x} : \A y \in T \ {x} : y <= m
    BY <1>8, <1>10
  <2>2. m \in Nat /\ x \in Nat /\ \A y \in T : y \in Nat
    OBVIOUS
  <2>3. CASE x <= m
    BY <1>3, <2>1, <2>3
  <2>4. CASE ~(x <= m)
    BY <1>3, <1>4, <2>1, <2>2, <2>4
  <2> QED
    BY <2>3, <2>4
<1> QED
  BY <1>9, <1>10

(* In a sound tree what goes wrong somewhere goes wrong at a collection    *)
(* whose parent, if it has one, is right.                                  *)
LEMMA ByDepth ==
  ASSUME NEW projects, NEW colls, IsForest(projects, colls), NEW Bad \in SUBSET DOMAIN colls, Bad # {}
  PROVE  \E c \in Bad : colls[c].parent # None => colls[c].parent \in DOMAIN colls \ Bad
<1>1. PICK depth : Deeper(colls, depth)
  BY DEF IsForest
<1> DEFINE Depths == {depth[c] : c \in Bad}
<1>2. Depths \in SUBSET Nat /\ Depths # {}
  BY <1>1 DEF Deeper
<1>3. PICK k \in Depths : \A j \in Depths : k <= j
  BY <1>2, LeastId
<1>4. PICK c \in Bad : depth[c] = k
  BY <1>3
<1>5. ASSUME colls[c].parent # None PROVE colls[c].parent \in DOMAIN colls \ Bad
  <2>1. colls[c].parent \in DOMAIN colls
    BY <1>5 DEF IsForest
  <2>2. depth[colls[c].parent] < depth[c] /\ depth[colls[c].parent] \in Nat /\ depth[c] \in Nat
    BY <1>1, <1>5, <2>1 DEF Deeper
  <2>3. depth[colls[c].parent] \notin Depths
    BY <1>3, <1>4, <2>2
  <2> QED
    BY <2>1, <2>3
<1> QED
  BY <1>5

(* Chains, with the equation they solve.                                   *)
UpFrom(colls, up, d) == {d} \union (IF colls[d].parent = None THEN {} ELSE up[colls[d].parent])

(* The equation of the chains has a solution: Chain is well defined.       *)
LEMMA ChainsExist ==
  ASSUME NEW projects, NEW colls, IsForest(projects, colls)
  PROVE  \E up : up = [d \in DOMAIN colls |-> UpFrom(colls, up, d)]
<1>1. PICK depth : Deeper(colls, depth)
  BY DEF IsForest
<1> DEFINE Upper(k) == {d \in DOMAIN colls : depth[d] < k}
           Solved(k) == \E up : up = [d \in Upper(k) |-> UpFrom(colls, up, d)]
           Bad == {k \in Nat : ~Solved(k)}
<1>2. Solved(0)
  <2>1. Upper(0) = {}
    BY <1>1 DEF Deeper
  <2> DEFINE none == [d \in {} |-> None]
  <2>2. \A up : [d \in {} |-> UpFrom(colls, up, d)] = none
    OBVIOUS
  <2> QED
    BY <2>1, <2>2
<1>3. ASSUME NEW k \in Nat, Solved(k) PROVE Solved(k + 1)
  <2>1. PICK s : s = [d \in Upper(k) |-> UpFrom(colls, s, d)]
    BY <1>3
  <2> DEFINE t == [d \in Upper(k + 1) |-> UpFrom(colls, s, d)]
  <2>2. \A d \in Upper(k) : d \in Upper(k + 1) /\ t[d] = s[d]
    BY <1>1, <2>1 DEF Deeper
  <2>3. \A d \in Upper(k + 1) : colls[d].parent # None => colls[d].parent \in Upper(k)
    BY <1>1 DEF Deeper, IsForest
  <2>4. \A d \in Upper(k + 1) : UpFrom(colls, s, d) = UpFrom(colls, t, d)
    <3> SUFFICES ASSUME NEW d \in Upper(k + 1) PROVE UpFrom(colls, s, d) = UpFrom(colls, t, d)
      OBVIOUS
    <3>1. colls[d].parent # None => s[colls[d].parent] = t[colls[d].parent]
      BY <2>2, <2>3
    <3> HIDE DEF t
    <3> QED
      BY <3>1 DEF UpFrom
  <2>5. t = [d \in Upper(k + 1) |-> UpFrom(colls, t, d)]
    BY <2>4, Zenon
  <2> QED
    BY <2>5
<1> HIDE DEF Solved
<1>4. Bad = {}
  <2> SUFFICES ASSUME Bad # {} PROVE FALSE
    OBVIOUS
  <2>1. PICK k \in Bad : \A j \in Bad : k <= j
    BY LeastId
  <2>2. k # 0 /\ k - 1 \in Nat
    BY <1>2
  <2>3. Solved(k - 1 + 1)
    BY <2>1, <2>2, <1>3
  <2> QED
    BY <2>1, <2>2, <2>3
<1>5. \E n \in Nat : Upper(n) = DOMAIN colls
  <2> DEFINE Depths == {depth[d] : d \in DOMAIN colls}
  <2>1. IsFiniteSet(Depths) /\ Depths \in SUBSET Nat
    BY <1>1, ImageFinite DEF IsForest, Deeper
  <2>2. \E n \in Nat : \A k \in Depths : k < n
    <3>1. CASE Depths = {}
      BY <3>1
    <3>2. CASE Depths # {}
      <4>1. PICK m \in Depths : \A k \in Depths : k <= m
        BY <2>1, <3>2, FiniteMax
      <4> HIDE DEF Depths
      <4>2. m + 1 \in Nat /\ \A k \in Depths : k < m + 1
        BY <2>1, <4>1
      <4> QED
        BY <4>2
    <3> QED
      BY <3>1, <3>2
  <2> QED
    BY <2>2
<1>6. PICK n \in Nat : Upper(n) = DOMAIN colls
  BY <1>5
<1>7. Solved(n)
  BY <1>4
<1> QED
  BY <1>6, <1>7 DEF Solved

(* The chain of a collection: itself and the chain of its parent.          *)
LEMMA ChainUnfold ==
  ASSUME NEW projects, NEW s, IsForest(projects, s.colls), NEW c \in DOMAIN s.colls
  PROVE  Chain(s, c) = {c} \union (IF s.colls[c].parent = None THEN {} ELSE Chain(s, s.colls[c].parent))
<1> DEFINE Is(up) == up = [d \in DOMAIN s.colls |-> UpFrom(s.colls, up, d)]
           up == CHOOSE f : Is(f)
<1>1. \E f : Is(f)
  BY ChainsExist
<1>2. Chain(s, c) = up[c] /\ \A d \in DOMAIN s.colls : Chain(s, d) = up[d]
  BY Zenon DEF Chain, UpFrom
<1>3. Is(up)
  <2> HIDE DEF Is
  <2> QED
    BY <1>1, Zenon
<1>4. up = [d \in DOMAIN s.colls |-> UpFrom(s.colls, up, d)]
  BY <1>3, Zenon
<1> HIDE DEF up, Is
<1>5. up[c] = UpFrom(s.colls, up, c)
  BY <1>4
<1>6. s.colls[c].parent # None => s.colls[c].parent \in DOMAIN s.colls
  BY DEF IsForest
<1> QED
  BY <1>2, <1>5, <1>6 DEF UpFrom

(* A chain is of collections of one project, and never comes back to where *)
(* it started.                                                             *)
LEMMA ChainFacts ==
  ASSUME NEW projects, NEW s, IsForest(projects, s.colls), NEW c \in DOMAIN s.colls
  PROVE  /\ Chain(s, c) \subseteq DOMAIN s.colls /\ c \in Chain(s, c) /\ IsFiniteSet(Chain(s, c))
         /\ s.colls[c].parent # None => c \notin Chain(s, s.colls[c].parent)
         /\ \A d \in Chain(s, c) : s.colls[d].project = s.colls[c].project
<1>1. PICK depth : Deeper(s.colls, depth)
  BY DEF IsForest
<1> DEFINE Good(d) == \A e \in Chain(s, d) : /\ e \in DOMAIN s.colls /\ depth[e] <= depth[d]
                                             /\ s.colls[e].project = s.colls[d].project
           Bad == {d \in DOMAIN s.colls : ~Good(d)}
<1>2. Bad = {}
  <2> SUFFICES ASSUME Bad # {} PROVE FALSE
    OBVIOUS
  <2>1. PICK d \in Bad : s.colls[d].parent # None => s.colls[d].parent \in DOMAIN s.colls \ Bad
    BY ByDepth
  <2>2. Chain(s, d) = {d} \union (IF s.colls[d].parent = None THEN {} ELSE Chain(s, s.colls[d].parent))
    BY ChainUnfold
  <2>3. depth[d] \in Nat
    BY <1>1 DEF Deeper
  <2>4. CASE s.colls[d].parent = None
    BY <2>2, <2>3, <2>4
  <2>5. CASE s.colls[d].parent # None
    <3> DEFINE p == s.colls[d].parent
    <3>1. p \in DOMAIN s.colls /\ Good(p)
      BY <2>1, <2>5
    <3>2. depth[p] < depth[d] /\ s.colls[p].project = s.colls[d].project
      BY <1>1, <2>5 DEF Deeper, IsForest
    <3>3. \A e \in DOMAIN s.colls : depth[e] \in Nat
      BY <1>1 DEF Deeper
    <3>4. Good(d)
      <4> SUFFICES ASSUME NEW e \in Chain(s, d)
                   PROVE  /\ e \in DOMAIN s.colls /\ depth[e] <= depth[d]
                          /\ s.colls[e].project = s.colls[d].project
        OBVIOUS
      <4>1. CASE e = d
        BY <2>3, <4>1
      <4>2. CASE e # d
        <5>1. e \in Chain(s, p)
          BY <2>2, <2>5, <4>2
        <5> HIDE DEF p
        <5> QED
          BY <3>1, <3>2, <3>3, <5>1
      <4> QED
        BY <4>1, <4>2
    <3> QED
      BY <3>4
  <2> QED
    BY <2>4, <2>5
<1>3. \A d \in DOMAIN s.colls : Good(d)
  BY <1>2
<1>4. ASSUME s.colls[c].parent # None PROVE c \notin Chain(s, s.colls[c].parent)
  <2>1. s.colls[c].parent \in DOMAIN s.colls
    BY <1>4 DEF IsForest
  <2>2. depth[s.colls[c].parent] < depth[c] /\ depth[s.colls[c].parent] \in Nat /\ depth[c] \in Nat
    BY <1>1, <1>4, <2>1 DEF Deeper
  <2>3. Good(s.colls[c].parent)
    BY <1>3, <2>1
  <2> QED
    BY <2>2, <2>3
<1>5. Chain(s, c) \subseteq DOMAIN s.colls /\ \A d \in Chain(s, c) : s.colls[d].project = s.colls[c].project
  BY <1>3
<1>6. IsFiniteSet(Chain(s, c))
  BY <1>5, FS_Subset DEF IsForest
<1> QED
  BY <1>4, <1>5, <1>6, ChainUnfold

(* A subtree is its root and whatever has its parent in it.                *)
LEMMA SubtreeFacts ==
  ASSUME NEW projects, NEW s, IsForest(projects, s.colls), NEW c \in DOMAIN s.colls, NEW d \in DOMAIN s.colls
  PROVE  /\ c \in Subtree(s, c)
         /\ s.colls[d].parent # None => /\ s.colls[d].parent \in Subtree(s, c) => d \in Subtree(s, c)
                                        /\ d \in Subtree(s, c) /\ d # c => s.colls[d].parent \in Subtree(s, c)
         /\ s.colls[d].parent = None => (d \in Subtree(s, c) <=> d = c)
<1>1. Chain(s, d) = {d} \union (IF s.colls[d].parent = None THEN {} ELSE Chain(s, s.colls[d].parent))
  BY ChainUnfold
<1>2. c \in Chain(s, c)
  BY ChainUnfold
<1>3. s.colls[d].parent # None => s.colls[d].parent \in DOMAIN s.colls
  BY DEF IsForest
<1> QED
  BY <1>1, <1>2, <1>3 DEF Subtree

(* create_collection: a new row below a parent of the same project.        *)
LEMMA ForestWith ==
  ASSUME NEW projects, NEW colls, IsForest(projects, colls), NEW id \in Nat, id \notin DOMAIN colls,
         NEW project \in projects, NEW parent, NEW order \in Nat, NEW name,
         parent # None => parent \in DOMAIN colls /\ colls[parent].project = project
  PROVE  IsForest(projects, With(colls, id, Row(project, parent, order, name)))
<1>1. PICK depth : Deeper(colls, depth)
  BY DEF IsForest
<1> DEFINE row == Row(project, parent, order, name)
           all == With(colls, id, row)
           deep == [d \in DOMAIN all |-> IF d # id THEN depth[d] ELSE IF parent = None THEN 0 ELSE depth[parent] + 1]
<1>2. /\ DOMAIN all = DOMAIN colls \union {id} /\ all[id] = row /\ all = [c \in DOMAIN all |-> all[c]]
      /\ \A c \in DOMAIN colls : all[c] = colls[c]
  BY DEF With
<1>3. /\ row.project = project /\ row.parent = parent /\ row.order = order /\ row.name = name /\ IsRow(row)
  BY DEF Row, IsRow
<1> HIDE DEF all, row
<1>4. IsFiniteSet(DOMAIN all) /\ DOMAIN all \subseteq Nat
  BY <1>2, FS_AddElement DEF IsForest
<1>5. ASSUME NEW c \in DOMAIN all
      PROVE  /\ IsRow(all[c]) /\ all[c].project \in projects
             /\ all[c].parent # None => /\ all[c].parent \in DOMAIN all
                                        /\ all[all[c].parent].project = all[c].project
             /\ deep[c] \in Nat /\ (all[c].parent # None => deep[all[c].parent] < deep[c])
  <2>1. CASE c = id
    <3>1. parent # None => parent \in DOMAIN colls /\ parent # id /\ depth[parent] \in Nat
      BY <1>1 DEF Deeper
    <3> QED
      BY <1>2, <1>3, <2>1, <3>1
  <2>2. CASE c # id
    <3>1. c \in DOMAIN colls /\ all[c] = colls[c] /\ IsRow(colls[c]) /\ colls[c].project \in projects /\ depth[c] \in Nat
      BY <1>1, <1>2, <2>2 DEF IsForest, Deeper
    <3>2. ASSUME colls[c].parent # None
          PROVE  /\ colls[c].parent \in DOMAIN colls /\ colls[colls[c].parent].project = colls[c].project
                 /\ depth[colls[c].parent] < depth[c]
      BY <1>1, <3>1, <3>2 DEF IsForest, Deeper
    <3> QED
      BY <1>2, <2>2, <3>1, <3>2
  <2> QED
    BY <2>1, <2>2
<1> HIDE DEF deep
<1>6. Deeper(all, deep)
  BY <1>5 DEF Deeper
<1> QED
  BY <1>2, <1>4, <1>5, <1>6 DEF IsForest, all, row

(* update_collection: a row moves below a parent outside its own subtree.  *)
LEMMA ForestUpdate ==
  ASSUME NEW projects, NEW s, IsForest(projects, s.colls), NEW id \in DOMAIN s.colls, NEW parent, NEW order \in Nat,
         NEW name,
         parent # None => /\ parent \in DOMAIN s.colls \ Subtree(s, id)
                          /\ s.colls[parent].project = s.colls[id].project
  PROVE  IsForest(projects, [s.colls EXCEPT ![id] = Row(@.project, parent, order, name)])
<1>1. PICK depth : Deeper(s.colls, depth)
  BY DEF IsForest
<1> DEFINE row == Row(s.colls[id].project, parent, order, name)
           all == [s.colls EXCEPT ![id] = Row(@.project, parent, order, name)]
           shift == IF parent = None THEN 0 ELSE depth[parent] + 1
           below == Subtree(s, id)
           deep == [d \in DOMAIN s.colls |-> IF d \in below THEN depth[d] + shift ELSE depth[d]]
<1>2. /\ DOMAIN all = DOMAIN s.colls /\ all[id] = row /\ all = [c \in DOMAIN all |-> all[c]]
      /\ \A c \in DOMAIN s.colls : c # id => all[c] = s.colls[c]
  BY DEF IsForest
<1>3. /\ row.project = s.colls[id].project /\ row.parent = parent /\ row.order = order /\ row.name = name /\ IsRow(row)
  BY DEF Row, IsRow
<1> HIDE DEF all, row
<1>4. IsFiniteSet(DOMAIN all) /\ DOMAIN all \subseteq Nat
  BY <1>2 DEF IsForest
<1>5. shift \in Nat /\ (parent # None => depth[parent] < shift) /\ \A d \in DOMAIN s.colls : depth[d] \in Nat
  BY <1>1 DEF Deeper
<1>6. \A c \in DOMAIN s.colls : all[c].project = s.colls[c].project
  BY <1>2, <1>3
<1>7. ASSUME NEW c \in DOMAIN s.colls
      PROVE  /\ IsRow(all[c]) /\ all[c].project \in projects
             /\ all[c].parent # None => /\ all[c].parent \in DOMAIN s.colls
                                        /\ s.colls[all[c].parent].project = s.colls[c].project
             /\ deep[c] \in Nat /\ (all[c].parent # None => deep[all[c].parent] < deep[c])
  <2>0. s.colls[c].project \in projects /\ IsRow(s.colls[c])
    BY DEF IsForest
  <2>1. CASE c = id
    <3>1. c \in below
      BY <2>1, SubtreeFacts
    <3>2. parent # None => parent \notin below
      OBVIOUS
    <3> HIDE DEF shift, below
    <3> QED
      BY <1>2, <1>3, <1>5, <2>0, <2>1, <3>1, <3>2
  <2>2. CASE c # id
    <3>1. all[c] = s.colls[c]
      BY <1>2, <2>2
    <3>2. ASSUME s.colls[c].parent # None
          PROVE  /\ s.colls[c].parent \in DOMAIN s.colls /\ s.colls[s.colls[c].parent].project = s.colls[c].project
                 /\ depth[s.colls[c].parent] < depth[c]
                 /\ s.colls[c].parent \in below <=> c \in below
      BY <1>1, <2>2, <3>2, SubtreeFacts DEF IsForest, Deeper
    <3> HIDE DEF shift, below
    <3> QED
      BY <1>5, <2>0, <2>2, <3>1, <3>2
  <2> QED
    BY <2>1, <2>2
<1> HIDE DEF deep
<1>8. Deeper(all, deep)
  BY <1>2, <1>7 DEF Deeper
<1> QED
  BY <1>2, <1>4, <1>6, <1>7, <1>8 DEF IsForest, all

(* A cascade leaves a set of collections that is closed under taking the   *)
(* parent.                                                                 *)
LEMMA ForestKeep ==
  ASSUME NEW projects, NEW colls, IsForest(projects, colls), NEW kept \in SUBSET DOMAIN colls, NEW left,
         \A c \in kept : colls[c].project \in left /\ (colls[c].parent # None => colls[c].parent \in kept)
  PROVE  IsForest(left, Restrict(colls, kept))
<1> DEFINE all == Restrict(colls, kept)
<1>1. DOMAIN all = kept /\ all = [c \in DOMAIN all |-> all[c]] /\ \A c \in kept : all[c] = colls[c]
  BY DEF Restrict
<1> HIDE DEF all
<1>2. PICK depth : Deeper(colls, depth)
  BY DEF IsForest
<1>3. IsFiniteSet(kept) /\ kept \subseteq Nat
  BY FS_Subset DEF IsForest
<1>4. Deeper(all, depth)
  BY <1>1, <1>2 DEF Deeper
<1>5. \A c \in kept : /\ IsRow(colls[c])
                      /\ colls[c].parent # None => colls[colls[c].parent].project = colls[c].project
  BY DEF IsForest
<1> QED
  BY <1>1, <1>3, <1>4, <1>5 DEF IsForest, all

(* A request is saved in a collection there is.                            *)
LEMMA FiledWith ==
  ASSUME NEW colls, NEW reqs, Filed(colls, reqs), NEW id \in Nat, NEW row, IsReq(row), row.coll \in DOMAIN colls
  PROVE  Filed(colls, With(reqs, id, row))
<1> DEFINE all == With(reqs, id, row)
<1>1. /\ DOMAIN all = DOMAIN reqs \union {id} /\ all[id] = row /\ all = [r \in DOMAIN all |-> all[r]]
      /\ \A r \in DOMAIN reqs : r # id => all[r] = reqs[r]
  BY DEF With
<1> HIDE DEF all
<1>2. IsFiniteSet(DOMAIN all) /\ DOMAIN all \subseteq Nat
  BY <1>1, FS_AddElement DEF Filed
<1>3. \A r \in DOMAIN all : IsReq(all[r]) /\ all[r].coll \in DOMAIN colls
  BY <1>1 DEF Filed
<1> QED
  BY <1>1, <1>2, <1>3 DEF Filed, all

(* A cascade takes the requests of the collections that go.                *)
LEMMA FiledKeep ==
  ASSUME NEW colls, NEW reqs, Filed(colls, reqs), NEW kept \in SUBSET DOMAIN reqs, NEW left,
         \A r \in kept : reqs[r].coll \in DOMAIN left
  PROVE  Filed(left, Restrict(reqs, kept))
<1> DEFINE all == Restrict(reqs, kept)
<1>1. DOMAIN all = kept /\ all = [r \in DOMAIN all |-> all[r]] /\ \A r \in kept : all[r] = reqs[r]
  BY DEF Restrict
<1> HIDE DEF all
<1>2. IsFiniteSet(kept) /\ kept \subseteq Nat
  BY FS_Subset DEF Filed
<1>3. \A r \in kept : IsReq(reqs[r])
  BY DEF Filed
<1> QED
  BY <1>1, <1>2, <1>3 DEF Filed, all

(* New collections do not matter to the requests.                          *)
LEMMA FiledMore ==
  ASSUME NEW colls, NEW reqs, Filed(colls, reqs), NEW more, DOMAIN colls \subseteq DOMAIN more
  PROVE  Filed(more, reqs)
  BY DEF Filed

(* A change to sound tables is a sound store.                              *)
LEMMA ChangedSane ==
  ASSUME NEW s, NEW projects, NEW colls, NEW reqs,
         IsFiniteSet(projects), IsForest(projects, colls), Filed(colls, reqs)
  PROVE  Sane(Changed(s, projects, colls, reqs))
  BY DEF Sane, Changed

(* What a change leaves in the tables.                                     *)
LEMMA ChangedFields ==
  ASSUME NEW s, NEW projects, NEW colls, NEW reqs, NEW left
  PROVE  LET next == Changed(s, projects, colls, reqs) IN
         /\ next.projects = projects /\ next.colls = colls /\ next.reqs = reqs
         /\ [next EXCEPT !.projects = left] = Changed(s, left, colls, reqs)
  BY DEF Changed

(* A cascade leaves a sound store.                                         *)
LEMMA KeepSane ==
  ASSUME NEW s, Sane(s), NEW kept \in SUBSET DOMAIN s.colls, NEW left, IsFiniteSet(left),
         \A c \in kept : s.colls[c].project \in left /\ (s.colls[c].parent # None => s.colls[c].parent \in kept)
  PROVE  /\ Sane(Keep(s, left, kept))
         /\ Keep(s, left, kept).colls = Restrict(s.colls, kept)
         /\ DOMAIN Keep(s, left, kept).reqs \subseteq DOMAIN s.reqs
<1> DEFINE filed == {r \in DOMAIN s.reqs : s.reqs[r].coll \in kept}
<1>1. IsForest(left, Restrict(s.colls, kept))
  BY ForestKeep DEF Sane
<1>2. DOMAIN Restrict(s.colls, kept) = kept
  BY DEF Restrict
<1>3. Filed(Restrict(s.colls, kept), Restrict(s.reqs, filed))
  BY <1>2, FiledKeep DEF Sane
<1>4. Sane(Changed(s, left, Restrict(s.colls, kept), Restrict(s.reqs, filed)))
  BY <1>1, <1>3, ChangedSane
<1>5. Keep(s, left, kept) = Changed(s, left, Restrict(s.colls, kept), Restrict(s.reqs, filed))
  BY DEF Keep
<1> HIDE DEF filed
<1>6. /\ Keep(s, left, kept).colls = Restrict(s.colls, kept)
      /\ Keep(s, left, kept).reqs = Restrict(s.reqs, filed)
  BY <1>5, ChangedFields
<1> QED
  BY <1>4, <1>5, <1>6 DEF Restrict, filed

(* What a command must be like for a sound store to stay sound.            *)
Fits(cmd, s, bound) ==
    /\ cmd.kind = "createCollection" => cmd.id \in Nat /\ cmd.id < bound /\ cmd.id \notin DOMAIN s.colls
    /\ cmd.kind = "updateCollection" => cmd.order \in Nat
    /\ cmd.kind = "saveEnvelope" => cmd.id \in Nat /\ cmd.id < bound /\ IsReq(cmd.row)
    /\ cmd.kind = "saveLoaded" => cmd.id \in Nat /\ cmd.id < bound

(* A store that is sound, with the ids given out so far.                   *)
Coherent(s, bound) ==
    Sane(s) /\ (\A c \in DOMAIN s.colls : c < bound) /\ \A r \in DOMAIN s.reqs : r < bound

(* A new collection is ordered after its siblings.                         *)
LEMMA NextOrder ==
  ASSUME NEW projects, NEW s, IsForest(projects, s.colls), NEW cmd
  PROVE  \E order \in Nat :
            /\ CreateCollection(s, cmd) = With(s.colls, cmd.id, Row(cmd.project, cmd.parent, order, cmd.name))
            /\ \A d \in Children(s, cmd.project, cmd.parent) : s.colls[d].order < order
<1> DEFINE siblings == {s.colls[d].order : d \in Children(s, cmd.project, cmd.parent)}
           order == IF siblings = {} THEN 0 ELSE Max(siblings) + 1
<1>1. siblings \in SUBSET Nat
  BY DEF IsForest, IsRow, Children
<1>2. IsFiniteSet(Children(s, cmd.project, cmd.parent))
  BY FS_Subset DEF IsForest, Children
<1>3. IsFiniteSet(siblings)
  <2> DEFINE f == [d \in DOMAIN s.colls |-> s.colls[d].order]
  <2>1. siblings = {f[d] : d \in Children(s, cmd.project, cmd.parent)}
    BY DEF Children
  <2> HIDE DEF siblings, f
  <2> QED
    BY <1>2, <2>1, ImageFinite
<1>4. CreateCollection(s, cmd) = With(s.colls, cmd.id, Row(cmd.project, cmd.parent, order, cmd.name))
  BY Zenon DEF CreateCollection
<1>5. \A d \in Children(s, cmd.project, cmd.parent) : s.colls[d].order \in siblings
  OBVIOUS
<1>6. order \in Nat /\ \A k \in siblings : k < order
  <2> HIDE DEF siblings
  <2>1. CASE siblings = {}
    BY <2>1
  <2>2. CASE siblings # {}
    <3>1. \E m \in siblings : \A k \in siblings : k <= m
      BY <1>1, <1>3, <2>2, FiniteMax
    <3>2. \E m \in siblings : \A k \in siblings : m >= k
      BY <1>1, <3>1
    <3>3. Max(siblings) \in siblings /\ \A k \in siblings : Max(siblings) >= k
      BY <3>2, Zenon DEF Max
    <3> DEFINE m == Max(siblings)
    <3>4. order = m + 1 /\ m \in Nat /\ (\A k \in siblings : m >= k /\ k \in Nat)
      BY <1>1, <2>2, <3>3
    <3> HIDE DEF m, order
    <3> QED
      BY <3>4
  <2> QED
    BY <2>1, <2>2
<1> HIDE DEF siblings, order
<1> QED
  BY <1>4, <1>5, <1>6

(* Every command that fits leaves a sound store, and the only collection   *)
(* it may add is the one it names.                                         *)
LEMMA AfterCoherent ==
  ASSUME NEW s, NEW bound \in Nat, Coherent(s, bound), NEW cmd, Fits(cmd, s, bound), NEW held, held = None \/ IsReq(held),
         Allowed(s, cmd, held)
  PROVE  LET next == After(s, cmd, held) IN
         /\ Coherent(next, bound)
         /\ \A c \in DOMAIN next.colls : c \in DOMAIN s.colls \/ (cmd.kind = "createCollection" /\ c = cmd.id)
<1> DEFINE next == After(s, cmd, held)
<1>0. /\ s = [version |-> s.version, projects |-> s.projects, colls |-> s.colls, reqs |-> s.reqs]
      /\ IsFiniteSet(s.projects) /\ IsForest(s.projects, s.colls) /\ Filed(s.colls, s.reqs)
      /\ (\A c \in DOMAIN s.colls : c < bound) /\ \A r \in DOMAIN s.reqs : r < bound
  BY DEF Coherent, Sane
<1>1. CASE cmd.kind = "createProject"
  <2>1. next = Changed(s, s.projects \union {cmd.project}, s.colls, s.reqs)
    BY <1>1 DEF After
  <2>2. IsFiniteSet(s.projects \union {cmd.project}) /\ IsForest(s.projects \union {cmd.project}, s.colls)
    BY <1>0, FS_AddElement DEF IsForest
  <2>3. Sane(next) /\ next.colls = s.colls /\ next.reqs = s.reqs
    BY <1>0, <2>1, <2>2, ChangedSane, ChangedFields
  <2> QED
    BY <1>0, <2>3 DEF Coherent
<1>2. CASE cmd.kind = "deleteProject"
  <2> DEFINE kept == {c \in DOMAIN s.colls : s.colls[c].project # cmd.project}
             left == s.projects \ {cmd.project}
  <2>1. next = Keep(s, left, kept)
    BY <1>2 DEF After
  <2>2. IsFiniteSet(left)
    BY <1>0, FS_Subset
  <2>3. \A c \in kept : s.colls[c].project \in left /\ (s.colls[c].parent # None => s.colls[c].parent \in kept)
    BY <1>0 DEF IsForest
  <2>4. kept \in SUBSET DOMAIN s.colls
    OBVIOUS
  <2> HIDE DEF kept, left
  <2>5. /\ Sane(next) /\ next.colls = Restrict(s.colls, kept) /\ DOMAIN next.reqs \subseteq DOMAIN s.reqs
    BY <2>1, <2>2, <2>3, <2>4, KeepSane DEF Coherent
  <2> QED
    BY <1>0, <2>4, <2>5 DEF Coherent, Restrict
<1>3. CASE cmd.kind = "createCollection"
  <2>1. next = Changed(s, s.projects, CreateCollection(s, cmd), s.reqs)
    BY <1>3 DEF After
  <2>2. PICK order \in Nat :
           CreateCollection(s, cmd) = With(s.colls, cmd.id, Row(cmd.project, cmd.parent, order, cmd.name))
    BY <1>0, NextOrder
  <2>3. /\ cmd.project \in s.projects
        /\ cmd.parent # None => cmd.parent \in DOMAIN s.colls /\ s.colls[cmd.parent].project = cmd.project
    BY <1>3 DEF Allowed
  <2>4. cmd.id \in Nat /\ cmd.id < bound /\ cmd.id \notin DOMAIN s.colls
    BY <1>3 DEF Fits
  <2>5. IsForest(s.projects, CreateCollection(s, cmd))
    BY <1>0, <2>2, <2>3, <2>4, ForestWith
  <2>6. DOMAIN CreateCollection(s, cmd) = DOMAIN s.colls \union {cmd.id}
    BY <2>2 DEF With
  <2>7. Filed(CreateCollection(s, cmd), s.reqs)
    BY <1>0, <2>6, FiledMore
  <2> QED
    BY <1>0, <1>3, <2>1, <2>4, <2>5, <2>6, <2>7, ChangedSane DEF Coherent, Changed
<1>4. CASE cmd.kind = "updateCollection"
  <2>1. next = Changed(s, s.projects, UpdateCollection(s, cmd), s.reqs)
    BY <1>4 DEF After
  <2>2. /\ cmd.id \in DOMAIN s.colls
        /\ cmd.parent # None => /\ cmd.parent \in DOMAIN s.colls \ Subtree(s, cmd.id)
                                /\ s.colls[cmd.parent].project = s.colls[cmd.id].project
    BY <1>4 DEF Allowed
  <2>3. cmd.order \in Nat
    BY <1>4 DEF Fits
  <2>4. IsForest(s.projects, UpdateCollection(s, cmd)) /\ DOMAIN UpdateCollection(s, cmd) = DOMAIN s.colls
    BY <1>0, <2>2, <2>3, ForestUpdate DEF UpdateCollection
  <2>5. Filed(UpdateCollection(s, cmd), s.reqs)
    BY <1>0, <2>4, FiledMore
  <2> QED
    BY <1>0, <2>1, <2>4, <2>5, ChangedSane DEF Coherent, Changed
<1>5. CASE cmd.kind = "deleteCollection"
  <2> DEFINE kept == DOMAIN s.colls \ Subtree(s, cmd.id)
  <2>1. next = Keep(s, s.projects, kept) /\ cmd.id \in DOMAIN s.colls
    BY <1>5 DEF After, Allowed
  <2>2. \A c \in kept : s.colls[c].project \in s.projects /\ (s.colls[c].parent # None => s.colls[c].parent \in kept)
    BY <1>0, <2>1, SubtreeFacts DEF IsForest
  <2>3. kept \in SUBSET DOMAIN s.colls
    OBVIOUS
  <2> HIDE DEF kept
  <2>4. Sane(next) /\ next.colls = Restrict(s.colls, kept) /\ DOMAIN next.reqs \subseteq DOMAIN s.reqs
    BY <1>0, <2>1, <2>2, <2>3, KeepSane DEF Coherent
  <2> QED
    BY <1>0, <2>3, <2>4 DEF Coherent, Restrict
<1>6. ASSUME NEW id \in Nat, id < bound, NEW row, IsReq(row), row.coll \in DOMAIN s.colls, next = Saved(s, id, row)
      PROVE  Coherent(next, bound) /\ DOMAIN next.colls = DOMAIN s.colls
  <2>1. Filed(s.colls, With(s.reqs, id, row)) /\ DOMAIN With(s.reqs, id, row) = DOMAIN s.reqs \union {id}
    BY <1>0, <1>6, FiledWith DEF With
  <2> QED
    BY <1>0, <1>6, <2>1, ChangedSane DEF Coherent, Changed, Saved
<1>7. ASSUME NEW row, IsReq(row), NEW coll
      PROVE  IsReq([row EXCEPT !.coll = coll]) /\ [row EXCEPT !.coll = coll].coll = coll
  BY <1>7 DEF IsReq
<1>8. CASE cmd.kind = "moveRequest"
  <2>1. next = Saved(s, cmd.id, [s.reqs[cmd.id] EXCEPT !.coll = cmd.coll])
    BY <1>8 DEF After
  <2>2. cmd.id \in DOMAIN s.reqs /\ cmd.coll \in DOMAIN s.colls
    BY <1>8 DEF Allowed
  <2>3. cmd.id \in Nat /\ cmd.id < bound /\ IsReq(s.reqs[cmd.id])
    BY <1>0, <2>2 DEF Filed
  <2>4. IsReq([s.reqs[cmd.id] EXCEPT !.coll = cmd.coll]) /\ [s.reqs[cmd.id] EXCEPT !.coll = cmd.coll].coll = cmd.coll
    BY <1>7, <2>3
  <2> QED
    BY <1>6, <2>1, <2>2, <2>3, <2>4
<1>9. CASE cmd.kind = "deleteRequest"
  <2>1. next = Changed(s, s.projects, s.colls, Restrict(s.reqs, DOMAIN s.reqs \ {cmd.id}))
    BY <1>9 DEF After
  <2>2. Filed(s.colls, Restrict(s.reqs, DOMAIN s.reqs \ {cmd.id}))
    <3>1. \A r \in DOMAIN s.reqs : s.reqs[r].coll \in DOMAIN s.colls
      BY <1>0 DEF Filed
    <3> QED
      BY <1>0, <3>1, FiledKeep
  <2> QED
    BY <1>0, <2>1, <2>2, ChangedSane DEF Coherent, Changed, Restrict
<1>10. CASE cmd.kind = "saveEnvelope"
  <2>1. next = Saved(s, cmd.id, cmd.row) /\ cmd.row.coll \in DOMAIN s.colls
    BY <1>10 DEF After, Allowed
  <2>2. cmd.id \in Nat /\ cmd.id < bound /\ IsReq(cmd.row)
    BY <1>10 DEF Fits
  <2> QED
    BY <1>6, <2>1, <2>2
<1>11. CASE cmd.kind = "saveLoaded"
  <2>1. next = IF held = None THEN s ELSE Saved(s, cmd.id, [held EXCEPT !.coll = cmd.coll])
    BY <1>11 DEF After
  <2>2. cmd.id \in Nat /\ cmd.id < bound
    BY <1>11 DEF Fits
  <2>3. held # None => cmd.coll \in DOMAIN s.colls
    BY <1>11 DEF Allowed
  <2>4. CASE held = None
    BY <2>1, <2>4
  <2>5. CASE held # None
    BY <1>6, <1>7, <2>1, <2>2, <2>3, <2>5
  <2> QED
    BY <2>4, <2>5
<1>12. CASE cmd.kind = "touch"
  <2>1. next = Changed(s, s.projects, s.colls, s.reqs)
    BY <1>12 DEF After
  <2> QED
    BY <1>0, <2>1, ChangedSane DEF Coherent, Changed
<1>13. CASE cmd.kind \notin {"createProject", "deleteProject", "createCollection", "updateCollection",
                             "deleteCollection", "moveRequest", "deleteRequest", "saveEnvelope", "saveLoaded", "touch"}
  <2>1. next = s
    BY <1>13 DEF After
  <2> QED
    BY <2>1
<1> QED
  BY <1>1, <1>2, <1>3, <1>4, <1>5, <1>8, <1>9, <1>10, <1>11, <1>12, <1>13

-------------------------------------------------------------------------------
(* The path of a collection is that of its parent with its own name.       *)

(* A chain is the chain of the parent and the collection itself.           *)
LEMMA ChainStep ==
  ASSUME NEW projects, NEW s, IsForest(projects, s.colls), NEW c \in DOMAIN s.colls
  PROVE  /\ \A d \in Chain(s, c) : Chain(s, d) \subseteq Chain(s, c)
         /\ Cardinality(Chain(s, c)) \in Nat \ {0}
         /\ s.colls[c].parent = None => Chain(s, c) = {c} /\ Cardinality(Chain(s, c)) = 1
         /\ s.colls[c].parent # None =>
               /\ Chain(s, c) = Chain(s, s.colls[c].parent) \union {c}
               /\ Cardinality(Chain(s, c)) = Cardinality(Chain(s, s.colls[c].parent)) + 1
<1> DEFINE Good(b) == \A d \in Chain(s, b) : Chain(s, d) \subseteq Chain(s, b)
           Bad == {b \in DOMAIN s.colls : ~Good(b)}
<1>1. ASSUME NEW b \in DOMAIN s.colls
      PROVE  /\ s.colls[b].parent = None => Chain(s, b) = {b}
             /\ s.colls[b].parent # None => Chain(s, b) = Chain(s, s.colls[b].parent) \union {b}
  BY ChainUnfold
<1>2. Bad = {}
  <2> SUFFICES ASSUME Bad # {} PROVE FALSE
    OBVIOUS
  <2>1. PICK b \in Bad : s.colls[b].parent # None => s.colls[b].parent \in DOMAIN s.colls \ Bad
    BY ByDepth
  <2>2. CASE s.colls[b].parent = None
    BY <1>1, <2>2
  <2>3. CASE s.colls[b].parent # None
    <3>1. Good(s.colls[b].parent) /\ Chain(s, b) = Chain(s, s.colls[b].parent) \union {b}
      BY <1>1, <2>1, <2>3
    <3>2. Good(b)
      BY <3>1
    <3> QED
      BY <3>2
  <2> QED
    BY <2>2, <2>3
<1>3. Good(c)
  BY <1>2
<1>4. IsFiniteSet(Chain(s, c)) /\ c \in Chain(s, c)
  BY ChainFacts
<1>5. Cardinality(Chain(s, c)) \in Nat \ {0}
  BY <1>4, FS_CardinalityType, FS_EmptySet
<1>6. ASSUME s.colls[c].parent # None
      PROVE  Cardinality(Chain(s, c)) = Cardinality(Chain(s, s.colls[c].parent)) + 1
  <2> DEFINE p == s.colls[c].parent
  <2>1. p \in DOMAIN s.colls
    BY <1>6 DEF IsForest
  <2>2. c \notin Chain(s, p) /\ Chain(s, c) = Chain(s, p) \union {c}
    BY <1>1, <1>6, ChainFacts
  <2> HIDE DEF p
  <2>3. IsFiniteSet(Chain(s, p))
    BY <2>1, ChainFacts
  <2>4. Cardinality(Chain(s, p) \union {c}) = Cardinality(Chain(s, p)) + 1
    BY <2>2, <2>3, FS_AddElement
  <2> QED
    BY <2>2, <2>4 DEF p
<1>7. s.colls[c].parent = None => Cardinality(Chain(s, c)) = 1
  BY <1>1, FS_Singleton
<1> QED
  BY <1>1, <1>3, <1>5, <1>6, <1>7

(* A path is the parent's, followed by the name.                           *)
LEMMA PathStep ==
  ASSUME NEW projects, NEW s, IsForest(projects, s.colls), NEW c \in DOMAIN s.colls
  PROVE  /\ s.colls[c].parent = None => Path(s, c) = <<s.colls[c].name>>
         /\ s.colls[c].parent # None => Path(s, c) = Append(Path(s, s.colls[c].parent), s.colls[c].name)
<1> DEFINE Size(b) == Cardinality(Chain(s, b))
           At(b, i) == CHOOSE d \in Chain(s, b) : Size(d) = i
<1>1. \A b : Path(s, b) = [i \in 1 .. Size(b) |-> s.colls[At(b, i)].name]
  BY DEF Path
<1>2. Size(c) \in Nat \ {0} /\ c \in Chain(s, c)
  BY ChainStep, ChainFacts
<1>3. CASE s.colls[c].parent = None
  <2>1. Chain(s, c) = {c} /\ Size(c) = 1
    BY <1>3, ChainStep
  <2>2. At(c, 1) = c
    <3>1. \A d : d \in Chain(s, c) /\ Size(d) = 1 <=> d = c
      BY <2>1
    <3> QED
      BY <3>1
  <2> HIDE DEF Size, At
  <2>3. Path(s, c) = [i \in 1 .. Size(c) |-> s.colls[At(c, i)].name]
    BY <1>1
  <2>4. \A i \in 1 .. Size(c) : i = 1
    BY <2>1
  <2>5. Path(s, c) = [i \in 1 .. 1 |-> s.colls[c].name]
    BY <2>1, <2>2, <2>3, <2>4
  <2> QED
    BY <1>3, <2>5
<1>4. CASE s.colls[c].parent # None
  <2> DEFINE p == s.colls[c].parent
  <2>1. p \in DOMAIN s.colls
    BY <1>4 DEF IsForest
  <2>2. /\ Chain(s, c) = Chain(s, p) \union {c} /\ Size(c) = Size(p) + 1
        /\ Size(p) \in Nat /\ IsFiniteSet(Chain(s, p)) /\ c \notin Chain(s, p)
    <3>1. Chain(s, c) = Chain(s, p) \union {c} /\ Size(c) = Size(p) + 1 /\ c \notin Chain(s, p)
      BY <1>4, ChainStep, ChainFacts
    <3> HIDE DEF p
    <3> QED
      BY <2>1, <3>1, ChainStep, ChainFacts
  <2>3. \A d \in Chain(s, p) : Size(d) \in Nat /\ Size(d) <= Size(p)
    <3> SUFFICES ASSUME NEW d \in Chain(s, p) PROVE Size(d) \in Nat /\ Size(d) <= Size(p)
      OBVIOUS
    <3>1. Chain(s, d) \subseteq Chain(s, p)
      BY <2>1, ChainStep
    <3> QED
      BY <2>2, <3>1, FS_Subset, FS_CardinalityType
  <2> HIDE DEF p, Size
  <2>4. ASSUME NEW i \in 1 .. Size(p) PROVE At(c, i) = At(p, i)
    <3>1. \A d : d \in Chain(s, c) /\ Size(d) = i <=> d \in Chain(s, p) /\ Size(d) = i
      BY <2>2
    <3> QED
      BY <3>1
  <2>5. At(c, Size(c)) = c
    <3>1. \A d : d \in Chain(s, c) /\ Size(d) = Size(c) <=> d = c
      BY <2>2, <2>3
    <3> QED
      BY <3>1
  <2> HIDE DEF At
  <2> DEFINE q == Path(s, p)
             x == s.colls[c].name
  <2>6. q = [i \in 1 .. Size(p) |-> s.colls[At(p, i)].name]
    BY <1>1
  <2>7. Path(s, c) = [i \in 1 .. Size(p) + 1 |-> IF i = Size(p) + 1 THEN x ELSE q[i]]
    <3>1. Path(s, c) = [i \in 1 .. Size(c) |-> s.colls[At(c, i)].name]
      BY <1>1
    <3>2. \A i \in 1 .. Size(c) : s.colls[At(c, i)].name = IF i = Size(p) + 1 THEN x ELSE q[i]
      BY <2>2, <2>4, <2>5, <2>6
    <3> HIDE DEF x, q
    <3> QED
      BY <2>2, <3>1, <3>2
  <2>8. Append(q, x) = [i \in 1 .. Size(p) + 1 |-> IF i = Size(p) + 1 THEN x ELSE q[i]]
    <3> DEFINE S == {q[i] : i \in DOMAIN q} \union {x}
    <3>1. q \in [1 .. Size(p) -> S] /\ x \in S
      BY <2>6
    <3> HIDE DEF S, x, q
    <3>2. q \in Seq(S) /\ Len(q) = Size(p)
      BY <2>2, <3>1
    <3>3. /\ Append(q, x) \in Seq(S) /\ Len(Append(q, x)) = Size(p) + 1
          /\ \A i \in 1 .. Size(p) + 1 : Append(q, x)[i] = IF i = Size(p) + 1 THEN x ELSE q[i]
      BY <2>2, <3>1, <3>2, AppendProperties
    <3> DEFINE r == Append(q, x)
    <3>4. r \in Seq(S) /\ Len(r) = Size(p) + 1
      BY <3>3
    <3> HIDE DEF r
    <3>5. DOMAIN r = 1 .. Size(p) + 1 /\ r = [i \in DOMAIN r |-> r[i]]
      BY <3>4
    <3> QED
      BY <3>3, <3>5 DEF r
  <2> QED
    BY <1>4, <2>7, <2>8 DEF p, q, x
<1> QED
  BY <1>3, <1>4

(* Where the rows are the same, so are chains and paths.                   *)
LEMMA SameAbove ==
  ASSUME NEW projects, NEW s, IsForest(projects, s.colls), NEW later, NEW t, IsForest(later, t.colls),
         \A c \in DOMAIN s.colls : c \in DOMAIN t.colls /\ t.colls[c] = s.colls[c]
  PROVE  \A c \in DOMAIN s.colls : Chain(t, c) = Chain(s, c) /\ Path(t, c) = Path(s, c)
<1> DEFINE Good(c) == Chain(t, c) = Chain(s, c) /\ Path(t, c) = Path(s, c)
           Bad == {c \in DOMAIN s.colls : ~Good(c)}
<1> SUFFICES ASSUME Bad # {} PROVE FALSE
  OBVIOUS
<1>1. PICK c \in Bad : s.colls[c].parent # None => s.colls[c].parent \in DOMAIN s.colls \ Bad
  BY ByDepth
<1>2. c \in DOMAIN t.colls /\ t.colls[c] = s.colls[c]
  OBVIOUS
<1>3. CASE s.colls[c].parent = None
  <2>1. Chain(s, c) = {c} /\ Chain(t, c) = {c}
    BY <1>2, <1>3, ChainStep
  <2>2. Path(s, c) = <<s.colls[c].name>> /\ Path(t, c) = <<s.colls[c].name>>
    BY <1>2, <1>3, PathStep
  <2> QED
    BY <2>1, <2>2
<1>4. CASE s.colls[c].parent # None
  <2> DEFINE p == s.colls[c].parent
  <2>1. Chain(s, c) = Chain(s, p) \union {c} /\ Chain(t, c) = Chain(t, p) \union {c}
    <3>1. Chain(s, c) = Chain(s, p) \union {c}
      BY <1>4, ChainStep
    <3>2. t.colls[c].parent # None /\ t.colls[c].parent = p
      BY <1>2, <1>4
    <3>3. Chain(t, c) = Chain(t, t.colls[c].parent) \union {c}
      BY <1>2, <3>2, ChainStep
    <3> QED
      BY <3>1, <3>2, <3>3
  <2>2. Path(s, c) = Append(Path(s, p), s.colls[c].name) /\ Path(t, c) = Append(Path(t, p), s.colls[c].name)
    BY <1>2, <1>4, PathStep
  <2>3. Good(p)
    BY <1>1, <1>4
  <2> QED
    BY <2>1, <2>2, <2>3
<1> QED
  BY <1>3, <1>4

-------------------------------------------------------------------------------
(***************************************************************************)
(* What is promised of a copy, and runs of commands.                       *)
(***************************************************************************)

(* The handlers whose end promises something of the store.                 *)
Copying == {"clone", "import", "restore", "swap"}

(* What a handler of work promises of the store s it ends in.              *)
Promised(work, s) ==
    /\ work.kind = "clone" => Mirrored(work, s)
    /\ work.kind = "import" => Placed(work, s)
    /\ work.kind = "swap" => Exchanged(work, s)
    /\ work.kind = "restore" => Reproduced(work, s)

(* What one command makes of a store and of the request that is held.      *)
Ran(at, cmd) ==
    [store |-> After(at.store, cmd, at.held),
     held |-> IF cmd.kind = "load" THEN Loaded(at.store, cmd) ELSE at.held]

(* run[i] is what the first i commands made of s; each of them succeeded.  *)
IsRun(run, s, held, cmds) ==
    /\ run[0] = [store |-> s, held |-> held]
    /\ \A i \in 1 .. Len(cmds) :
          /\ Allowed(run[i - 1].store, cmds[i], run[i - 1].held)
          /\ run[i] = Ran(run[i - 1], cmds[i])

(* Whenever all the commands succeed, the promise is kept.                 *)
Leads(work, s, held, cmds) ==
    \A run : IsRun(run, s, held, cmds) => Promised(work, run[Len(cmds)].store)


-------------------------------------------------------------------------------
(* Sequences, of whatever their elements are.                              *)

IsSeq(q) == q \in Seq({q[i] : i \in DOMAIN q})

(* A sequence over some set is one over its own elements.                  *)
LEMMA SeqOver == ASSUME NEW S, NEW q \in Seq(S) PROVE IsSeq(q)
<1> DEFINE T == {q[i] : i \in DOMAIN q}
<1>1. q = [i \in 1 .. Len(q) |-> q[i]] /\ Len(q) \in Nat /\ DOMAIN q = 1 .. Len(q)
  OBVIOUS
<1>2. \A i \in 1 .. Len(q) : q[i] \in T
  BY <1>1
<1> HIDE DEF T
<1>3. q \in [1 .. Len(q) -> T]
  BY <1>1, <1>2
<1>4. q \in Seq(T)
  BY <1>1, <1>3
<1> QED
  BY <1>4 DEF T, IsSeq

(* A function on 1 .. n is a sequence of length n.                         *)
LEMMA SeqOfLength == ASSUME NEW n \in Nat, NEW q, q = [i \in 1 .. n |-> q[i]] PROVE IsSeq(q) /\ Len(q) = n
<1> DEFINE T == {q[i] : i \in DOMAIN q}
<1>1. \A i \in 1 .. n : q[i] \in T
  OBVIOUS
<1> HIDE DEF T
<1>2. q \in [1 .. n -> T]
  BY <1>1
<1>3. q \in Seq(T) /\ Len(q) = n
  BY <1>2
<1> QED
  BY <1>3 DEF T, IsSeq

(* Two sequences are over one set.                                         *)
LEMMA SeqUnion ==
  ASSUME NEW a, IsSeq(a), NEW b, IsSeq(b)
  PROVE  \E S : a \in Seq(S) /\ b \in Seq(S)
<1> DEFINE A == {a[i] : i \in DOMAIN a}
           B == {b[i] : i \in DOMAIN b}
<1>1. a \in Seq(A) /\ b \in Seq(B)
  BY DEF IsSeq
<1> HIDE DEF A, B
<1>2. a \in Seq(A \union B) /\ b \in Seq(A \union B)
  BY <1>1
<1> QED
  BY <1>2

(* What Append does.                                                       *)
LEMMA Appending ==
  ASSUME NEW a, IsSeq(a), NEW x
  PROVE  /\ IsSeq(Append(a, x)) /\ Len(a) \in Nat /\ Len(Append(a, x)) = Len(a) + 1 /\ DOMAIN a = 1 .. Len(a)
         /\ DOMAIN Append(a, x) = 1 .. Len(a) + 1
         /\ \A i \in 1 .. Len(a) : Append(a, x)[i] = a[i]
         /\ Append(a, x)[Len(a) + 1] = x
<1> DEFINE T == {a[i] : i \in DOMAIN a}
<1>1. a \in Seq(T)
  BY DEF IsSeq
<1> HIDE DEF T
<1> DEFINE S == T \union {x}
<1>2. a \in Seq(S) /\ x \in S
  BY <1>1
<1> HIDE DEF S
<1>3. Append(a, x) \in Seq(S) /\ Len(Append(a, x)) = Len(a) + 1 /\ Len(a) \in Nat
  BY <1>2, AppendProperties
<1>4. (\A i \in 1 .. Len(a) : Append(a, x)[i] = a[i]) /\ Append(a, x)[Len(a) + 1] = x
  BY <1>2, AppendProperties
<1>5. IsSeq(Append(a, x))
  BY <1>3, SeqOver
<1>6. DOMAIN a = 1 .. Len(a) /\ DOMAIN Append(a, x) = 1 .. Len(a) + 1
  <2> DEFINE b == Append(a, x)
  <2>1. b \in Seq(S) /\ Len(b) = Len(a) + 1
    BY <1>3
  <2> HIDE DEF b
  <2>2. DOMAIN b = 1 .. Len(a) + 1
    BY <2>1
  <2> QED
    BY <1>2, <2>2 DEF b
<1> QED
  BY <1>3, <1>4, <1>5, <1>6

(* What concatenation does.                                                *)
LEMMA Joining ==
  ASSUME NEW a, IsSeq(a), NEW b, IsSeq(b)
  PROVE  /\ IsSeq(a \o b) /\ Len(a) \in Nat /\ Len(b) \in Nat /\ Len(a \o b) = Len(a) + Len(b)
         /\ DOMAIN a = 1 .. Len(a) /\ DOMAIN b = 1 .. Len(b) /\ DOMAIN (a \o b) = 1 .. Len(a) + Len(b)
         /\ \A i \in 1 .. Len(a) : (a \o b)[i] = a[i]
         /\ \A i \in 1 .. Len(b) : (a \o b)[Len(a) + i] = b[i]
<1>1. PICK S : a \in Seq(S) /\ b \in Seq(S)
  BY SeqUnion
<1>2. a \o b \in Seq(S) /\ Len(a) \in Nat /\ Len(b) \in Nat /\ Len(a \o b) = Len(a) + Len(b)
  BY <1>1, ConcatProperties
<1>3. \A i \in 1 .. Len(a) + Len(b) : (a \o b)[i] = IF i <= Len(a) THEN a[i] ELSE b[i - Len(a)]
  BY <1>1, ConcatProperties
<1>4. ASSUME NEW i \in 1 .. Len(b) PROVE (a \o b)[Len(a) + i] = b[i]
  <2>1. Len(a) + i \in 1 .. Len(a) + Len(b) /\ ~(Len(a) + i <= Len(a)) /\ Len(a) + i - Len(a) = i
    BY <1>2
  <2> QED
    BY <1>3, <2>1
<1>5. DOMAIN a = 1 .. Len(a) /\ DOMAIN b = 1 .. Len(b) /\ DOMAIN (a \o b) = 1 .. Len(a) + Len(b)
  <2> DEFINE c == a \o b
  <2>1. c \in Seq(S) /\ Len(c) = Len(a) + Len(b)
    BY <1>2
  <2> HIDE DEF c
  <2>2. DOMAIN c = 1 .. Len(a) + Len(b)
    BY <2>1
  <2> QED
    BY <1>1, <2>2 DEF c
<1>6. \A i \in 1 .. Len(a) : (a \o b)[i] = a[i]
  BY <1>2, <1>3
<1> QED
  BY <1>2, <1>4, <1>5, <1>6, SeqOver

(* Two sequences with the same elements are the same.                      *)
LEMMA SameSeq ==
  ASSUME NEW a, IsSeq(a), NEW b, IsSeq(b), Len(a) = Len(b), \A i \in 1 .. Len(a) : a[i] = b[i]
  PROVE  a = b
<1>1. PICK S : a \in Seq(S) /\ b \in Seq(S)
  BY SeqUnion
<1>2. a = [i \in 1 .. Len(a) |-> a[i]] /\ b = [i \in 1 .. Len(b) |-> b[i]]
  BY <1>1
<1> QED
  BY <1>2

(* Appending to a concatenation.                                           *)
LEMMA AppendJoin ==
  ASSUME NEW p, IsSeq(p), NEW a, IsSeq(a), NEW x
  PROVE  Append(p \o a, x) = p \o Append(a, x)
<1> DEFINE l == Append(p \o a, x)
           r == p \o Append(a, x)
<1>1. IsSeq(p \o a) /\ IsSeq(Append(a, x)) /\ Len(Append(a, x)) = Len(a) + 1 /\ Len(p \o a) = Len(p) + Len(a)
      /\ Len(p) \in Nat /\ Len(a) \in Nat
  BY Joining, Appending
<1>2. IsSeq(l) /\ IsSeq(r) /\ Len(l) = Len(p) + Len(a) + 1 /\ Len(r) = Len(p) + Len(a) + 1
  BY <1>1, Joining, Appending
<1>3. ASSUME NEW i \in 1 .. Len(l) PROVE l[i] = r[i]
  <2>1. CASE i <= Len(p)
    <3>1. l[i] = (p \o a)[i] /\ (p \o a)[i] = p[i]
      BY <1>1, <2>1, Joining, Appending
    <3>2. r[i] = p[i]
      BY <1>1, <2>1, Joining
    <3> QED
      BY <3>1, <3>2
  <2>2. CASE Len(p) < i /\ i <= Len(p) + Len(a)
    <3> DEFINE j == i - Len(p)
    <3>1. j \in 1 .. Len(a) /\ i = Len(p) + j /\ i \in 1 .. Len(p \o a) /\ j \in 1 .. Len(Append(a, x))
      BY <1>1, <2>2
    <3> HIDE DEF j
    <3>2. l[i] = (p \o a)[i] /\ (p \o a)[i] = a[j]
      BY <1>1, <3>1, Joining, Appending
    <3>3. r[i] = Append(a, x)[j] /\ Append(a, x)[j] = a[j]
      BY <1>1, <3>1, Joining, Appending
    <3> QED
      BY <3>2, <3>3
  <2>3. CASE i = Len(p) + Len(a) + 1
    <3>1. l[Len(p \o a) + 1] = x
      BY <1>1, Appending
    <3>2. Append(a, x)[Len(a) + 1] = x /\ Len(a) + 1 \in 1 .. Len(Append(a, x))
      BY <1>1, Appending
    <3>3. r[Len(p) + (Len(a) + 1)] = Append(a, x)[Len(a) + 1]
      BY <1>1, <3>2, Joining
    <3>4. i = Len(p \o a) + 1 /\ i = Len(p) + (Len(a) + 1)
      BY <1>1, <2>3
    <3> QED
      BY <3>1, <3>2, <3>3, <3>4
  <2> HIDE DEF l, r
  <2> QED
    BY <1>1, <1>2, <2>1, <2>2, <2>3
<1> HIDE DEF l, r
<1>4. l = r
  BY <1>2, <1>3, SameSeq
<1> QED
  BY <1>4 DEF l, r

(* What follows a prefix is determined.                                    *)
LEMMA JoinCancels ==
  ASSUME NEW p, IsSeq(p), NEW a, IsSeq(a), NEW b, IsSeq(b)
  PROVE  p \o a = p \o b => a = b
<1> DEFINE l == p \o a
           r == p \o b
<1>1. /\ Len(l) = Len(p) + Len(a) /\ Len(p) \in Nat /\ Len(a) \in Nat
      /\ \A i \in 1 .. Len(a) : l[Len(p) + i] = a[i]
  BY Joining
<1>2. /\ Len(r) = Len(p) + Len(b) /\ Len(b) \in Nat
      /\ \A i \in 1 .. Len(b) : r[Len(p) + i] = b[i]
  BY Joining
<1> HIDE DEF l, r
<1>3. SUFFICES ASSUME l = r PROVE a = b
  BY DEF l, r
<1>4. Len(a) = Len(b)
  BY <1>1, <1>2, <1>3
<1>5. \A i \in 1 .. Len(a) : a[i] = b[i]
  BY <1>1, <1>2, <1>3, <1>4
<1> QED
  BY <1>4, <1>5, SameSeq

(* Nothing joined.                                                         *)
LEMMA JoinEmpty == ASSUME NEW p, IsSeq(p) PROVE p \o <<>> = p /\ IsSeq(<<>>)
<1> DEFINE T == {p[i] : i \in DOMAIN p}
<1>1. p \in Seq(T)
  BY DEF IsSeq
<1> HIDE DEF T
<1>2. p \o <<>> = p
  BY <1>1
<1>3. <<>> \in Seq(Nat)
  OBVIOUS
<1> QED
  BY <1>2, <1>3, SeqOver

(* A path is a sequence.                                                   *)
LEMMA PathSeq ==
  ASSUME NEW projects, NEW s, IsForest(projects, s.colls), NEW c \in DOMAIN s.colls
  PROVE  IsSeq(Path(s, c))
<1> DEFINE n == Cardinality(Chain(s, c))
           q == Path(s, c)
           at(i) == s.colls[CHOOSE d \in Chain(s, c) : Cardinality(Chain(s, d)) = i].name
<1>1. n \in Nat
  BY ChainStep
<1>2. q = [i \in 1 .. n |-> at(i)]
  BY DEF Path
<1> HIDE DEF n, at, q
<1>3. q = [i \in 1 .. n |-> q[i]]
  BY <1>2
<1>4. IsSeq(q)
  BY <1>1, <1>3, SeqOfLength
<1> QED
  BY <1>4 DEF q

-------------------------------------------------------------------------------
(* Runs of commands.                                                       *)

(* A run of one command more.                                              *)
LEMMA RunAppend ==
  ASSUME NEW run, NEW s, NEW held, NEW cmds, IsSeq(cmds), NEW cmd, IsRun(run, s, held, Append(cmds, cmd))
  PROVE  /\ IsRun(run, s, held, cmds) /\ Len(cmds) \in Nat /\ Len(Append(cmds, cmd)) = Len(cmds) + 1
         /\ Allowed(run[Len(cmds)].store, cmd, run[Len(cmds)].held)
         /\ run[Len(cmds) + 1] = Ran(run[Len(cmds)], cmd)
<1> DEFINE more == Append(cmds, cmd)
<1>1. /\ Len(cmds) \in Nat /\ Len(more) = Len(cmds) + 1
      /\ \A i \in 1 .. Len(cmds) : more[i] = cmds[i]
      /\ more[Len(cmds) + 1] = cmd
  BY Appending
<1>2. /\ run[0] = [store |-> s, held |-> held]
      /\ \A i \in 1 .. Len(more) : /\ Allowed(run[i - 1].store, more[i], run[i - 1].held)
                                   /\ run[i] = Ran(run[i - 1], more[i])
  BY DEF IsRun
<1> HIDE DEF more
<1>3. ASSUME NEW i \in 1 .. Len(cmds)
      PROVE  /\ Allowed(run[i - 1].store, cmds[i], run[i - 1].held)
             /\ run[i] = Ran(run[i - 1], cmds[i])
  <2>1. i \in 1 .. Len(more) /\ more[i] = cmds[i]
    BY <1>1
  <2> QED
    BY <1>2, <2>1
<1>4. IsRun(run, s, held, cmds)
  BY <1>2, <1>3 DEF IsRun
<1>5. Len(cmds) + 1 \in 1 .. Len(more) /\ Len(cmds) + 1 - 1 = Len(cmds)
  BY <1>1
<1> QED
  BY <1>1, <1>2, <1>4, <1>5 DEF more

(* The commands of a run of two scripts.                                   *)
LEMMA RunJoin ==
  ASSUME NEW run, NEW s, NEW held, NEW a, IsSeq(a), NEW b, IsSeq(b), IsRun(run, s, held, a \o b)
  PROVE  /\ IsRun(run, s, held, a) /\ Len(a) \in Nat /\ Len(b) \in Nat /\ Len(a \o b) = Len(a) + Len(b)
         /\ \A i \in 1 .. Len(b) : /\ Allowed(run[Len(a) + i - 1].store, b[i], run[Len(a) + i - 1].held)
                                   /\ run[Len(a) + i] = Ran(run[Len(a) + i - 1], b[i])
<1> DEFINE all == a \o b
<1>1. /\ Len(a) \in Nat /\ Len(b) \in Nat /\ Len(all) = Len(a) + Len(b)
      /\ \A i \in 1 .. Len(a) : all[i] = a[i]
      /\ \A i \in 1 .. Len(b) : all[Len(a) + i] = b[i]
  BY Joining
<1>2. /\ run[0] = [store |-> s, held |-> held]
      /\ \A i \in 1 .. Len(all) : /\ Allowed(run[i - 1].store, all[i], run[i - 1].held)
                                  /\ run[i] = Ran(run[i - 1], all[i])
  BY DEF IsRun
<1> HIDE DEF all
<1>3. ASSUME NEW i \in 1 .. Len(a)
      PROVE  /\ Allowed(run[i - 1].store, a[i], run[i - 1].held)
             /\ run[i] = Ran(run[i - 1], a[i])
  <2>1. i \in 1 .. Len(all) /\ all[i] = a[i]
    BY <1>1
  <2> QED
    BY <1>2, <2>1
<1>4. IsRun(run, s, held, a)
  BY <1>2, <1>3 DEF IsRun
<1>5. ASSUME NEW i \in 1 .. Len(b)
      PROVE  /\ Allowed(run[Len(a) + i - 1].store, b[i], run[Len(a) + i - 1].held)
             /\ run[Len(a) + i] = Ran(run[Len(a) + i - 1], b[i])
  <2>1. Len(a) + i \in 1 .. Len(all) /\ all[Len(a) + i] = b[i]
    BY <1>1
  <2> QED
    BY <1>2, <2>1
<1> QED
  BY <1>1, <1>4, <1>5 DEF all

(* What a run makes of a sound store.                                      *)
LEMMA RunCoherent ==
  ASSUME NEW at, NEW bound \in Nat, Coherent(at.store, bound), at.held = None \/ IsReq(at.held), NEW cmd,
         Fits(cmd, at.store, bound), Allowed(at.store, cmd, at.held)
  PROVE  LET next == Ran(at, cmd) IN
         /\ Coherent(next.store, bound) /\ next.store = After(at.store, cmd, at.held)
         /\ next.held = None \/ IsReq(next.held)
         /\ cmd.kind # "load" => next.held = at.held
<1>1. Ran(at, cmd).store = After(at.store, cmd, at.held)
      /\ Ran(at, cmd).held = IF cmd.kind = "load" THEN Loaded(at.store, cmd) ELSE at.held
  BY DEF Ran
<1>2. Loaded(at.store, cmd) = None \/ IsReq(Loaded(at.store, cmd))
  BY DEF Loaded, Coherent, Sane, Filed
<1>3. Coherent(After(at.store, cmd, at.held), bound)
  BY AfterCoherent
<1> QED
  BY <1>1, <1>2, <1>3

(* A run of two scripts is a run of the first and then one of the second.  *)
LEMMA RunSplit ==
  ASSUME NEW run, NEW s, NEW held, NEW a, IsSeq(a), NEW b, IsSeq(b), IsRun(run, s, held, a \o b)
  PROVE  /\ IsRun(run, s, held, a)
         /\ \E rest : /\ IsRun(rest, run[Len(a)].store, run[Len(a)].held, b)
                      /\ rest[Len(b)] = run[Len(a \o b)]
<1>1. /\ IsRun(run, s, held, a) /\ Len(a) \in Nat /\ Len(b) \in Nat /\ Len(a \o b) = Len(a) + Len(b)
      /\ \A i \in 1 .. Len(b) : /\ Allowed(run[Len(a) + i - 1].store, b[i], run[Len(a) + i - 1].held)
                                /\ run[Len(a) + i] = Ran(run[Len(a) + i - 1], b[i])
  BY RunJoin
<1> DEFINE n == Len(a)
           m == Len(b)
           rest == [i \in 0 .. m |-> run[n + i]]
<1>2. run[n] = [store |-> run[n].store, held |-> run[n].held]
  <2>1. CASE n = 0
    BY <1>1, <2>1 DEF IsRun
  <2>2. CASE n # 0
    <3>1. run[n] = Ran(run[n - 1], a[n])
      BY <1>1, <2>2 DEF IsRun
    <3> QED
      BY <3>1 DEF Ran
  <2> QED
    BY <2>1, <2>2
<1>3. n \in Nat /\ m \in Nat
  BY <1>1
<1>4. rest[0] = run[n] /\ rest[m] = run[n + m] /\ \A i \in 1 .. m : rest[i - 1] = run[n + i - 1] /\ rest[i] = run[n + i]
  <2> HIDE DEF n, m
  <2> QED
    BY <1>3
<1> HIDE DEF rest
<1>5. IsRun(rest, run[n].store, run[n].held, b)
  BY <1>1, <1>2, <1>4 DEF IsRun
<1> QED
  BY <1>1, <1>4, <1>5

(* A store stays sound as ids are given out.                               *)
LEMMA CoherentMore ==
  ASSUME NEW s, NEW n \in Nat, Coherent(s, n), NEW m \in Nat, n <= m
  PROVE  Coherent(s, m)
<1>1. (\A c \in DOMAIN s.colls : c \in Nat) /\ \A r \in DOMAIN s.reqs : r \in Nat
  BY DEF Coherent, Sane, IsForest, Filed
<1> QED
  BY <1>1 DEF Coherent

(* The least of a set of numbers is one of them.                           *)
LEMMA LeastIsIn ==
  ASSUME NEW S \in SUBSET Nat, S # {}
  PROVE  Min(S) \in S
<1>1. \E k \in S : \A j \in S : k <= j
  BY LeastId
<1> QED
  BY <1>1, Zenon DEF Min

(* A handler's commands: the ids they make are its own, each made once.    *)
Plain(cmd, next) ==
    /\ cmd.kind \in {"createProject", "createCollection", "saveEnvelope", "load", "saveLoaded"}
    /\ cmd.kind = "saveEnvelope" => cmd.id \in Nat /\ cmd.id < next /\ IsReq(cmd.row)
    /\ cmd.kind = "saveLoaded" => cmd.id \in Nat /\ cmd.id < next
Makes(cmds, k) == cmds[k].kind = "createCollection"

Numbered(cmds, first, next) ==
    /\ IsSeq(cmds) /\ first \in Nat /\ next \in Nat /\ first <= next
    /\ \A k \in DOMAIN cmds : /\ Plain(cmds[k], next)
                              /\ Makes(cmds, k) => cmds[k].id \in Nat /\ first <= cmds[k].id /\ cmds[k].id < next
    /\ \A k, l \in DOMAIN cmds : Makes(cmds, k) /\ Makes(cmds, l) /\ cmds[k].id = cmds[l].id => k = l

(* A command stays plain as ids are given out.                             *)
LEMMA PlainMore ==
  ASSUME NEW cmd, NEW n \in Nat, Plain(cmd, n), NEW m \in Nat, n <= m
  PROVE  Plain(cmd, m)
  BY DEF Plain

(* One command more, whose id, if it makes one, is the next.               *)
LEMMA NumberedAppend ==
  ASSUME NEW cmds, NEW first, NEW next, Numbered(cmds, first, next), NEW m \in Nat, next <= m,
         NEW cmd, Plain(cmd, m), cmd.kind = "createCollection" => cmd.id \in Nat /\ next <= cmd.id /\ cmd.id < m
  PROVE  Numbered(Append(cmds, cmd), first, m)
<1> DEFINE more == Append(cmds, cmd)
           n == Len(cmds)
<1>1. /\ IsSeq(more) /\ n \in Nat /\ DOMAIN cmds = 1 .. n /\ DOMAIN more = 1 .. n + 1
      /\ \A k \in 1 .. n : more[k] = cmds[k]
      /\ more[n + 1] = cmd
  BY Appending DEF Numbered
<1> HIDE DEF more, n
<1>2. first \in Nat /\ next \in Nat /\ first <= next
  BY DEF Numbered
<1>3. ASSUME NEW k \in 1 .. n
      PROVE  /\ Plain(more[k], m)
             /\ Makes(more, k) => /\ Makes(cmds, k) /\ more[k].id = cmds[k].id
                                  /\ more[k].id \in Nat /\ first <= more[k].id /\ more[k].id < next
  <2>1. Plain(cmds[k], next) /\ more[k] = cmds[k]
    BY <1>1 DEF Numbered
  <2>2. Plain(cmds[k], m)
    BY <1>2, <2>1, PlainMore
  <2> QED
    BY <1>1, <2>1, <2>2 DEF Numbered, Makes
<1>4. Plain(more[n + 1], m) /\ (Makes(more, n + 1) => more[n + 1].id \in Nat /\ next <= more[n + 1].id /\ more[n + 1].id < m)
  BY <1>1 DEF Makes
<1>5. ASSUME NEW k \in 1 .. n + 1
      PROVE  /\ Plain(more[k], m)
             /\ Makes(more, k) => more[k].id \in Nat /\ first <= more[k].id /\ more[k].id < m
  <2>1. CASE k = n + 1
    BY <1>2, <1>4, <2>1
  <2>2. CASE k \in 1 .. n
    BY <1>2, <1>3, <2>2
  <2> QED
    BY <1>1, <2>1, <2>2
<1>6. ASSUME NEW k \in 1 .. n + 1, NEW l \in 1 .. n + 1, Makes(more, k), Makes(more, l), more[k].id = more[l].id
      PROVE  k = l
  <2>1. CASE k \in 1 .. n /\ l \in 1 .. n
    <3>1. Makes(cmds, k) /\ Makes(cmds, l) /\ cmds[k].id = cmds[l].id
      BY <1>3, <1>6, <2>1
    <3> QED
      BY <1>1, <2>1, <3>1 DEF Numbered
  <2>2. CASE k \in 1 .. n /\ l = n + 1
    BY <1>2, <1>3, <1>4, <1>6, <2>2
  <2>3. CASE k = n + 1 /\ l \in 1 .. n
    BY <1>2, <1>3, <1>4, <1>6, <2>3
  <2> QED
    BY <1>1, <2>1, <2>2, <2>3
<1>7. first <= m
  BY <1>2
<1> QED
  BY <1>1, <1>2, <1>5, <1>6, <1>7 DEF Numbered, more

(* Two scripts, of which one makes no ids.                                 *)
LEMMA NumberedJoin ==
  ASSUME NEW a, NEW b, NEW first, NEW next, Numbered(a, first, next), Numbered(b, first, next),
         (\A k \in DOMAIN a : ~Makes(a, k)) \/ \A k \in DOMAIN b : ~Makes(b, k)
  PROVE  Numbered(a \o b, first, next)
<1> DEFINE all == a \o b
           n == Len(a)
           m == Len(b)
<1>1. /\ IsSeq(all) /\ n \in Nat /\ m \in Nat /\ DOMAIN a = 1 .. n /\ DOMAIN b = 1 .. m /\ DOMAIN all = 1 .. n + m
      /\ \A k \in 1 .. n : all[k] = a[k]
      /\ \A k \in 1 .. m : all[n + k] = b[k]
  BY Joining DEF Numbered
<1> HIDE DEF all, n, m
<1>2. ASSUME NEW k \in 1 .. n + m, k \notin 1 .. n PROVE k - n \in 1 .. m /\ all[k] = b[k - n]
  <2>1. k - n \in 1 .. m /\ n + (k - n) = k
    BY <1>1, <1>2
  <2> QED
    BY <1>1, <2>1
<1>3. ASSUME NEW k \in 1 .. n + m
      PROVE  /\ Plain(all[k], next)
             /\ Makes(all, k) => all[k].id \in Nat /\ first <= all[k].id /\ all[k].id < next
  <2>1. CASE k \in 1 .. n
    BY <1>1, <2>1 DEF Numbered, Makes
  <2>2. CASE k \notin 1 .. n
    <3> DEFINE j == k - n
    <3>1. j \in DOMAIN b /\ all[k] = b[j]
      BY <1>1, <1>2, <2>2
    <3> HIDE DEF j
    <3> QED
      BY <3>1 DEF Numbered, Makes
  <2> QED
    BY <2>1, <2>2
<1>4. ASSUME NEW k \in 1 .. n + m, NEW l \in 1 .. n + m, Makes(all, k), Makes(all, l), all[k].id = all[l].id
      PROVE  k = l
  <2>1. CASE \A i \in DOMAIN a : ~Makes(a, i)
    <3>1. k \notin 1 .. n /\ l \notin 1 .. n
      BY <1>1, <1>4, <2>1 DEF Makes
    <3> DEFINE i == k - n
               j == l - n
    <3>2. i \in DOMAIN b /\ all[k] = b[i] /\ j \in DOMAIN b /\ all[l] = b[j]
      BY <1>1, <1>2, <3>1
    <3>3. k = n + i /\ l = n + j
      BY <1>1
    <3> HIDE DEF i, j
    <3>4. Makes(b, i) /\ Makes(b, j) /\ b[i].id = b[j].id
      BY <1>4, <3>2 DEF Makes
    <3>5. i = j
      BY <3>2, <3>4 DEF Numbered
    <3> QED
      BY <3>3, <3>5
  <2>2. CASE \A i \in DOMAIN b : ~Makes(b, i)
    <3>1. ASSUME NEW i \in 1 .. n + m, Makes(all, i) PROVE i \in 1 .. n /\ Makes(a, i)
      <4>1. i \notin 1 .. n => ~Makes(all, i)
        BY <1>1, <1>2, <2>2 DEF Makes
      <4> QED
        BY <1>1, <3>1, <4>1 DEF Makes
    <3>2. k \in DOMAIN a /\ l \in DOMAIN a /\ Makes(a, k) /\ Makes(a, l) /\ a[k].id = a[l].id
      BY <1>1, <1>4, <3>1
    <3> QED
      BY <3>2 DEF Numbered
  <2> QED
    BY <2>1, <2>2
<1>5. first \in Nat /\ next \in Nat /\ first <= next
  BY DEF Numbered
<1> QED
  BY <1>1, <1>3, <1>4, <1>5 DEF Numbered, all

-------------------------------------------------------------------------------
(* The elements of a set as a sequence, and the collections as listed.     *)

(* A finite set as a sequence: each element once.                          *)
LEMMA SeqOfSet ==
  ASSUME NEW S, IsFiniteSet(S)
  PROVE  LET q == SetToSeq(S) IN
         /\ IsSeq(q) /\ Len(q) = Cardinality(S) /\ Len(q) \in Nat /\ DOMAIN q = 1 .. Len(q)
         /\ \A i \in 1 .. Len(q) : q[i] \in S
         /\ \A x \in S : \E i \in 1 .. Len(q) : q[i] = x
         /\ \A i, j \in 1 .. Len(q) : q[i] = q[j] => i = j
<1> DEFINE n == Cardinality(S)
           q == SetToSeq(S)
<1>1. n \in Nat /\ Bijection(1 .. n, S) # {}
  BY FS_CardinalityType DEF ExistsBijection
<1>2. \E f \in [1 .. n -> S] : IsInjective(f)
  BY <1>1 DEF Bijection, Injection
<1>3. q \in [1 .. n -> S] /\ IsInjective(q)
  BY <1>2, Zenon DEF SetToSeq
<1> HIDE DEF q
<1>4. IsFiniteSet(1 .. n) /\ Cardinality(1 .. n) = n
  BY <1>1, FS_Interval
<1>5. q \in Injection(1 .. n, S)
  BY <1>3 DEF Injection
<1>6. q \in Surjection(1 .. n, S)
  BY <1>4, <1>5, FS_Injection
<1> HIDE DEF n
<1>7. q = [i \in 1 .. n |-> q[i]] /\ DOMAIN q = 1 .. n
  BY <1>3
<1>8. IsSeq(q) /\ Len(q) = n
  BY <1>1, <1>7, SeqOfLength
<1>9. \A x \in S : \E i \in 1 .. n : q[i] = x
  BY <1>6 DEF Surjection
<1>10. \A i, j \in 1 .. n : q[i] = q[j] => i = j
  BY <1>3, <1>7 DEF IsInjective
<1> QED
  BY <1>1, <1>3, <1>7, <1>8, <1>9, <1>10 DEF n, q

(* The order of the listing is total.                                      *)
LEMMA PrecedesOrders ==
  ASSUME NEW projects, NEW t, IsForest(projects, t.colls), NEW c \in DOMAIN t.colls, NEW d \in DOMAIN t.colls
  PROVE  /\ c # d => Precedes(t, c, d) \/ Precedes(t, d, c)
         /\ ~(Precedes(t, c, d) /\ Precedes(t, d, c))
         /\ \A e \in DOMAIN t.colls : Precedes(t, c, d) /\ Precedes(t, d, e) => Precedes(t, c, e)
<1>1. \A b \in DOMAIN t.colls : b \in Nat /\ t.colls[b].order \in Nat
  BY DEF IsForest, IsRow
<1> QED
  BY <1>1 DEF Precedes, Before

(* How many collections come after c.                                      *)
Rank(t, c) == Cardinality({d \in DOMAIN t.colls : Precedes(t, c, d)})

(* Who is listed later has fewer after it.                                 *)
LEMMA RankFalls ==
  ASSUME NEW projects, NEW t, IsForest(projects, t.colls), NEW c \in DOMAIN t.colls
  PROVE  /\ Rank(t, c) \in 0 .. Cardinality(DOMAIN t.colls) - 1
         /\ \A d \in DOMAIN t.colls : Precedes(t, c, d) => Rank(t, d) < Rank(t, c)
<1> DEFINE ids == DOMAIN t.colls
           After1(b) == {d \in ids : Precedes(t, b, d)}
<1>1. IsFiniteSet(ids)
  BY DEF IsForest
<1>2. \A b \in ids : IsFiniteSet(After1(b)) /\ Rank(t, b) = Cardinality(After1(b)) /\ Rank(t, b) \in Nat
  BY <1>1, FS_Subset, FS_CardinalityType DEF Rank
<1>3. Rank(t, c) \in 0 .. Cardinality(ids) - 1
  <2>1. After1(c) \subseteq ids \ {c}
    BY PrecedesOrders
  <2> HIDE DEF After1
  <2>2. Cardinality(After1(c)) <= Cardinality(ids \ {c}) /\ Cardinality(ids \ {c}) = Cardinality(ids) - 1
    BY <1>1, <2>1, FS_Subset, FS_RemoveElement
  <2>3. Cardinality(ids) \in Nat
    BY <1>1, FS_CardinalityType
  <2> QED
    BY <1>2, <2>2, <2>3
<1>4. ASSUME NEW d \in ids, Precedes(t, c, d) PROVE Rank(t, d) < Rank(t, c)
  <2>1. After1(d) \subseteq After1(c) /\ d \in After1(c) /\ d \notin After1(d)
    BY <1>4, PrecedesOrders
  <2> HIDE DEF After1
  <2>2. Cardinality(After1(d)) <= Cardinality(After1(c)) /\ Cardinality(After1(d)) # Cardinality(After1(c))
    BY <1>2, <2>1, FS_Subset
  <2> QED
    BY <1>2, <2>2
<1> QED
  BY <1>3, <1>4

(* A set of collections has a first one.                                   *)
LEMMA FirstListed ==
  ASSUME NEW projects, NEW t, IsForest(projects, t.colls), NEW S \in SUBSET DOMAIN t.colls, S # {}
  PROVE  \E c \in S : \A d \in S \ {c} : Precedes(t, c, d)
<1> DEFINE f == [c \in S |-> Rank(t, c)]
           Ranks == {f[c] : c \in S}
<1>1. \A c \in S : f[c] \in Nat
  BY RankFalls
<1>2. Ranks \in SUBSET Nat /\ Ranks # {}
  BY <1>1
<1>3. IsFiniteSet(Ranks)
  <2>1. IsFiniteSet(S)
    BY FS_Subset DEF IsForest
  <2> HIDE DEF f
  <2> QED
    BY <2>1, ImageFinite
<1>4. PICK m \in Ranks : \A k \in Ranks : k <= m
  BY <1>2, <1>3, FiniteMax
<1>5. PICK c \in S : f[c] = m
  BY <1>4
<1>6. ASSUME NEW d \in S \ {c} PROVE Precedes(t, c, d)
  <2>1. Rank(t, d) <= Rank(t, c) /\ Rank(t, d) \in Nat /\ Rank(t, c) \in Nat
    BY <1>1, <1>4, <1>5
  <2>2. ~Precedes(t, d, c)
    BY <2>1, RankFalls
  <2> QED
    BY <2>2, PrecedesOrders
<1> QED
  BY <1>6

(* The listing has every collection.                                       *)
LEMMA AllListed ==
  ASSUME NEW projects, NEW t, IsForest(projects, t.colls)
  PROVE  LET list == LastFirst(t)
             n == Cardinality(DOMAIN t.colls) IN
         /\ n \in Nat /\ IsSeq(list) /\ Len(list) = n
         /\ \A i \in 1 .. n : list[i] \in DOMAIN t.colls
         /\ \A c \in DOMAIN t.colls : \E i \in 1 .. n : list[i] = c
<1> DEFINE ids == DOMAIN t.colls
           n == Cardinality(ids)
           list == LastFirst(t)
           rank == [c \in ids |-> Rank(t, c)]
<1>1. IsFiniteSet(ids) /\ n \in Nat
  BY FS_CardinalityType DEF IsForest
<1>2. rank \in [ids -> 0 .. n - 1]
  BY RankFalls
<1>3. \A c, d \in ids : rank[c] = rank[d] => c = d
  <2> SUFFICES ASSUME NEW c \in ids, NEW d \in ids, rank[c] = rank[d], c # d PROVE FALSE
    OBVIOUS
  <2>1. Rank(t, c) = Rank(t, d) /\ Rank(t, c) \in Nat
    <3>1. Rank(t, c) \in 0 .. n - 1
      BY RankFalls
    <3> HIDE DEF n
    <3> QED
      BY <1>1, <3>1
  <2>2. Precedes(t, c, d) \/ Precedes(t, d, c)
    BY PrecedesOrders
  <2>3. ~(Rank(t, c) < Rank(t, d)) /\ ~(Rank(t, d) < Rank(t, c))
    BY <2>1
  <2> QED
    BY <2>2, <2>3, RankFalls
<1> HIDE DEF rank
<1>4. rank \in Injection(ids, 0 .. n - 1)
  BY <1>2, <1>3 DEF Injection, IsInjective
<1>5. IsFiniteSet(0 .. n - 1) /\ Cardinality(0 .. n - 1) = n
  <2> HIDE DEF n
  <2> QED
    BY <1>1, FS_Interval
<1>6. rank \in Surjection(ids, 0 .. n - 1)
  BY <1>4, <1>5, FS_Injection
<1>7. ASSUME NEW i \in 1 .. n PROVE list[i] \in ids /\ rank[list[i]] = i - 1
  <2>1. i - 1 \in 0 .. n - 1
    BY <1>1
  <2>2. \E c \in ids : rank[c] = i - 1
    BY <1>6, <2>1 DEF Surjection
  <2>3. \E c \in ids : Rank(t, c) = i - 1
    BY <2>2 DEF rank
  <2>4. list[i] = CHOOSE c \in ids : Rank(t, c) = i - 1
    BY Zenon DEF LastFirst, Rank
  <2> HIDE DEF list
  <2> QED
    BY <2>3, <2>4 DEF rank
<1>8. list = [i \in 1 .. n |-> list[i]]
  <2> DEFINE at(i) == CHOOSE c \in ids : Cardinality({d \in ids : Precedes(t, c, d)}) = i - 1
  <2>1. list = [i \in 1 .. n |-> at(i)]
    BY Zenon DEF LastFirst
  <2> HIDE DEF at, list, n
  <2> QED
    BY <2>1
<1> HIDE DEF list, n
<1>9. ASSUME NEW c \in ids PROVE \E i \in 1 .. n : list[i] = c
  <2>1. rank[c] \in 0 .. n - 1
    BY <1>2
  <2> DEFINE i == rank[c] + 1
  <2>2. i \in 1 .. n /\ i - 1 = rank[c]
    BY <1>1, <2>1
  <2> HIDE DEF i
  <2>3. rank[list[i]] = rank[c] /\ list[i] \in ids
    BY <1>7, <2>2
  <2> QED
    BY <1>3, <2>2, <2>3
<1>10. IsSeq(list) /\ Len(list) = n
  BY <1>1, <1>8, SeqOfLength
<1> QED
  BY <1>1, <1>7, <1>9, <1>10 DEF list, n

-------------------------------------------------------------------------------
(* A restore.                                                              *)

(* A pass, one collection after the other.                                 *)
LEMMA PassSteps ==
  ASSUME NEW t, NEW list, Len(list) \in Nat, NEW done
  PROVE  \E after : /\ after[0] = done
                    /\ \A i \in 1 .. Len(list) : after[i] = RestoreRound(t, after[i - 1], list[i])
                    /\ RestorePass(t, list, done) = after[Len(list)]
<1> DEFINE Step(i, x) == RestoreRound(t, x, list[i])
           At(f, i) == IF i = 0 THEN done ELSE Step(i, f[i - 1])
           Is(f, k) == f = [i \in 0 .. k |-> At(f, i)]
           n == Len(list)
           result == CHOOSE f : Is(f, n)
<1>1. \E f : Is(f, 0)
  <2> DEFINE f == [i \in 0 .. 0 |-> done]
  <2>1. Is(f, 0)
    OBVIOUS
  <2> QED
    BY <2>1
<1>2. ASSUME NEW k \in Nat, \E f : Is(f, k) PROVE \E f : Is(f, k + 1)
  <2>1. PICK f : Is(f, k)
    BY <1>2
  <2> DEFINE g == [i \in 0 .. k + 1 |-> At(f, i)]
  <2>2. \A i \in 0 .. k : g[i] = f[i]
    BY <2>1
  <2>3. ASSUME NEW i \in 0 .. k + 1 PROVE At(g, i) = At(f, i)
    <3>1. i # 0 => i - 1 \in 0 .. k
      OBVIOUS
    <3> HIDE DEF g, Step
    <3> QED
      BY <2>2, <3>1
  <2>4. Is(g, k + 1)
    BY <2>3, Zenon
  <2> QED
    BY <2>4
<1> DEFINE Bad == {k \in Nat : ~\E f : Is(f, k)}
<1>3. Bad = {}
  <2> SUFFICES ASSUME Bad # {} PROVE FALSE
    OBVIOUS
  <2> HIDE DEF Is
  <2>1. PICK k \in Bad : \A j \in Bad : k <= j
    BY LeastId
  <2>2. k \in Nat /\ k # 0 /\ k - 1 \in Nat /\ k - 1 \notin Bad /\ k - 1 + 1 = k
    BY <1>1, <2>1
  <2>3. \E f : Is(f, k - 1 + 1)
    BY <1>2, <2>2
  <2> QED
    BY <2>1, <2>2, <2>3
<1>4. \E f : Is(f, n)
  BY <1>3
<1>5. Is(result, n)
  <2> HIDE DEF Is
  <2> QED
    BY <1>4, Zenon
<1>6. RestorePass(t, list, done) = result[n]
  BY Zenon DEF RestorePass
<1>7. \A i \in 0 .. n : result[i] = At(result, i)
  <2> HIDE DEF result, At, n
  <2> QED
    BY <1>5
<1> HIDE DEF result, Step, Is
<1>8. result[0] = done /\ \A i \in 1 .. n : result[i] = Step(i, result[i - 1])
  BY <1>7
<1> QED
  BY <1>6, <1>8, Zenon DEF Step

(* The passes of a restore.                                                *)
LEMMA RestoreSteps ==
  ASSUME NEW t, Len(LastFirst(snapshot)) \in Nat
  PROVE  \E after : /\ after[0] = [copies |-> <<>>, next |-> nextId, commands |-> <<>>]
                    /\ \A i \in 1 .. Len(LastFirst(snapshot)) : after[i] = RestorePass(t, LastFirst(snapshot), after[i - 1])
                    /\ Restored(t) = after[Len(LastFirst(snapshot))]
<1> DEFINE Step(i, x) == RestorePass(t, LastFirst(snapshot), x)
           At(f, i) == IF i = 0 THEN [copies |-> <<>>, next |-> nextId, commands |-> <<>>] ELSE Step(i, f[i - 1])
           Is(f, k) == f = [i \in 0 .. k |-> At(f, i)]
           n == Len(LastFirst(snapshot))
           result == CHOOSE f : Is(f, n)
<1>1. \E f : Is(f, 0)
  <2> DEFINE f == [i \in 0 .. 0 |-> [copies |-> <<>>, next |-> nextId, commands |-> <<>>]]
  <2>1. Is(f, 0)
    OBVIOUS
  <2> QED
    BY <2>1
<1>2. ASSUME NEW k \in Nat, \E f : Is(f, k) PROVE \E f : Is(f, k + 1)
  <2>1. PICK f : Is(f, k)
    BY <1>2
  <2> DEFINE g == [i \in 0 .. k + 1 |-> At(f, i)]
  <2>2. \A i \in 0 .. k : g[i] = f[i]
    BY <2>1
  <2>3. ASSUME NEW i \in 0 .. k + 1 PROVE At(g, i) = At(f, i)
    <3>1. i # 0 => i - 1 \in 0 .. k
      OBVIOUS
    <3> HIDE DEF g, Step
    <3> QED
      BY <2>2, <3>1
  <2>4. Is(g, k + 1)
    BY <2>3, Zenon
  <2> QED
    BY <2>4
<1> DEFINE Bad == {k \in Nat : ~\E f : Is(f, k)}
<1>3. Bad = {}
  <2> SUFFICES ASSUME Bad # {} PROVE FALSE
    OBVIOUS
  <2> HIDE DEF Is
  <2>1. PICK k \in Bad : \A j \in Bad : k <= j
    BY LeastId
  <2>2. k \in Nat /\ k # 0 /\ k - 1 \in Nat /\ k - 1 \notin Bad /\ k - 1 + 1 = k
    BY <1>1, <2>1
  <2>3. \E f : Is(f, k - 1 + 1)
    BY <1>2, <2>2
  <2> QED
    BY <2>1, <2>2, <2>3
<1>4. \E f : Is(f, n)
  BY <1>3
<1>5. Is(result, n)
  <2> HIDE DEF Is
  <2> QED
    BY <1>4, Zenon
<1>6. Restored(t) = result[n]
  BY Zenon DEF Restored
<1>7. \A i \in 0 .. n : result[i] = At(result, i)
  <2> HIDE DEF result, At, n
  <2> QED
    BY <1>5
<1> HIDE DEF result, Step, Is
<1>8. result[0] = [copies |-> <<>>, next |-> nextId, commands |-> <<>>] /\ \A i \in 1 .. n : result[i] = Step(i, result[i - 1])
  BY <1>7
<1> QED
  BY <1>6, <1>8, Zenon DEF Step

(* A collection made by a handler is the last below its parent.            *)
LEMMA Created ==
  ASSUME NEW s, NEW next \in Nat, Coherent(s, next), NEW project, NEW parent, NEW name, NEW held,
         held = None \/ IsReq(held), Allowed(s, CreateCommand(next, project, parent, name), held)
  PROVE  LET t == After(s, CreateCommand(next, project, parent, name), held) IN
         /\ Coherent(t, next + 1) /\ t.reqs = s.reqs /\ t.projects = s.projects
         /\ DOMAIN t.colls = DOMAIN s.colls \union {next} /\ next \notin DOMAIN s.colls
         /\ \A c \in DOMAIN s.colls : t.colls[c] = s.colls[c] /\ Path(t, c) = Path(s, c) /\ Chain(t, c) = Chain(s, c)
         /\ t.colls[next].project = project /\ t.colls[next].parent = parent /\ t.colls[next].name = name
         /\ parent = None => Path(t, next) = <<name>> /\ Chain(t, next) = {next}
         /\ parent # None => /\ parent \in DOMAIN s.colls
                             /\ Path(t, next) = Append(Path(s, parent), name)
                             /\ Chain(t, next) = Chain(s, parent) \union {next}
         /\ \A d \in Children(s, project, parent) : s.colls[d].order < t.colls[next].order
<1> DEFINE cmd == CreateCommand(next, project, parent, name)
           t == After(s, cmd, held)
<1>1. /\ cmd.kind = "createCollection" /\ cmd.id = next /\ cmd.project = project
      /\ cmd.parent = parent /\ cmd.name = name
  BY DEF CreateCommand
<1> HIDE DEF cmd
<1>2. IsForest(s.projects, s.colls) /\ Coherent(s, next + 1) /\ next \notin DOMAIN s.colls
  <2>1. Coherent(s, next + 1)
    BY CoherentMore
  <2>2. \A c \in DOMAIN s.colls : c < next
    BY DEF Coherent
  <2>3. IsForest(s.projects, s.colls)
    BY DEF Coherent, Sane
  <2> QED
    BY <2>1, <2>2, <2>3
<1>3. Fits(cmd, s, next + 1)
  BY <1>1, <1>2 DEF Fits
<1>4. Allowed(s, cmd, held)
  BY DEF cmd
<1>5. Coherent(t, next + 1)
  BY <1>2, <1>3, <1>4, AfterCoherent
<1>6. t = Changed(s, s.projects, CreateCollection(s, cmd), s.reqs)
  BY <1>1 DEF After
<1>7. PICK order \in Nat :
         /\ CreateCollection(s, cmd) = With(s.colls, next, Row(project, parent, order, name))
         /\ \A d \in Children(s, project, parent) : s.colls[d].order < order
  BY <1>1, <1>2, NextOrder
<1>8. t.projects = s.projects /\ t.reqs = s.reqs /\ t.colls = With(s.colls, next, Row(project, parent, order, name))
  BY <1>6, <1>7, ChangedFields
<1> HIDE DEF t
<1>9. /\ DOMAIN t.colls = DOMAIN s.colls \union {next} /\ t.colls[next] = Row(project, parent, order, name)
      /\ \A c \in DOMAIN s.colls : t.colls[c] = s.colls[c]
  BY <1>2, <1>8 DEF With
<1>10. /\ t.colls[next].project = project /\ t.colls[next].parent = parent /\ t.colls[next].name = name
       /\ t.colls[next].order = order
  BY <1>9 DEF Row
<1>11. IsForest(t.projects, t.colls)
  BY <1>5 DEF Coherent, Sane
<1>12. \A c \in DOMAIN s.colls : Path(t, c) = Path(s, c) /\ Chain(t, c) = Chain(s, c)
  <2>1. \A c \in DOMAIN s.colls : c \in DOMAIN t.colls /\ t.colls[c] = s.colls[c]
    BY <1>9
  <2>2. IsForest(s.projects, s.colls)
    BY <1>2
  <2> QED
    BY <1>11, <2>1, <2>2, SameAbove
<1>13. parent = None => Path(t, next) = <<name>> /\ Chain(t, next) = {next}
  <2>1. next \in DOMAIN t.colls
    BY <1>9
  <2>2. t.colls[next].parent = None => Path(t, next) = <<t.colls[next].name>>
    BY <1>11, <2>1, PathStep
  <2>3. t.colls[next].parent = None => Chain(t, next) = {next}
    BY <1>11, <2>1, ChainStep
  <2> QED
    BY <1>10, <2>2, <2>3
<1>14. parent # None => parent \in DOMAIN s.colls
  BY <1>1, <1>4 DEF Allowed
<1>15. ASSUME parent # None
       PROVE  Path(t, next) = Append(Path(s, parent), name) /\ Chain(t, next) = Chain(s, parent) \union {next}
  <2>1. Path(t, next) = Append(Path(t, t.colls[next].parent), t.colls[next].name)
    BY <1>9, <1>10, <1>11, <1>15, PathStep
  <2>2. Chain(t, next) = Chain(t, t.colls[next].parent) \union {next}
    BY <1>9, <1>10, <1>11, <1>15, ChainStep
  <2> QED
    BY <1>10, <1>12, <1>14, <1>15, <2>1, <2>2
<1> QED
  BY <1>2, <1>5, <1>7, <1>8, <1>9, <1>10, <1>12, <1>13, <1>14, <1>15 DEF t, cmd

(* An envelope is saved under its id and changes no collection.            *)
LEMMA SavedRows ==
  ASSUME NEW s, NEW bound \in Nat, Coherent(s, bound), NEW held, held = None \/ IsReq(held),
         NEW cmd, cmd.kind = "saveEnvelope", cmd.id \in Nat, cmd.id < bound, IsReq(cmd.row), Allowed(s, cmd, held)
  PROVE  LET t == After(s, cmd, held) IN
         /\ Coherent(t, bound) /\ t.colls = s.colls /\ t.reqs = With(s.reqs, cmd.id, cmd.row) /\ t.projects = s.projects
         /\ cmd.row.coll \in DOMAIN s.colls
<1>2. Fits(cmd, s, bound)
  BY DEF Fits
<1>3. After(s, cmd, held) = Changed(s, s.projects, s.colls, With(s.reqs, cmd.id, cmd.row))
  BY DEF After, Saved
<1>4. cmd.row.coll \in DOMAIN s.colls
  BY DEF Allowed
<1> QED
  BY <1>2, <1>3, <1>4, AfterCoherent, ChangedFields

(* The commands of a restore so far, and what they make of the store.      *)
Regrown(at, done) ==
    /\ Coherent(at.store, done.next) /\ (at.held = None \/ IsReq(at.held))
    /\ \A c \in DOMAIN store.colls : c \in DOMAIN at.store.colls /\ at.store.colls[c] = store.colls[c]
    /\ \A c \in DOMAIN done.copies : /\ done.copies[c] \in DOMAIN at.store.colls
                                     /\ Path(at.store, done.copies[c]) = Path(snapshot, c)
Restoring(done, base) ==
    /\ Numbered(done.commands, nextId, done.next) /\ done.next = nextId + Len(done.commands)
    /\ DOMAIN done.copies \subseteq DOMAIN snapshot.colls
    /\ \A run : IsRun(run, base, None, done.commands) => Regrown(run[Len(done.commands)], done)

(* A round restores a collection whose parent, if it has one, is restored. *)
LEMMA RoundRestores ==
  ASSUME NEW base, Sane(snapshot), NEW c \in DOMAIN snapshot.colls, NEW done, Restoring(done, base)
  PROVE  LET next == RestoreRound(store, done, c) IN
         /\ Restoring(next, base) /\ DOMAIN done.copies \subseteq DOMAIN next.copies
         /\ snapshot.colls[c].parent \in DOMAIN done.copies \union {None} => c \in DOMAIN next.copies
<1> DEFINE row == snapshot.colls[c]
           parent == ParentOfCopy(done.copies, row.parent)
           found == {d \in FolderIn(store, parent, row.name) : store.colls[d].project = row.project}
           id == IF found = {} THEN done.next ELSE Min(found)
           create == CreateCommand(id, row.project, parent, row.name)
           next == RestoreRound(store, done, c)
<1>1. CASE c \in DOMAIN done.copies \/ row.parent \notin DOMAIN done.copies \union {None}
  <2>1. next = done
    BY <1>1 DEF RestoreRound
  <2> QED
    BY <1>1, <2>1
<1>2. CASE ~(c \in DOMAIN done.copies \/ row.parent \notin DOMAIN done.copies \union {None})
  <2>1. next = [copies |-> With(done.copies, c, id),
                next |-> IF found = {} THEN done.next + 1 ELSE done.next,
                commands |-> IF found # {} THEN done.commands ELSE Append(done.commands, create)]
    BY <1>2 DEF RestoreRound
  <2>2. /\ next.copies = With(done.copies, c, id)
        /\ next.next = IF found = {} THEN done.next + 1 ELSE done.next
        /\ next.commands = IF found # {} THEN done.commands ELSE Append(done.commands, create)
    BY <2>1
  <2>3. /\ DOMAIN next.copies = DOMAIN done.copies \union {c} /\ next.copies[c] = id
        /\ \A d \in DOMAIN done.copies : next.copies[d] = done.copies[d]
    BY <1>2, <2>2 DEF With
  <2>4. IsForest(snapshot.projects, snapshot.colls)
    BY DEF Sane
  <2>5. /\ Numbered(done.commands, nextId, done.next) /\ done.next = nextId + Len(done.commands)
        /\ DOMAIN done.copies \subseteq DOMAIN snapshot.colls
        /\ \A run : IsRun(run, base, None, done.commands) => Regrown(run[Len(done.commands)], done)
    BY DEF Restoring
  <2>6. done.next \in Nat /\ IsSeq(done.commands)
    BY <2>5 DEF Numbered
  <2>7. ASSUME NEW at, Regrown(at, done)
        PROVE  /\ row.parent = None => parent = None /\ Path(snapshot, c) = <<row.name>>
               /\ row.parent # None => /\ parent # None /\ parent \in DOMAIN at.store.colls
                                       /\ Path(snapshot, c) = Append(Path(at.store, parent), row.name)
    <3>1. row.parent = None => Path(snapshot, c) = <<row.name>>
      BY <2>4, PathStep
    <3>2. ASSUME row.parent # None
          PROVE  /\ parent # None /\ parent \in DOMAIN at.store.colls
                 /\ Path(snapshot, c) = Append(Path(at.store, parent), row.name)
      <4>1. parent = done.copies[row.parent] /\ row.parent \in DOMAIN done.copies
        BY <1>2, <3>2 DEF ParentOfCopy
      <4>2. parent \in DOMAIN at.store.colls /\ Path(at.store, parent) = Path(snapshot, row.parent)
        BY <2>7, <4>1 DEF Regrown
      <4>3. DOMAIN at.store.colls \subseteq Nat
        BY <2>7 DEF Regrown, Coherent, Sane, IsForest
      <4>4. Path(snapshot, c) = Append(Path(snapshot, row.parent), row.name)
        BY <2>4, <3>2, PathStep
      <4> QED
        BY <4>2, <4>3, <4>4, NoneAssumption
    <3> QED
      BY <3>1, <3>2 DEF ParentOfCopy
  <2> HIDE DEF next
  <2>8. ASSUME found # {} PROVE Restoring(next, base)
    <3>1. next.commands = done.commands /\ next.next = done.next
      BY <2>2, <2>8
    <3>2. ASSUME NEW run, IsRun(run, base, None, next.commands) PROVE Regrown(run[Len(next.commands)], next)
      <4> DEFINE at == run[Len(done.commands)]
      <4>1. Regrown(at, done)
        BY <2>5, <3>1, <3>2
      <4> HIDE DEF at
      <4>2. found \in SUBSET Nat
        <5>1. \A d \in found : d \in DOMAIN store.colls /\ d \in DOMAIN at.store.colls
          BY <4>1 DEF Regrown, FolderIn
        <5>2. DOMAIN at.store.colls \subseteq Nat
          BY <4>1 DEF Regrown, Coherent, Sane, IsForest
        <5> QED
          BY <5>1, <5>2
      <4>3. id \in found
        BY <2>8, <4>2, LeastIsIn
      <4>4. id \in DOMAIN store.colls /\ store.colls[id].parent = parent /\ store.colls[id].name = row.name
        BY <4>3 DEF FolderIn
      <4>5. id \in DOMAIN at.store.colls /\ at.store.colls[id].parent = parent /\ at.store.colls[id].name = row.name
        BY <4>1, <4>4 DEF Regrown
      <4>6. IsForest(at.store.projects, at.store.colls)
        BY <4>1 DEF Regrown, Coherent, Sane
      <4> HIDE DEF id, found, parent
      <4>7. Path(at.store, id) = Path(snapshot, c)
        <5>1. CASE row.parent = None
          BY <2>7, <4>1, <4>5, <4>6, <5>1, PathStep
        <5>2. CASE row.parent # None
          <6>1. parent # None /\ Path(snapshot, c) = Append(Path(at.store, parent), row.name)
            BY <2>7, <4>1, <5>2
          <6>2. Path(at.store, id) = Append(Path(at.store, at.store.colls[id].parent), at.store.colls[id].name)
            BY <4>5, <4>6, <6>1, PathStep
          <6> QED
            BY <4>5, <6>1, <6>2
        <5> QED
          BY <5>1, <5>2
      <4>8. Regrown(at, next)
        BY <2>3, <3>1, <4>1, <4>5, <4>7 DEF Regrown
      <4> QED
        BY <3>1, <4>8 DEF at
    <3> QED
      BY <2>3, <2>5, <3>1, <3>2 DEF Restoring
  <2>9. ASSUME found = {} PROVE Restoring(next, base)
    <3>1. next.commands = Append(done.commands, create) /\ next.next = done.next + 1 /\ id = done.next
      BY <2>2, <2>9
    <3>2. create.kind = "createCollection" /\ create.id = done.next
      BY <3>1 DEF CreateCommand
    <3> HIDE DEF id, found, parent
    <3>3. create = CreateCommand(done.next, row.project, parent, row.name)
      BY <3>1
    <3> HIDE DEF create
    <3>4. Numbered(next.commands, nextId, next.next)
      <4>1. Plain(create, done.next + 1)
        BY <3>2 DEF Plain
      <4>2. done.next + 1 \in Nat /\ done.next <= done.next + 1 /\ done.next < done.next + 1
        BY <2>6
      <4> QED
        BY <2>5, <2>6, <3>1, <3>2, <4>1, <4>2, NumberedAppend
    <3>a. next.next = nextId + Len(next.commands)
      <4>1. Len(next.commands) = Len(done.commands) + 1 /\ Len(done.commands) \in Nat /\ nextId \in Nat
        BY <2>5, <2>6, <3>1, Appending DEF Numbered
      <4> QED
        BY <2>5, <3>1, <4>1
    <3>5. ASSUME NEW run, IsRun(run, base, None, next.commands) PROVE Regrown(run[Len(next.commands)], next)
      <4> DEFINE at == run[Len(done.commands)]
                 after == run[Len(next.commands)]
      <4>1. /\ IsRun(run, base, None, done.commands) /\ Len(next.commands) = Len(done.commands) + 1
            /\ Allowed(at.store, create, at.held) /\ after = Ran(at, create)
        BY <2>6, <3>1, <3>5, RunAppend
      <4>2. Regrown(at, done)
        BY <2>5, <4>1
      <4> HIDE DEF at, after
      <4>3. after.store = After(at.store, create, at.held) /\ after.held = at.held
        BY <3>2, <4>1 DEF Ran
      <4>4. Coherent(at.store, done.next) /\ (at.held = None \/ IsReq(at.held))
        BY <4>2 DEF Regrown
      <4>5. /\ Coherent(after.store, done.next + 1)
            /\ DOMAIN after.store.colls = DOMAIN at.store.colls \union {done.next}
            /\ \A d \in DOMAIN at.store.colls : after.store.colls[d] = at.store.colls[d] /\ Path(after.store, d) = Path(at.store, d)
            /\ parent = None => Path(after.store, done.next) = <<row.name>>
            /\ parent # None => Path(after.store, done.next) = Append(Path(at.store, parent), row.name)
        BY <2>6, <3>3, <4>1, <4>3, <4>4, Created
      <4>6. Path(after.store, id) = Path(snapshot, c) /\ id \in DOMAIN after.store.colls
        BY <2>7, <3>1, <4>2, <4>5
      <4>7. Regrown(after, next)
        BY <2>3, <3>1, <4>2, <4>3, <4>5, <4>6 DEF Regrown
      <4> QED
        BY <4>7 DEF after
    <3> QED
      BY <2>3, <2>5, <3>a, <3>4, <3>5 DEF Restoring
  <2> QED
    BY <2>3, <2>8, <2>9 DEF next
<1> QED
  BY <1>1, <1>2

(* Counting up to n.                                                       *)
LEMMA UpTo ==
  ASSUME NEW n \in Nat, NEW G, 0 \in G, \A i \in 0 .. n - 1 : i \in G => i + 1 \in G
  PROVE  \A i \in 0 .. n : i \in G
<1> DEFINE Bad == {i \in Nat : i <= n /\ i \notin G}
<1> SUFFICES ASSUME Bad # {} PROVE FALSE
  OBVIOUS
<1>1. PICK i \in Bad : \A j \in Bad : i <= j
  BY LeastId
<1>2. i # 0 /\ i - 1 \in 0 .. n - 1 /\ i - 1 + 1 = i /\ i - 1 \in G
  BY <1>1
<1> QED
  BY <1>1, <1>2

(* So does a pass, for every collection.                                   *)
LEMMA PassRestores ==
  ASSUME NEW base, Sane(snapshot), NEW done, Restoring(done, base)
  PROVE  LET next == RestorePass(store, LastFirst(snapshot), done) IN
         /\ Restoring(next, base) /\ DOMAIN done.copies \subseteq DOMAIN next.copies
         /\ \A c \in DOMAIN snapshot.colls :
               snapshot.colls[c].parent \in DOMAIN done.copies \union {None} => c \in DOMAIN next.copies
<1> DEFINE list == LastFirst(snapshot)
           n == Len(list)
           Ready1(c) == snapshot.colls[c].parent \in DOMAIN done.copies \union {None}
<1>1. /\ n \in Nat /\ \A i \in 1 .. n : list[i] \in DOMAIN snapshot.colls
      /\ \A c \in DOMAIN snapshot.colls : \E i \in 1 .. n : list[i] = c
  BY AllListed DEF Sane
<1>2. PICK after : /\ after[0] = done
                   /\ \A i \in 1 .. n : after[i] = RestoreRound(store, after[i - 1], list[i])
                   /\ RestorePass(store, list, done) = after[n]
  <2> HIDE DEF list
  <2>1. Len(list) \in Nat
    BY <1>1
  <2> QED
    BY <2>1, PassSteps
<1> HIDE DEF list, n
<1> DEFINE Good(i) == /\ Restoring(after[i], base) /\ DOMAIN done.copies \subseteq DOMAIN after[i].copies
                      /\ \A j \in 1 .. i : Ready1(list[j]) => list[j] \in DOMAIN after[i].copies
           G == {i \in 0 .. n : Good(i)}
<1>3. 0 \in G
  BY <1>1, <1>2
<1>4. ASSUME NEW i \in 0 .. n - 1, i \in G PROVE i + 1 \in G
  <2>1. i + 1 \in 1 .. n /\ i + 1 - 1 = i /\ i + 1 \in 0 .. n
    BY <1>1
  <2>2. Good(i) /\ after[i + 1] = RestoreRound(store, after[i], list[i + 1]) /\ list[i + 1] \in DOMAIN snapshot.colls
    BY <1>1, <1>2, <1>4, <2>1
  <2>3. /\ Restoring(after[i + 1], base) /\ DOMAIN after[i].copies \subseteq DOMAIN after[i + 1].copies
        /\ snapshot.colls[list[i + 1]].parent \in DOMAIN after[i].copies \union {None}
              => list[i + 1] \in DOMAIN after[i + 1].copies
    BY <2>2, RoundRestores
  <2>4. \A j \in 1 .. i + 1 : Ready1(list[j]) => list[j] \in DOMAIN after[i + 1].copies
    <3> SUFFICES ASSUME NEW j \in 1 .. i + 1, Ready1(list[j]) PROVE list[j] \in DOMAIN after[i + 1].copies
      OBVIOUS
    <3>1. CASE j = i + 1
      BY <2>2, <2>3, <3>1
    <3>2. CASE j \in 1 .. i
      BY <2>2, <2>3, <3>2
    <3> QED
      BY <3>1, <3>2
  <2> QED
    BY <2>1, <2>2, <2>3, <2>4
<1>5. Good(n)
  <2> HIDE DEF Good
  <2>1. n \in 0 .. n
    BY <1>1
  <2> QED
    BY <1>1, <1>3, <1>4, <2>1, UpTo
<1> QED
  BY <1>1, <1>2, <1>5 DEF list

(* After as many passes as there are collections all are restored.         *)
LEMMA AllRestored ==
  ASSUME NEW base, Coherent(base, nextId), nextId \in Nat, base.colls = store.colls, Sane(snapshot)
  PROVE  LET done == Restored(store) IN
         Restoring(done, base) /\ \A c \in DOMAIN snapshot.colls : c \in DOMAIN done.copies
<1> DEFINE list == LastFirst(snapshot)
           n == Len(list)
           first == [copies |-> <<>>, next |-> nextId, commands |-> <<>>]
           Size(c) == Cardinality(Chain(snapshot, c))
<1>0. IsForest(snapshot.projects, snapshot.colls)
  BY DEF Sane
<1>1. n \in Nat /\ n = Cardinality(DOMAIN snapshot.colls)
  BY <1>0, AllListed
<1>2. PICK after : /\ after[0] = first
                   /\ \A i \in 1 .. n : after[i] = RestorePass(store, list, after[i - 1])
                   /\ Restored(store) = after[n]
  BY <1>1, RestoreSteps
<1>3. Restoring(first, base)
  <2>1. first.copies = <<>> /\ first.next = nextId /\ first.commands = <<>>
    OBVIOUS
  <2>2. IsSeq(<<>>) /\ Len(<<>>) = 0 /\ DOMAIN <<>> = {}
    <3>1. <<>> \in Seq(Nat)
      OBVIOUS
    <3>2. IsSeq(<<>>)
      BY <3>1, SeqOver
    <3> QED
      BY <3>2
  <2> HIDE DEF first
  <2>3. Numbered(first.commands, nextId, first.next)
    BY <2>1, <2>2 DEF Numbered
  <2>4. ASSUME NEW run, IsRun(run, base, None, first.commands) PROVE Regrown(run[Len(first.commands)], first)
    <3>1. run[0] = [store |-> base, held |-> None]
      BY <2>4 DEF IsRun
    <3> QED
      BY <2>1, <2>2, <3>1 DEF Regrown
  <2>5. DOMAIN first.copies = {} /\ first.next = nextId + Len(first.commands)
    BY <2>1, <2>2
  <2> QED
    BY <2>3, <2>4, <2>5 DEF Restoring
<1> HIDE DEF first
<1> DEFINE Good(i) == /\ Restoring(after[i], base)
                      /\ \A c \in DOMAIN snapshot.colls : Size(c) <= i => c \in DOMAIN after[i].copies
           G == {i \in 0 .. n : Good(i)}
<1>4. \A c \in DOMAIN snapshot.colls : Size(c) \in Nat \ {0} /\ Size(c) <= n
  <2> SUFFICES ASSUME NEW c \in DOMAIN snapshot.colls PROVE Size(c) \in Nat \ {0} /\ Size(c) <= n
    OBVIOUS
  <2>1. Chain(snapshot, c) \subseteq DOMAIN snapshot.colls /\ IsFiniteSet(DOMAIN snapshot.colls)
    BY <1>0, ChainFacts DEF IsForest
  <2>2. Size(c) \in Nat \ {0}
    BY <1>0, ChainStep
  <2> HIDE DEF n
  <2> QED
    BY <1>1, <2>1, <2>2, FS_Subset
<1> HIDE DEF list, n
<1>5. 0 \in G
  <2>1. 0 \in 0 .. n /\ \A c \in DOMAIN snapshot.colls : ~(Size(c) <= 0)
    BY <1>1, <1>4
  <2> QED
    BY <1>2, <1>3, <2>1
<1>6. ASSUME NEW i \in 0 .. n - 1, i \in G PROVE i + 1 \in G
  <2>1. i + 1 \in 1 .. n /\ i + 1 - 1 = i /\ i + 1 \in 0 .. n
    BY <1>1
  <2>2. Good(i) /\ after[i + 1] = RestorePass(store, list, after[i])
    BY <1>2, <1>6, <2>1
  <2>3. /\ Restoring(after[i + 1], base) /\ DOMAIN after[i].copies \subseteq DOMAIN after[i + 1].copies
        /\ \A c \in DOMAIN snapshot.colls :
              snapshot.colls[c].parent \in DOMAIN after[i].copies \union {None} => c \in DOMAIN after[i + 1].copies
    BY <2>2, PassRestores DEF list
  <2>4. ASSUME NEW c \in DOMAIN snapshot.colls, Size(c) <= i + 1 PROVE c \in DOMAIN after[i + 1].copies
    <3>1. CASE snapshot.colls[c].parent = None
      BY <2>3, <3>1
    <3>2. CASE snapshot.colls[c].parent # None
      <4> DEFINE p == snapshot.colls[c].parent
      <4>1. p \in DOMAIN snapshot.colls
        BY <1>0, <3>2 DEF IsForest
      <4>2. Size(c) = Size(p) + 1
        BY <1>0, <3>2, ChainStep
      <4>3. Size(p) <= i
        <5> HIDE DEF Size, p
        <5> QED
          BY <1>4, <2>4, <4>1, <4>2
      <4>4. p \in DOMAIN after[i].copies
        BY <2>2, <4>1, <4>3
      <4> QED
        BY <2>3, <4>4
    <3> QED
      BY <3>1, <3>2
  <2> QED
    BY <2>1, <2>3, <2>4
<1>7. Good(n)
  <2> HIDE DEF Good
  <2>1. n \in 0 .. n
    BY <1>1
  <2> QED
    BY <1>1, <1>5, <1>6, <2>1, UpTo
<1> QED
  BY <1>2, <1>4, <1>7

(* Making projects touches neither collections nor requests.               *)
LEMMA ProjectsRun ==
  ASSUME NEW bound \in Nat, NEW s, Coherent(s, bound), NEW cmds, IsSeq(cmds),
         \A i \in 1 .. Len(cmds) : cmds[i].kind = "createProject",
         NEW run, IsRun(run, s, None, cmds)
  PROVE  LET at == run[Len(cmds)] IN
         /\ Coherent(at.store, bound) /\ at.store.colls = s.colls /\ at.store.reqs = s.reqs /\ at.held = None
         /\ s.projects \subseteq at.store.projects
<1> DEFINE Good(at) == /\ Coherent(at.store, bound) /\ at.store.colls = s.colls /\ at.store.reqs = s.reqs /\ at.held = None
                       /\ s.projects \subseteq at.store.projects
           n == Len(cmds)
           G == {i \in 0 .. n : Good(run[i])}
<1>1. n \in Nat
  BY Appending
<1>2. /\ run[0] = [store |-> s, held |-> None]
      /\ \A i \in 1 .. n : Allowed(run[i - 1].store, cmds[i], run[i - 1].held) /\ run[i] = Ran(run[i - 1], cmds[i])
  BY DEF IsRun
<1>3. ASSUME NEW at, Good(at), NEW cmd, cmd.kind = "createProject", Allowed(at.store, cmd, at.held)
      PROVE  Good(Ran(at, cmd))
  <2>1. Ran(at, cmd).store = After(at.store, cmd, at.held) /\ Ran(at, cmd).held = None
    BY <1>3 DEF Ran
  <2>2. After(at.store, cmd, at.held) = Changed(at.store, at.store.projects \union {cmd.project}, at.store.colls, at.store.reqs)
    BY <1>3 DEF After
  <2>3. Fits(cmd, at.store, bound)
    BY <1>3 DEF Fits
  <2>4. Coherent(After(at.store, cmd, at.held), bound)
    BY <1>3, <2>3, AfterCoherent
  <2> QED
    BY <1>3, <2>1, <2>2, <2>4, ChangedFields
<1> HIDE DEF Good, n
<1>4. 0 \in G
  <2>1. Good(run[0])
    BY <1>2 DEF Good
  <2> QED
    BY <1>1, <2>1
<1>5. ASSUME NEW i \in 0 .. n - 1, i \in G PROVE i + 1 \in G
  <2>1. i + 1 \in 1 .. n /\ i + 1 - 1 = i /\ i + 1 \in 0 .. n
    BY <1>1
  <2>2. /\ Good(run[i]) /\ Allowed(run[i].store, cmds[i + 1], run[i].held) /\ run[i + 1] = Ran(run[i], cmds[i + 1])
        /\ cmds[i + 1].kind = "createProject"
    BY <1>2, <1>5, <2>1 DEF n
  <2>3. Good(run[i + 1])
    BY <1>3, <2>2
  <2> QED
    BY <2>1, <2>3
<1>6. Good(run[n])
  <2>1. n \in 0 .. n
    BY <1>1
  <2> QED
    BY <1>1, <1>4, <1>5, <2>1, UpTo
<1> QED
  BY <1>6 DEF Good, n

(* Saving envelopes, each under an id of its own.                          *)
Envelopes(cmds, bound) ==
    /\ IsSeq(cmds)
    /\ \A i \in 1 .. Len(cmds) : /\ cmds[i].kind = "saveEnvelope"
                                 /\ cmds[i].id \in Nat /\ cmds[i].id < bound /\ IsReq(cmds[i].row)
    /\ \A i, j \in 1 .. Len(cmds) : cmds[i].id = cmds[j].id => i = j

(* What saving a list of envelopes makes of the store.                     *)
LEMMA SavesRun ==
  ASSUME NEW bound \in Nat, NEW s, Coherent(s, bound), NEW held, held = None \/ IsReq(held), NEW cmds, Envelopes(cmds, bound),
         NEW run, IsRun(run, s, held, cmds)
  PROVE  LET at == run[Len(cmds)] IN
         /\ Coherent(at.store, bound) /\ at.store.colls = s.colls
         /\ \A i \in 1 .. Len(cmds) : /\ cmds[i].id \in DOMAIN at.store.reqs
                                      /\ at.store.reqs[cmds[i].id] = cmds[i].row
<1> DEFINE Good(at, k) == /\ Coherent(at.store, bound) /\ at.store.colls = s.colls /\ at.held = held
                          /\ \A i \in 1 .. k : /\ cmds[i].id \in DOMAIN at.store.reqs
                                               /\ at.store.reqs[cmds[i].id] = cmds[i].row
           n == Len(cmds)
           G == {i \in 0 .. n : Good(run[i], i)}
<1>1. n \in Nat
  BY Appending DEF Envelopes
<1>2. /\ run[0] = [store |-> s, held |-> held]
      /\ \A i \in 1 .. n : Allowed(run[i - 1].store, cmds[i], run[i - 1].held) /\ run[i] = Ran(run[i - 1], cmds[i])
  BY DEF IsRun
<1> HIDE DEF n
<1>3. 0 \in G
  BY <1>1, <1>2
<1>4. ASSUME NEW k \in 0 .. n - 1, k \in G PROVE k + 1 \in G
  <2> DEFINE at == run[k]
             cmd == cmds[k + 1]
             next == run[k + 1]
  <2>1. k + 1 \in 1 .. n /\ k + 1 - 1 = k /\ k + 1 \in 0 .. n
    BY <1>1
  <2>2. Good(at, k) /\ Allowed(at.store, cmd, at.held) /\ next = Ran(at, cmd)
    BY <1>2, <1>4, <2>1
  <2>3. cmd.kind = "saveEnvelope" /\ cmd.id \in Nat /\ cmd.id < bound /\ IsReq(cmd.row)
    BY <2>1 DEF n, Envelopes
  <2>4. \A i \in 1 .. k : cmds[i].id # cmd.id
    BY <1>1, <2>1 DEF n, Envelopes
  <2> HIDE DEF at, cmd, next
  <2>5. next.store = After(at.store, cmd, at.held) /\ next.held = at.held
    BY <2>2, <2>3 DEF Ran
  <2>6. Coherent(next.store, bound) /\ next.store.colls = s.colls /\ next.store.reqs = With(at.store.reqs, cmd.id, cmd.row)
    BY <2>2, <2>3, <2>5, SavedRows
  <2>7. /\ cmd.id \in DOMAIN next.store.reqs /\ next.store.reqs[cmd.id] = cmd.row
        /\ \A r \in DOMAIN at.store.reqs : r # cmd.id => r \in DOMAIN next.store.reqs /\ next.store.reqs[r] = at.store.reqs[r]
    BY <2>6 DEF With
  <2>8. ASSUME NEW i \in 1 .. k + 1
        PROVE  cmds[i].id \in DOMAIN next.store.reqs /\ next.store.reqs[cmds[i].id] = cmds[i].row
    <3>1. CASE i = k + 1
      BY <2>7, <3>1 DEF cmd
    <3>2. CASE i \in 1 .. k
      BY <2>2, <2>4, <2>7, <3>2
    <3> QED
      BY <3>1, <3>2
  <2>9. Good(next, k + 1)
    BY <2>2, <2>5, <2>6, <2>8
  <2> QED
    BY <2>1, <2>9 DEF next
<1>5. Good(run[n], n)
  <2> HIDE DEF Good
  <2>1. n \in G
    <3> HIDE DEF G
    <3>1. n \in 0 .. n
      BY <1>1
    <3> QED
      BY <1>1, <1>3, <1>4, <3>1, UpTo
  <2> QED
    BY <2>1
<1> QED
  BY <1>5 DEF n

(* The refresh at the end changes nothing.                                 *)
LEMMA RefreshEnds ==
  ASSUME NEW work, NEW s, NEW held, NEW body, IsSeq(body),
         \A run : IsRun(run, s, held, body) => Promised(work, run[Len(body)].store)
  PROVE  Leads(work, s, held, Append(body, Refresh)) /\ Append(body, Refresh) = body \o <<Refresh>>
<1> DEFINE cmds == Append(body, Refresh)
<1>1. ASSUME NEW run, IsRun(run, s, held, cmds) PROVE Promised(work, run[Len(cmds)].store)
  <2>1. IsRun(run, s, held, body) /\ Len(cmds) = Len(body) + 1 /\ run[Len(body) + 1] = Ran(run[Len(body)], Refresh)
    BY <1>1, RunAppend
  <2>2. Ran(run[Len(body)], Refresh).store = run[Len(body)].store
    BY DEF Ran, After, Refresh
  <2> QED
    BY <2>1, <2>2
<1>2. cmds = body \o <<Refresh>>
  <2> DEFINE T == {body[i] : i \in DOMAIN body}
  <2>1. body \in Seq(T)
    BY DEF IsSeq
  <2> HIDE DEF T
  <2>2. body \in Seq(T \union {Refresh})
    BY <2>1
  <2> QED
    BY <2>2, AppendIsConcat
<1> QED
  BY <1>1, <1>2 DEF Leads

(* What a restore's commands make of any tree that is sound.               *)
LEMMA RestoreForetold ==
  ASSUME nextId \in Nat, Coherent(store, nextId), Coherent(snapshot, nextId)
  PROVE  LET colls == Restored(store)
             missing == SetToSeq(snapshot.projects \ store.projects)
             reqs == SetToSeq(DOMAIN snapshot.reqs)
             saves == [i \in DOMAIN reqs |->
                          [kind |-> "saveEnvelope", id |-> reqs[i],
                           row |-> [snapshot.reqs[reqs[i]] EXCEPT !.coll = colls.copies[@]]]]
             body == [i \in DOMAIN missing |-> [kind |-> "createProject", project |-> missing[i]]]
                        \o colls.commands \o saves
             work == [kind |-> "restore", snapshot |-> snapshot, copies |-> colls.copies]
         IN  /\ Len(colls.commands) \in Nat /\ Numbered(body, nextId, nextId + Len(colls.commands))
             /\ Leads(work, store, None, body \o <<Refresh>>)
<1> DEFINE colls == Restored(store)
           missing == SetToSeq(snapshot.projects \ store.projects)
           reqs == SetToSeq(DOMAIN snapshot.reqs)
           row(r) == [snapshot.reqs[r] EXCEPT !.coll = colls.copies[@]]
           save(i) == [kind |-> "saveEnvelope", id |-> reqs[i], row |-> row(reqs[i])]
           saves == [i \in DOMAIN reqs |-> save(i)]
           project(i) == [kind |-> "createProject", project |-> missing[i]]
           projects == [i \in DOMAIN missing |-> project(i)]
           body == projects \o colls.commands \o saves
           work == [kind |-> "restore", snapshot |-> snapshot, copies |-> colls.copies]
           m == nextId + Len(colls.commands)
<1>1. /\ Sane(snapshot) /\ Sane(store) /\ IsForest(snapshot.projects, snapshot.colls) /\ Filed(snapshot.colls, snapshot.reqs)
      /\ \A r \in DOMAIN snapshot.reqs : r \in Nat /\ r < nextId
  BY DEF Coherent, Sane, Filed
<1>2. /\ Len(missing) \in Nat /\ DOMAIN missing = 1 .. Len(missing)
      /\ Len(reqs) \in Nat /\ DOMAIN reqs = 1 .. Len(reqs)
      /\ \A i \in 1 .. Len(reqs) : reqs[i] \in DOMAIN snapshot.reqs
      /\ \A r \in DOMAIN snapshot.reqs : \E i \in 1 .. Len(reqs) : reqs[i] = r
      /\ \A i, j \in 1 .. Len(reqs) : reqs[i] = reqs[j] => i = j
  <2>1. IsFiniteSet(DOMAIN snapshot.reqs)
    BY <1>1 DEF Filed
  <2>2. IsFiniteSet(snapshot.projects \ store.projects)
    BY <1>1, FS_Subset DEF Sane
  <2>3. Len(missing) \in Nat /\ DOMAIN missing = 1 .. Len(missing)
    BY <2>2, SeqOfSet
  <2> QED
    BY <2>1, <2>3, SeqOfSet
<1>3. ASSUME NEW base, Coherent(base, nextId), base.colls = store.colls
      PROVE  Restoring(colls, base) /\ \A c \in DOMAIN snapshot.colls : c \in DOMAIN colls.copies
  BY <1>1, <1>3, AllRestored
<1>4. Restoring(colls, store)
  BY <1>3
<1>5. Numbered(colls.commands, nextId, m) /\ m = colls.next /\ Len(colls.commands) \in Nat /\ m \in Nat /\ nextId <= m
      /\ IsSeq(colls.commands)
  <2>1. Numbered(colls.commands, nextId, colls.next) /\ m = colls.next
    BY <1>4 DEF Restoring
  <2> HIDE DEF colls, m
  <2> QED
    BY <2>1, Appending DEF Numbered
<1> HIDE DEF m
<1>6. /\ IsSeq(projects) /\ Len(projects) = Len(missing)
      /\ \A i \in 1 .. Len(projects) : projects[i].kind = "createProject"
  <2>1. projects = [i \in 1 .. Len(missing) |-> projects[i]] /\ \A i \in 1 .. Len(missing) : projects[i] = project(i)
    BY <1>2
  <2> HIDE DEF missing, projects
  <2> QED
    BY <1>2, <2>1, SeqOfLength
<1>7. Numbered(projects, nextId, m) /\ \A k \in DOMAIN projects : ~Makes(projects, k)
  <2>1. DOMAIN projects = 1 .. Len(projects)
    BY <1>6, Appending
  <2> HIDE DEF projects
  <2> QED
    BY <1>5, <1>6, <2>1 DEF Numbered, Plain, Makes
<1>8. \A r \in DOMAIN snapshot.reqs : /\ IsReq(row(r)) /\ row(r).coll = colls.copies[snapshot.reqs[r].coll]
                                      /\ row(r).caseOf = snapshot.reqs[r].caseOf
  <2> SUFFICES ASSUME NEW r \in DOMAIN snapshot.reqs
               PROVE  /\ IsReq(row(r)) /\ row(r).coll = colls.copies[snapshot.reqs[r].coll]
                      /\ row(r).caseOf = snapshot.reqs[r].caseOf
    OBVIOUS
  <2>1. IsReq(snapshot.reqs[r])
    BY <1>1 DEF Filed
  <2> HIDE DEF colls
  <2> QED
    BY <2>1 DEF IsReq
<1> HIDE DEF row
<1>9. /\ IsSeq(saves) /\ Len(saves) = Len(reqs) /\ DOMAIN saves = 1 .. Len(reqs)
      /\ \A i \in 1 .. Len(reqs) : /\ saves[i].kind = "saveEnvelope" /\ saves[i].id = reqs[i] /\ saves[i].row = row(reqs[i])
                                   /\ saves[i].id \in Nat /\ saves[i].id < m /\ IsReq(saves[i].row)
  <2>1. /\ saves = [i \in 1 .. Len(reqs) |-> saves[i]] /\ DOMAIN saves = 1 .. Len(reqs)
        /\ \A i \in 1 .. Len(reqs) : saves[i] = save(i) /\ reqs[i] \in DOMAIN snapshot.reqs
    BY <1>2
  <2> HIDE DEF reqs, saves
  <2>2. \A i \in 1 .. Len(reqs) : reqs[i] \in Nat /\ reqs[i] < m
    BY <1>1, <1>5, <2>1
  <2> QED
    BY <1>2, <1>8, <2>1, <2>2, SeqOfLength
<1> HIDE DEF saves
<1>10. Numbered(saves, nextId, m) /\ \A k \in DOMAIN saves : ~Makes(saves, k)
  <2>1. \A k \in DOMAIN saves : ~Makes(saves, k) /\ Plain(saves[k], m)
    BY <1>9 DEF Plain, Makes
  <2> QED
    BY <1>5, <1>9, <2>1 DEF Numbered
<1> HIDE DEF colls, projects
<1>11. Numbered(body, nextId, m) /\ IsSeq(projects \o colls.commands) /\ IsSeq(body)
  <2>1. Numbered(projects \o colls.commands, nextId, m)
    BY <1>5, <1>7, NumberedJoin
  <2>2. Numbered(body, nextId, m)
    BY <1>10, <2>1, NumberedJoin
  <2> QED
    BY <2>1, <2>2 DEF Numbered
<1>12. ASSUME NEW run, IsRun(run, store, None, body) PROVE Promised(work, run[Len(body)].store)
  <2> DEFINE a == projects \o colls.commands
             at == run[Len(projects)]
             mid == run[Len(a)]
             end == run[Len(body)]
  <2>0. body = a \o saves /\ IsSeq(a) /\ a = projects \o colls.commands
    BY <1>11
  <2> HIDE DEF body, a, work, missing, reqs
  <2>1. PICK last : IsRun(run, store, None, a) /\ IsRun(last, mid.store, mid.held, saves) /\ last[Len(saves)] = end
    <3>1. IsRun(run, store, None, a \o saves)
      BY <1>12, <2>0
    <3>2. /\ IsRun(run, store, None, a)
          /\ \E rest : IsRun(rest, run[Len(a)].store, run[Len(a)].held, saves) /\ rest[Len(saves)] = run[Len(a \o saves)]
      <4>1. IsSeq(a) /\ IsSeq(saves)
        BY <1>9, <2>0
      <4> QED
        BY <3>1, <4>1, RunSplit
    <3> QED
      BY <2>0, <3>2
  <2>2. PICK rest : IsRun(run, store, None, projects) /\ IsRun(rest, at.store, at.held, colls.commands)
                    /\ rest[Len(colls.commands)] = mid
    <3>1. IsRun(run, store, None, projects \o colls.commands)
      BY <2>0, <2>1
    <3>2. /\ IsRun(run, store, None, projects)
          /\ \E rest : /\ IsRun(rest, run[Len(projects)].store, run[Len(projects)].held, colls.commands)
                       /\ rest[Len(colls.commands)] = run[Len(projects \o colls.commands)]
      <4>1. IsSeq(projects) /\ IsSeq(colls.commands)
        BY <1>5, <1>6
      <4> QED
        BY <3>1, <4>1, RunSplit
    <3> QED
      BY <2>0, <3>2
  <2>3. Coherent(at.store, nextId) /\ at.store.colls = store.colls /\ at.held = None
    BY <1>6, <2>2, ProjectsRun
  <2> HIDE DEF at, mid, end
  <2>4. Restoring(colls, at.store) /\ \A c \in DOMAIN snapshot.colls : c \in DOMAIN colls.copies
    BY <1>3, <2>3 DEF colls
  <2>5. Regrown(mid, colls)
    BY <2>2, <2>3, <2>4 DEF Restoring
  <2>6. Coherent(mid.store, m) /\ (mid.held = None \/ IsReq(mid.held))
    BY <1>5, <2>5 DEF Regrown
  <2>7. /\ Coherent(end.store, m) /\ end.store.colls = mid.store.colls
        /\ \A i \in 1 .. Len(reqs) : reqs[i] \in DOMAIN end.store.reqs /\ end.store.reqs[reqs[i]] = row(reqs[i])
    <3>1. \A i, j \in 1 .. Len(saves) : saves[i].id = saves[j].id => i = j
      BY <1>2, <1>9
    <3>2. \A i \in 1 .. Len(saves) : /\ saves[i].kind = "saveEnvelope"
                                     /\ saves[i].id \in Nat /\ saves[i].id < m /\ IsReq(saves[i].row)
      BY <1>9
    <3>3. /\ Coherent(last[Len(saves)].store, m) /\ last[Len(saves)].store.colls = mid.store.colls
          /\ \A i \in 1 .. Len(saves) : /\ saves[i].id \in DOMAIN last[Len(saves)].store.reqs
                                        /\ last[Len(saves)].store.reqs[saves[i].id] = saves[i].row
      <4>1. Envelopes(saves, m)
        BY <1>9, <3>1, <3>2 DEF Envelopes
      <4>2. m \in Nat /\ IsRun(last, mid.store, mid.held, saves)
        BY <1>5, <2>1
      <4>3. \A s, held : Coherent(s, m) /\ (held = None \/ IsReq(held)) /\ IsRun(last, s, held, saves) =>
               LET done == last[Len(saves)] IN
               /\ Coherent(done.store, m) /\ done.store.colls = s.colls
               /\ \A i \in 1 .. Len(saves) : /\ saves[i].id \in DOMAIN done.store.reqs
                                             /\ done.store.reqs[saves[i].id] = saves[i].row
        BY ONLY <4>1, <4>2, SavesRun
      <4> QED
        BY <2>6, <4>2, <4>3, Zenon
    <3> QED
      BY <1>9, <2>1, <3>3
  <2>8. \A r \in DOMAIN snapshot.reqs : r \in DOMAIN end.store.reqs /\ end.store.reqs[r] = row(r)
    BY <1>2, <2>7 DEF reqs
  <2>9. IsForest(mid.store.projects, mid.store.colls) /\ IsForest(end.store.projects, end.store.colls)
    BY <2>6, <2>7 DEF Coherent, Sane
  <2>10. \A c \in DOMAIN mid.store.colls : Path(end.store, c) = Path(mid.store, c)
    BY <2>7, <2>9, SameAbove
  <2>11. ASSUME NEW r \in DOMAIN snapshot.reqs
         PROVE  LET was == snapshot.reqs[r] IN
                /\ r \in DOMAIN end.store.reqs /\ end.store.reqs[r].caseOf = was.caseOf
                /\ Path(end.store, end.store.reqs[r].coll) = Path(snapshot, was.coll)
                /\ r \in Listed(snapshot, was.coll) => r \in Listed(end.store, end.store.reqs[r].coll)
    <3> DEFINE was == snapshot.reqs[r]
    <3>1. was.coll \in DOMAIN snapshot.colls
      BY <1>1 DEF Filed
    <3>2. /\ r \in DOMAIN end.store.reqs /\ end.store.reqs[r].caseOf = was.caseOf
          /\ end.store.reqs[r].coll = colls.copies[was.coll]
      BY <1>8, <2>8
    <3>3. Path(end.store, colls.copies[was.coll]) = Path(snapshot, was.coll)
      BY <2>4, <2>5, <2>10, <3>1 DEF Regrown
    <3>4. ASSUME r \in Listed(snapshot, was.coll) PROVE r \in Listed(end.store, end.store.reqs[r].coll)
      <4> DEFINE here(t, c) == {k \in Interfaces(t) : t.reqs[k].coll = c}
      <4>1. ASSUME NEW k \in here(snapshot, was.coll) PROVE k \in here(end.store, end.store.reqs[r].coll)
        <5>1. k \in DOMAIN snapshot.reqs /\ snapshot.reqs[k].caseOf = None /\ snapshot.reqs[k].coll = was.coll
          BY <4>1 DEF Interfaces
        <5>2. k \in DOMAIN end.store.reqs /\ end.store.reqs[k].caseOf = None /\ end.store.reqs[k].coll = colls.copies[was.coll]
          BY <1>8, <2>8, <5>1
        <5> QED
          BY <3>2, <5>2 DEF Interfaces
      <4>2. r \in here(snapshot, was.coll) \/ was.caseOf \in here(snapshot, was.coll)
        BY <3>4 DEF Listed
      <4>3. r \in here(end.store, end.store.reqs[r].coll)
              \/ end.store.reqs[r].caseOf \in here(end.store, end.store.reqs[r].coll)
        BY <3>2, <4>1, <4>2
      <4> QED
        BY <3>2, <4>3 DEF Listed
    <3> QED
      BY <3>2, <3>3, <3>4
  <2>12. work.kind = "restore" /\ work.snapshot = snapshot
    BY DEF work
  <2>13. Reproduced(work, end.store)
    BY <2>11, <2>12 DEF Reproduced
  <2> QED
    BY <2>12, <2>13 DEF Promised, end
<1>13. Leads(work, store, None, body \o <<Refresh>>)
  <2> HIDE DEF body, work
  <2> QED
    BY <1>11, <1>12, RefreshEnds
<1> QED
  BY <1>5, <1>11, <1>13 DEF colls, saves, projects, row, m

-------------------------------------------------------------------------------
(* An import.                                                              *)

(* after is a computation of FoldersOf.                                    *)
FoldersBy(after, t, project, target, done, path) ==
    /\ after[0] = [done EXCEPT !.parent = target, !.key = <<>>]
    /\ \A i \in 1 .. Len(path) : after[i] = Folder(t, project, after[i - 1], path[i])
    /\ FoldersOf(t, project, target, done, path) = after[Len(path)]

(* The folders of a path, from the top down.                               *)
LEMMA FolderSteps ==
  ASSUME NEW t, NEW project, NEW target, NEW done, NEW path, Len(path) \in Nat
  PROVE  \E after : FoldersBy(after, t, project, target, done, path)
<1> DEFINE Step(i, x) == Folder(t, project, x, path[i])
           At(f, i) == IF i = 0 THEN [done EXCEPT !.parent = target, !.key = <<>>] ELSE Step(i, f[i - 1])
           Is(f, k) == f = [i \in 0 .. k |-> At(f, i)]
           n == Len(path)
           result == CHOOSE f : Is(f, n)
<1>1. \E f : Is(f, 0)
  <2> DEFINE f == [i \in 0 .. 0 |-> [done EXCEPT !.parent = target, !.key = <<>>]]
  <2>1. Is(f, 0)
    OBVIOUS
  <2> QED
    BY <2>1
<1>2. ASSUME NEW k \in Nat, \E f : Is(f, k) PROVE \E f : Is(f, k + 1)
  <2>1. PICK f : Is(f, k)
    BY <1>2
  <2> DEFINE g == [i \in 0 .. k + 1 |-> At(f, i)]
  <2>2. \A i \in 0 .. k : g[i] = f[i]
    BY <2>1
  <2>3. ASSUME NEW i \in 0 .. k + 1 PROVE At(g, i) = At(f, i)
    <3>1. i # 0 => i - 1 \in 0 .. k
      OBVIOUS
    <3> HIDE DEF g, Step
    <3> QED
      BY <2>2, <3>1
  <2>4. Is(g, k + 1)
    BY <2>3, Zenon
  <2> QED
    BY <2>4
<1> DEFINE Bad == {k \in Nat : ~\E f : Is(f, k)}
<1>3. Bad = {}
  <2> SUFFICES ASSUME Bad # {} PROVE FALSE
    OBVIOUS
  <2> HIDE DEF Is
  <2>1. PICK k \in Bad : \A j \in Bad : k <= j
    BY LeastId
  <2>2. k \in Nat /\ k # 0 /\ k - 1 \in Nat /\ k - 1 \notin Bad /\ k - 1 + 1 = k
    BY <1>1, <2>1
  <2>3. \E f : Is(f, k - 1 + 1)
    BY <1>2, <2>2
  <2> QED
    BY <2>1, <2>2, <2>3
<1>4. \E f : Is(f, n)
  BY <1>3
<1>5. Is(result, n)
  <2> HIDE DEF Is
  <2> QED
    BY <1>4, Zenon
<1>6. FoldersOf(t, project, target, done, path) = result[n]
  BY Zenon DEF FoldersOf
<1>7. \A i \in 0 .. n : result[i] = At(result, i)
  <2> HIDE DEF result, At, n
  <2> QED
    BY <1>5
<1> HIDE DEF result, Step, Is
<1>8. result[0] = [done EXCEPT !.parent = target, !.key = <<>>] /\ \A i \in 1 .. n : result[i] = Step(i, result[i - 1])
  BY <1>7
<1> QED
  BY <1>6, <1>8, Zenon DEF Step, FoldersBy

(* after is a computation of ImportAll.                                    *)
ImportedBy(after, t, project, target, paths) ==
    /\ after[0] = [next |-> nextId, paths |-> <<>>, commands |-> <<>>, parent |-> target, key |-> <<>>]
    /\ \A i \in 1 .. Len(paths) : after[i] = ImportOne(t, project, target, after[i - 1], paths[i])
    /\ ImportAll(t, project, target, paths) = after[Len(paths)]

(* The requests of an import.                                              *)
LEMMA ImportSteps ==
  ASSUME NEW t, NEW project, NEW target, NEW paths, Len(paths) \in Nat
  PROVE  \E after : ImportedBy(after, t, project, target, paths)
<1> DEFINE Step(i, x) == ImportOne(t, project, target, x, paths[i])
           At(f, i) == IF i = 0 THEN [next |-> nextId, paths |-> <<>>, commands |-> <<>>, parent |-> target, key |-> <<>>] ELSE Step(i, f[i - 1])
           Is(f, k) == f = [i \in 0 .. k |-> At(f, i)]
           n == Len(paths)
           result == CHOOSE f : Is(f, n)
<1>1. \E f : Is(f, 0)
  <2> DEFINE f == [i \in 0 .. 0 |-> [next |-> nextId, paths |-> <<>>, commands |-> <<>>, parent |-> target, key |-> <<>>]]
  <2>1. Is(f, 0)
    OBVIOUS
  <2> QED
    BY <2>1
<1>2. ASSUME NEW k \in Nat, \E f : Is(f, k) PROVE \E f : Is(f, k + 1)
  <2>1. PICK f : Is(f, k)
    BY <1>2
  <2> DEFINE g == [i \in 0 .. k + 1 |-> At(f, i)]
  <2>2. \A i \in 0 .. k : g[i] = f[i]
    BY <2>1
  <2>3. ASSUME NEW i \in 0 .. k + 1 PROVE At(g, i) = At(f, i)
    <3>1. i # 0 => i - 1 \in 0 .. k
      OBVIOUS
    <3> HIDE DEF g, Step
    <3> QED
      BY <2>2, <3>1
  <2>4. Is(g, k + 1)
    BY <2>3, Zenon
  <2> QED
    BY <2>4
<1> DEFINE Bad == {k \in Nat : ~\E f : Is(f, k)}
<1>3. Bad = {}
  <2> SUFFICES ASSUME Bad # {} PROVE FALSE
    OBVIOUS
  <2> HIDE DEF Is
  <2>1. PICK k \in Bad : \A j \in Bad : k <= j
    BY LeastId
  <2>2. k \in Nat /\ k # 0 /\ k - 1 \in Nat /\ k - 1 \notin Bad /\ k - 1 + 1 = k
    BY <1>1, <2>1
  <2>3. \E f : Is(f, k - 1 + 1)
    BY <1>2, <2>2
  <2> QED
    BY <2>1, <2>2, <2>3
<1>4. \E f : Is(f, n)
  BY <1>3
<1>5. Is(result, n)
  <2> HIDE DEF Is
  <2> QED
    BY <1>4, Zenon
<1>6. ImportAll(t, project, target, paths) = result[n]
  BY Zenon DEF ImportAll
<1>7. \A i \in 0 .. n : result[i] = At(result, i)
  <2> HIDE DEF result, At, n
  <2> QED
    BY <1>5
<1> HIDE DEF result, Step, Is
<1>8. result[0] = [next |-> nextId, paths |-> <<>>, commands |-> <<>>, parent |-> target, key |-> <<>>] /\ \A i \in 1 .. n : result[i] = Step(i, result[i - 1])
  BY <1>7
<1> QED
  BY <1>6, <1>8, Zenon DEF Step, ImportedBy

(* The commands of an import so far, and what they make of the store t     *)
(* they start from: every folder made is the only one of its name.         *)
IsStage(done) ==
    done = [next |-> done.next, paths |-> done.paths, commands |-> done.commands,
            parent |-> done.parent, key |-> done.key]

Filing(at, done, t, target) ==
    LET s == at.store IN
    /\ Coherent(s, done.next) /\ (at.held = None \/ IsReq(at.held))
    /\ \A c \in DOMAIN t.colls : c \in DOMAIN s.colls /\ s.colls[c] = t.colls[c]
    /\ \A c \in DOMAIN s.colls : c \in DOMAIN t.colls \/ c \in DOMAIN done.paths
    /\ \A c \in DOMAIN done.paths : /\ c \in DOMAIN s.colls /\ IsSeq(done.paths[c])
                                    /\ Path(s, c) = Path(t, target) \o done.paths[c]
    /\ \A c \in DOMAIN s.colls \ DOMAIN t.colls : FolderIn(s, s.colls[c].parent, s.colls[c].name) = {c}

Entered(at, done, t, target) ==
    /\ done.parent \in DOMAIN at.store.colls /\ IsSeq(done.key)
    /\ Path(at.store, done.parent) = Path(t, target) \o done.key

(* The requests below a path that have been imported.                      *)
Below(s, t, target, path) ==
    {r \in DOMAIN s.reqs : r >= nextId /\ Path(s, s.reqs[r].coll) = Path(t, target) \o path}
Counted(s, t, target, paths, n) ==
    \A k \in DOMAIN paths :
        Cardinality(Below(s, t, target, paths[k])) = Cardinality({j \in 1 .. n : paths[j] = paths[k]})

Importing(done, t, target, paths, n) ==
    /\ IsStage(done) /\ Numbered(done.commands, nextId, done.next)
    /\ \A run : IsRun(run, t, None, done.commands) =>
          LET at == run[Len(done.commands)] IN
          Filing(at, done, t, target) /\ Counted(at.store, t, target, paths, n)
Inside(done, t, target) ==
    \A run : IsRun(run, t, None, done.commands) => Entered(run[Len(done.commands)], done, t, target)

(* A folder: found, or made where the import is.                           *)
LEMMA FolderFiles ==
  ASSUME NEW t, Coherent(t, nextId), NEW target \in DOMAIN t.colls, NEW paths, NEW n, NEW done,
         Importing(done, t, target, paths, n), Inside(done, t, target), NEW project, NEW name
  PROVE  LET next == Folder(t, project, done, name) IN
         /\ Importing(next, t, target, paths, n) /\ Inside(next, t, target)
         /\ next.key = Append(done.key, name)
<1> DEFINE key == Append(done.key, name)
           found == {c \in DOMAIN done.paths : done.paths[c] = key} \union Existing(t, done, name)
           id == IF found = {} THEN done.next ELSE Min(found)
           create == CreateCommand(id, project, done.parent, name)
           next == Folder(t, project, done, name)
           top == Path(t, target)
<1>1. next = [next |-> IF found = {} THEN done.next + 1 ELSE done.next,
              paths |-> With(done.paths, id, key),
              commands |-> IF found # {} THEN done.commands ELSE Append(done.commands, create),
              parent |-> id, key |-> key]
  BY DEF Folder
<1>2. /\ IsStage(next) /\ next.parent = id /\ next.key = key /\ next.paths = With(done.paths, id, key)
      /\ next.next = IF found = {} THEN done.next + 1 ELSE done.next
      /\ next.commands = IF found # {} THEN done.commands ELSE Append(done.commands, create)
  BY <1>1 DEF IsStage
<1> HIDE DEF next
<1>3. /\ DOMAIN next.paths = DOMAIN done.paths \union {id} /\ next.paths[id] = key
      /\ \A c \in DOMAIN done.paths : c # id => next.paths[c] = done.paths[c]
  BY <1>2 DEF With
<1>4. /\ Numbered(done.commands, nextId, done.next)
      /\ \A run : IsRun(run, t, None, done.commands) =>
            /\ Filing(run[Len(done.commands)], done, t, target)
            /\ Counted(run[Len(done.commands)].store, t, target, paths, n)
            /\ Entered(run[Len(done.commands)], done, t, target)
  BY DEF Importing, Inside
<1>5. done.next \in Nat /\ IsSeq(done.commands) /\ nextId \in Nat /\ nextId <= done.next
  BY <1>4 DEF Numbered
<1>6. IsForest(t.projects, t.colls) /\ IsSeq(top)
  BY PathSeq DEF Coherent, Sane
<1>7. ASSUME NEW at, Filing(at, done, t, target), Entered(at, done, t, target)
      PROVE  /\ IsForest(at.store.projects, at.store.colls) /\ IsSeq(done.key) /\ IsSeq(key)
             /\ done.parent \in DOMAIN at.store.colls /\ done.parent # None
             /\ Append(Path(at.store, done.parent), name) = top \o key
  <2>1. IsForest(at.store.projects, at.store.colls) /\ done.parent \in DOMAIN at.store.colls /\ IsSeq(done.key)
        /\ Path(at.store, done.parent) = top \o done.key
    BY <1>7 DEF Filing, Entered, Coherent, Sane
  <2>2. done.parent # None
    BY <2>1, NoneAssumption DEF IsForest
  <2>3. Append(top \o done.key, name) = top \o key /\ IsSeq(key)
    <3>1. IsSeq(top) /\ IsSeq(done.key)
      BY <1>6, <2>1
    <3> HIDE DEF top
    <3>2. Append(top \o done.key, name) = top \o Append(done.key, name)
      BY <3>1, AppendJoin
    <3> QED
      BY <3>1, <3>2, Appending
  <2> QED
    BY <2>1, <2>2, <2>3
<1> HIDE DEF top
<1>8. ASSUME found # {} PROVE Importing(next, t, target, paths, n) /\ Inside(next, t, target)
  <2>1. next.commands = done.commands /\ next.next = done.next
    BY <1>2, <1>8
  <2>2. ASSUME NEW run, IsRun(run, t, None, next.commands)
        PROVE  LET at == run[Len(next.commands)] IN
               /\ Filing(at, next, t, target) /\ Counted(at.store, t, target, paths, n) /\ Entered(at, next, t, target)
    <3> DEFINE at == run[Len(done.commands)]
    <3>1. Filing(at, done, t, target) /\ Counted(at.store, t, target, paths, n) /\ Entered(at, done, t, target)
      BY <1>4, <2>1, <2>2
    <3> HIDE DEF at
    <3>2. /\ IsForest(at.store.projects, at.store.colls) /\ IsSeq(key) /\ done.parent # None
          /\ Append(Path(at.store, done.parent), name) = top \o key
      BY <1>7, <3>1
    <3>3. found \in SUBSET Nat
      <4>1. \A d \in found : d \in DOMAIN at.store.colls
        BY <3>1 DEF Filing, Existing, FolderIn
      <4> HIDE DEF found
      <4> QED
        BY <3>2, <4>1 DEF IsForest
    <3>4. id \in found
      BY <1>8, <3>3, LeastIsIn
    <3>5. id \in DOMAIN at.store.colls /\ Path(at.store, id) = top \o key
      <4>1. CASE id \in DOMAIN done.paths /\ done.paths[id] = key
        BY <3>1, <4>1 DEF Filing, top
      <4>2. CASE id \in FolderIn(t, done.parent, name)
        <5>1. id \in DOMAIN t.colls /\ t.colls[id].parent = done.parent /\ t.colls[id].name = name
          BY <4>2 DEF FolderIn
        <5>2. id \in DOMAIN at.store.colls /\ at.store.colls[id].parent = done.parent /\ at.store.colls[id].name = name
          BY <3>1, <5>1 DEF Filing
        <5> HIDE DEF id, key
        <5>3. Path(at.store, id) = Append(Path(at.store, at.store.colls[id].parent), at.store.colls[id].name)
          BY <3>2, <5>2, PathStep
        <5> QED
          BY <3>2, <5>2, <5>3
      <4>3. id \in FolderIn(t, done.parent, name) \/ (id \in DOMAIN done.paths /\ done.paths[id] = key)
        <5> HIDE DEF id
        <5> QED
          BY <3>4 DEF Existing
      <4> QED
        BY <4>1, <4>2, <4>3
    <3> HIDE DEF id, found, key
    <3>6. Filing(at, next, t, target)
      <4>1. \A c \in DOMAIN next.paths : /\ c \in DOMAIN at.store.colls /\ IsSeq(next.paths[c])
                                         /\ Path(at.store, c) = Path(t, target) \o next.paths[c]
        BY <1>3, <3>1, <3>2, <3>5 DEF Filing, top
      <4> QED
        BY <1>3, <2>1, <3>1, <4>1 DEF Filing
    <3>7. Entered(at, next, t, target)
      BY <1>2, <3>2, <3>5 DEF Entered, top
    <3> QED
      BY <2>1, <3>1, <3>6, <3>7 DEF at
  <2> HIDE DEF key, found, id
  <2> QED
    BY <1>2, <1>4, <2>1, <2>2 DEF Importing, Inside
<1>9. ASSUME found = {} PROVE Importing(next, t, target, paths, n) /\ Inside(next, t, target)
  <2>1. next.commands = Append(done.commands, create) /\ next.next = done.next + 1 /\ id = done.next
    BY <1>2, <1>9
  <2>2. \A c \in DOMAIN done.paths : done.paths[c] # key
    BY <1>9
  <2>3. \A c \in DOMAIN t.colls : ~(t.colls[c].parent = done.parent /\ t.colls[c].name = name)
    BY <1>9 DEF Existing, FolderIn
  <2> HIDE DEF id, found, key
  <2>4. create.kind = "createCollection" /\ create.id = done.next /\ create = CreateCommand(done.next, project, done.parent, name)
    BY <2>1 DEF CreateCommand
  <2> HIDE DEF create
  <2>5. Numbered(next.commands, nextId, next.next)
    <3>1. Plain(create, done.next + 1)
      BY <2>4 DEF Plain
    <3>2. done.next + 1 \in Nat /\ done.next <= done.next + 1 /\ done.next < done.next + 1
      BY <1>5
    <3> QED
      BY <1>4, <1>5, <2>1, <2>4, <3>1, <3>2, NumberedAppend
  <2>6. ASSUME NEW run, IsRun(run, t, None, next.commands)
        PROVE  LET at == run[Len(next.commands)] IN
               /\ Filing(at, next, t, target) /\ Counted(at.store, t, target, paths, n) /\ Entered(at, next, t, target)
    <3> DEFINE at == run[Len(done.commands)]
               after == run[Len(next.commands)]
               s == at.store
               u == after.store
    <3>1. /\ IsRun(run, t, None, done.commands) /\ Len(next.commands) = Len(done.commands) + 1
          /\ Allowed(at.store, create, at.held) /\ after = Ran(at, create)
      BY <1>5, <2>1, <2>6, RunAppend
    <3>2. Filing(at, done, t, target) /\ Counted(at.store, t, target, paths, n) /\ Entered(at, done, t, target)
      BY <1>4, <3>1
    <3> HIDE DEF at, after
    <3>3. after.store = After(at.store, create, at.held) /\ after.held = at.held
      BY <2>4, <3>1 DEF Ran
    <3>4. Coherent(at.store, done.next) /\ (at.held = None \/ IsReq(at.held))
      BY <3>2 DEF Filing
    <3>5. /\ IsForest(s.projects, s.colls) /\ IsSeq(key) /\ done.parent \in DOMAIN s.colls /\ done.parent # None
          /\ Append(Path(s, done.parent), name) = top \o key
      BY <1>7, <3>2
    <3>6. /\ Coherent(u, done.next + 1) /\ u.reqs = s.reqs
          /\ DOMAIN u.colls = DOMAIN s.colls \union {done.next} /\ done.next \notin DOMAIN s.colls
          /\ \A d \in DOMAIN s.colls : u.colls[d] = s.colls[d] /\ Path(u, d) = Path(s, d)
          /\ u.colls[done.next].parent = done.parent /\ u.colls[done.next].name = name
          /\ Path(u, done.next) = Append(Path(s, done.parent), name)
      <4>1. Allowed(s, CreateCommand(done.next, project, done.parent, name), at.held)
        BY <2>4, <3>1
      <4>2. u = After(s, CreateCommand(done.next, project, done.parent, name), at.held)
        BY <2>4, <3>3
      <4>3. Coherent(s, done.next) /\ (at.held = None \/ IsReq(at.held)) /\ done.next \in Nat /\ done.parent # None
        BY <1>5, <3>4, <3>5
      <4> HIDE DEF s, u
      <4> QED
        BY <4>1, <4>2, <4>3, Created
    <3>7. \A d \in DOMAIN s.colls : ~(s.colls[d].parent = done.parent /\ s.colls[d].name = name)
      <4> SUFFICES ASSUME NEW d \in DOMAIN s.colls, s.colls[d].parent = done.parent, s.colls[d].name = name PROVE FALSE
        OBVIOUS
      <4>1. CASE d \in DOMAIN t.colls
        BY <2>3, <3>2, <4>1 DEF Filing
      <4>2. CASE d \in DOMAIN done.paths
        <5>1. Path(s, d) = top \o done.paths[d] /\ IsSeq(done.paths[d])
          BY <3>2, <4>2 DEF Filing, top
        <5>2. s.colls[d].parent # None
          BY <3>5
        <5>3. Path(s, d) = Append(Path(s, s.colls[d].parent), s.colls[d].name)
          BY <3>5, <5>2, PathStep
        <5>4. Path(s, d) = top \o key
          BY <3>5, <5>3
        <5>5. top \o done.paths[d] = top \o key => done.paths[d] = key
          BY <1>6, <3>5, <5>1, JoinCancels DEF top
        <5> QED
          BY <2>2, <4>2, <5>1, <5>4, <5>5
      <4> QED
        BY <3>2, <4>1, <4>2 DEF Filing
    <3>8. \A c \in DOMAIN u.colls \ DOMAIN t.colls : FolderIn(u, u.colls[c].parent, u.colls[c].name) = {c}
      <4> SUFFICES ASSUME NEW c \in DOMAIN u.colls \ DOMAIN t.colls
                   PROVE  FolderIn(u, u.colls[c].parent, u.colls[c].name) = {c}
        OBVIOUS
      <4>1. CASE c = done.next
        BY <3>6, <3>7, <4>1 DEF FolderIn
      <4>2. CASE c # done.next
        <5>1. c \in DOMAIN s.colls \ DOMAIN t.colls /\ u.colls[c] = s.colls[c]
          BY <3>6, <4>2
        <5>2. FolderIn(s, s.colls[c].parent, s.colls[c].name) = {c}
          BY <3>2, <5>1 DEF Filing
        <5>3. ~(s.colls[c].parent = done.parent /\ s.colls[c].name = name)
          BY <3>7, <5>1
        <5> QED
          BY <3>6, <5>1, <5>2, <5>3 DEF FolderIn
      <4> QED
        BY <4>1, <4>2
    <3>9. \A c \in DOMAIN next.paths : /\ c \in DOMAIN u.colls /\ IsSeq(next.paths[c])
                                       /\ Path(u, c) = Path(t, target) \o next.paths[c]
      <4>1. done.next \notin DOMAIN done.paths
        BY <3>2, <3>6 DEF Filing
      <4>2. \A c \in DOMAIN done.paths : /\ c \in DOMAIN s.colls /\ IsSeq(done.paths[c])
                                         /\ Path(s, c) = Path(t, target) \o done.paths[c]
        BY <3>2 DEF Filing
      <4>3. \A c \in DOMAIN done.paths : next.paths[c] = done.paths[c]
        BY <1>3, <2>1, <4>1
      <4>4. Path(u, done.next) = Path(t, target) \o key
        BY <3>5, <3>6 DEF top
      <4> QED
        BY <1>3, <2>1, <3>5, <3>6, <4>2, <4>3, <4>4
    <3>10. Filing(after, next, t, target)
      <4>1. \A c \in DOMAIN t.colls : c \in DOMAIN u.colls /\ u.colls[c] = t.colls[c]
        BY <3>2, <3>6 DEF Filing
      <4>2. \A c \in DOMAIN u.colls : c \in DOMAIN t.colls \/ c \in DOMAIN next.paths
        BY <1>3, <2>1, <3>2, <3>6 DEF Filing
      <4> QED
        BY <2>1, <3>3, <3>4, <3>6, <3>8, <3>9, <4>1, <4>2 DEF Filing
    <3>11. Counted(u, t, target, paths, n)
      <4>1. \A r \in DOMAIN s.reqs : s.reqs[r].coll \in DOMAIN s.colls
        BY <3>4 DEF Coherent, Sane, Filed
      <4>2. \A path : Below(u, t, target, path) = Below(s, t, target, path)
        BY <3>6, <4>1 DEF Below
      <4> QED
        BY <3>2, <4>2 DEF Counted
    <3>12. Entered(after, next, t, target)
      BY <1>2, <2>1, <3>5, <3>6 DEF Entered, top
    <3> QED
      BY <3>10, <3>11, <3>12 DEF after
  <2> QED
    BY <1>2, <2>5, <2>6 DEF Importing, Inside
<1> QED
  BY <1>2, <1>8, <1>9 DEF next

(* A path's folders, from the target down.                                 *)
LEMMA FoldersFile ==
  ASSUME NEW t, Coherent(t, nextId), NEW target \in DOMAIN t.colls, NEW paths, NEW n, NEW done,
         Importing(done, t, target, paths, n), NEW project, NEW path, IsSeq(path)
  PROVE  LET next == FoldersOf(t, project, target, done, path) IN
         Importing(next, t, target, paths, n) /\ Inside(next, t, target) /\ next.key = path
<1>1. Len(path) \in Nat /\ DOMAIN path = 1 .. Len(path)
  BY Appending
<1>2. PICK after : FoldersBy(after, t, project, target, done, path)
  BY <1>1, FolderSteps
<1> USE DEF FoldersBy
<1> DEFINE first == after[0]
           len == Len(path)
<1>3. /\ IsStage(first) /\ first.next = done.next /\ first.paths = done.paths /\ first.commands = done.commands
      /\ first.parent = target /\ first.key = <<>>
  <2>1. first = [next |-> done.next, paths |-> done.paths, commands |-> done.commands, parent |-> target, key |-> <<>>]
    BY <1>2 DEF Importing, IsStage
  <2> HIDE DEF first
  <2> QED
    BY <2>1 DEF IsStage
<1>4. IsForest(t.projects, t.colls) /\ IsSeq(Path(t, target)) /\ IsSeq(<<>>)
  <2>1. IsForest(t.projects, t.colls)
    BY DEF Coherent, Sane
  <2>2. IsSeq(Path(t, target))
    BY <2>1, PathSeq
  <2> QED
    BY <2>1, <2>2, JoinEmpty
<1>5. ASSUME NEW at, Filing(at, done, t, target) PROVE Filing(at, first, t, target) /\ Entered(at, first, t, target)
  <2> DEFINE s == at.store
  <2>1. IsForest(s.projects, s.colls) /\ \A c \in DOMAIN t.colls : c \in DOMAIN s.colls /\ s.colls[c] = t.colls[c]
    BY <1>5 DEF Filing, Coherent, Sane
  <2> HIDE DEF s
  <2>2. Path(s, target) = Path(t, target) /\ target \in DOMAIN s.colls
    BY <1>4, <2>1, SameAbove
  <2>3. Path(t, target) \o <<>> = Path(t, target)
    BY <1>4, JoinEmpty
  <2>4. Entered(at, first, t, target)
    BY <1>3, <1>4, <2>2, <2>3 DEF Entered, s
  <2> QED
    BY <1>3, <1>5, <2>4 DEF Filing
<1>6. Importing(first, t, target, paths, n) /\ Inside(first, t, target)
  <2> HIDE DEF first
  <2> QED
    BY <1>3, <1>5 DEF Importing, Inside
<1> DEFINE G == {i \in 0 .. len : /\ Importing(after[i], t, target, paths, n) /\ Inside(after[i], t, target)
                                  /\ IsSeq(after[i].key) /\ Len(after[i].key) = i
                                  /\ \A j \in 1 .. i : after[i].key[j] = path[j]}
<1>7. 0 \in G
  BY <1>1, <1>3, <1>4, <1>6
<1>8. ASSUME NEW i \in 0 .. len - 1, i \in G PROVE i + 1 \in G
  <2>1. i + 1 \in 1 .. len /\ i + 1 \in 0 .. len /\ i + 1 - 1 = i
    BY <1>1
  <2>2. after[i + 1] = Folder(t, project, after[i], path[i + 1])
    BY <1>2, <2>1
  <2>3. /\ Importing(after[i], t, target, paths, n) /\ Inside(after[i], t, target)
        /\ IsSeq(after[i].key) /\ Len(after[i].key) = i
        /\ \A j \in 1 .. i : after[i].key[j] = path[j]
    BY <1>8
  <2>4. LET next == Folder(t, project, after[i], path[i + 1]) IN
        /\ Importing(next, t, target, paths, n) /\ Inside(next, t, target)
        /\ next.key = Append(after[i].key, path[i + 1])
    BY <2>3, FolderFiles
  <2>5. /\ Importing(after[i + 1], t, target, paths, n) /\ Inside(after[i + 1], t, target)
        /\ after[i + 1].key = Append(after[i].key, path[i + 1])
    BY <2>2, <2>4
  <2>6. /\ IsSeq(after[i + 1].key) /\ Len(after[i + 1].key) = i + 1
        /\ \A j \in 1 .. i : after[i + 1].key[j] = after[i].key[j]
        /\ after[i + 1].key[i + 1] = path[i + 1]
    BY <2>3, <2>5, Appending
  <2>7. \A j \in 1 .. i + 1 : after[i + 1].key[j] = path[j]
    BY <2>3, <2>6
  <2> QED
    BY <2>1, <2>5, <2>6, <2>7
<1>9. len \in G
  <2>1. len \in Nat /\ \A i \in 0 .. len - 1 : i \in G => i + 1 \in G
    BY <1>1, <1>8
  <2> HIDE DEF G, len
  <2>2. \A i \in 0 .. len : i \in G
    BY <1>7, <2>1, UpTo
  <2> QED
    BY <2>1, <2>2
<1>10. after[len].key = path
  BY <1>9, SameSeq
<1> QED
  BY <1>2, <1>9, <1>10

(* A request, below the folders of its path.                               *)
LEMMA ImportCounts ==
  ASSUME NEW t, Coherent(t, nextId), NEW target \in DOMAIN t.colls, NEW paths, NEW n \in Nat, n + 1 \in DOMAIN paths,
         \A k \in DOMAIN paths : IsSeq(paths[k]),
         NEW done, Importing(done, t, target, paths, n), NEW project
  PROVE  Importing(ImportOne(t, project, target, done, paths[n + 1]), t, target, paths, n + 1)
<1> DEFINE path == paths[n + 1]
           in == FoldersOf(t, project, target, done, path)
           row == Request(in.parent, None)
           save == [kind |-> "saveEnvelope", id |-> in.next, row |-> row]
           next == ImportOne(t, project, target, done, path)
           top == Path(t, target)
<1>1. Importing(in, t, target, paths, n) /\ Inside(in, t, target) /\ in.key = path /\ IsSeq(path)
  BY FoldersFile
<1>2. in = [next |-> in.next, paths |-> in.paths, commands |-> in.commands, parent |-> in.parent, key |-> in.key]
  BY <1>1 DEF Importing, IsStage
<1>3. next = [in EXCEPT !.next = @ + 1, !.commands = Append(@, save)]
  BY DEF ImportOne
<1> HIDE DEF in, next
<1>4. /\ IsStage(next) /\ next.next = in.next + 1 /\ next.paths = in.paths
      /\ next.commands = Append(in.commands, save)
  <2>1. next = [next |-> in.next + 1, paths |-> in.paths, commands |-> Append(in.commands, save),
                parent |-> in.parent, key |-> in.key]
    BY <1>2, <1>3
  <2> QED
    BY <2>1 DEF IsStage
<1>5. /\ Numbered(in.commands, nextId, in.next) /\ IsSeq(in.commands) /\ in.next \in Nat /\ nextId \in Nat /\ nextId <= in.next
      /\ \A run : IsRun(run, t, None, in.commands) =>
            /\ Filing(run[Len(in.commands)], in, t, target)
            /\ Counted(run[Len(in.commands)].store, t, target, paths, n)
            /\ Entered(run[Len(in.commands)], in, t, target)
  BY <1>1 DEF Importing, Inside, Numbered
<1>6. IsReq(row) /\ row.coll = in.parent /\ save.kind = "saveEnvelope" /\ save.id = in.next /\ save.row = row
  BY DEF Request, IsReq
<1> HIDE DEF row, save
<1>7. Numbered(next.commands, nextId, next.next)
  <2>1. Plain(save, in.next + 1)
    BY <1>5, <1>6 DEF Plain
  <2>2. in.next + 1 \in Nat /\ in.next <= in.next + 1 /\ save.kind # "createCollection"
    BY <1>5, <1>6
  <2> QED
    BY <1>4, <1>5, <2>1, <2>2, NumberedAppend
<1>8. IsForest(t.projects, t.colls) /\ IsSeq(top)
  BY PathSeq DEF Coherent, Sane
<1> HIDE DEF top
<1>9. ASSUME NEW run, IsRun(run, t, None, next.commands)
      PROVE  LET at == run[Len(next.commands)] IN Filing(at, next, t, target) /\ Counted(at.store, t, target, paths, n + 1)
  <2> DEFINE at == run[Len(in.commands)]
             after == run[Len(next.commands)]
             s == at.store
             u == after.store
             b == in.next + 1
  <2>1. /\ IsRun(run, t, None, in.commands) /\ Len(next.commands) = Len(in.commands) + 1
        /\ Allowed(at.store, save, at.held) /\ after = Ran(at, save)
    BY <1>4, <1>5, <1>9, RunAppend
  <2>2. Filing(at, in, t, target) /\ Counted(at.store, t, target, paths, n) /\ Entered(at, in, t, target)
    BY <1>5, <2>1
  <2> HIDE DEF at, after
  <2>3. after.store = After(at.store, save, at.held) /\ after.held = at.held
    BY <1>6, <2>1 DEF Ran
  <2>4. Coherent(s, in.next) /\ (at.held = None \/ IsReq(at.held))
    BY <2>2 DEF Filing
  <2>5. Coherent(s, b) /\ b \in Nat /\ in.next < b
    BY <1>5, <2>4, CoherentMore
  <2>6. Coherent(u, b) /\ u.colls = s.colls /\ u.reqs = With(s.reqs, in.next, row) /\ in.parent \in DOMAIN s.colls
    <3>1. Allowed(s, save, at.held) /\ u = After(s, save, at.held)
      BY <2>1, <2>3
    <3>2. save.id \in Nat /\ save.id < b /\ IsReq(save.row) /\ save.kind = "saveEnvelope"
      BY <1>5, <1>6, <2>5
    <3> HIDE DEF s, u, b
    <3> QED
      BY <1>6, <2>4, <2>5, <3>1, <3>2, SavedRows
  <2>7. IsForest(s.projects, s.colls) /\ IsForest(u.projects, u.colls) /\ Filed(s.colls, s.reqs)
        /\ IsFiniteSet(DOMAIN s.reqs) /\ (\A r \in DOMAIN s.reqs : r \in Nat /\ r < in.next /\ s.reqs[r].coll \in DOMAIN s.colls)
    BY <2>4, <2>6 DEF Coherent, Sane, Filed
  <2>8. \A c \in DOMAIN s.colls : Path(u, c) = Path(s, c)
    <3> HIDE DEF s, u
    <3> QED
      BY <2>6, <2>7, SameAbove
  <2>9. \A parent, name : FolderIn(u, parent, name) = FolderIn(s, parent, name)
    BY <2>6 DEF FolderIn
  <2>10. Filing(after, next, t, target)
    <3>1. \A c \in DOMAIN in.paths : c \in DOMAIN s.colls /\ Path(u, c) = Path(s, c)
      BY <2>2, <2>8 DEF Filing
    <3>2. \A c \in DOMAIN in.paths : /\ c \in DOMAIN u.colls /\ IsSeq(in.paths[c])
                                     /\ Path(u, c) = Path(t, target) \o in.paths[c]
      BY <2>2, <2>6, <3>1 DEF Filing
    <3>3. \A c \in DOMAIN u.colls \ DOMAIN t.colls : FolderIn(u, u.colls[c].parent, u.colls[c].name) = {c}
      <4> SUFFICES ASSUME NEW c \in DOMAIN u.colls \ DOMAIN t.colls
                   PROVE  FolderIn(u, u.colls[c].parent, u.colls[c].name) = {c}
        OBVIOUS
      <4>1. c \in DOMAIN s.colls \ DOMAIN t.colls /\ u.colls[c] = s.colls[c]
        BY <2>6
      <4>2. FolderIn(s, s.colls[c].parent, s.colls[c].name) = {c}
        BY <2>2, <4>1 DEF Filing
      <4> HIDE DEF s, u
      <4> QED
        BY <2>9, <4>1, <4>2
    <3>4. /\ \A c \in DOMAIN t.colls : c \in DOMAIN u.colls /\ u.colls[c] = t.colls[c]
          /\ \A c \in DOMAIN u.colls : c \in DOMAIN t.colls \/ c \in DOMAIN in.paths
      BY <2>2, <2>6 DEF Filing
    <3>5. Coherent(u, next.next) /\ (after.held = None \/ IsReq(after.held)) /\ next.paths = in.paths
      BY <1>4, <2>3, <2>4, <2>6
    <3> QED
      BY <3>2, <3>3, <3>4, <3>5 DEF Filing
  <2>11. ASSUME NEW k \in DOMAIN paths
         PROVE  Cardinality(Below(u, t, target, paths[k])) = Cardinality({j \in 1 .. n + 1 : paths[j] = paths[k]})
    <3> DEFINE old == Below(s, t, target, paths[k])
               new == Below(u, t, target, paths[k])
               was == {j \in 1 .. n : paths[j] = paths[k]}
               is == {j \in 1 .. n + 1 : paths[j] = paths[k]}
    <3>1. Cardinality(old) = Cardinality(was)
      BY <2>2 DEF Counted
    <3>2. DOMAIN u.reqs = DOMAIN s.reqs \union {in.next} /\ u.reqs[in.next] = row
          /\ \A r \in DOMAIN s.reqs : u.reqs[r] = s.reqs[r]
      BY <2>6, <2>7 DEF With
    <3>3. Path(u, row.coll) = top \o path
      BY <1>1, <1>6, <2>2, <2>6, <2>8 DEF Entered, top
    <3>4. in.next \in new <=> paths[k] = path
      <4>1. in.next \in new <=> top \o path = top \o paths[k]
        BY <1>5, <3>2, <3>3 DEF Below, top
      <4>2. top \o path = top \o paths[k] => path = paths[k]
        BY <1>1, <1>8, JoinCancels
      <4> QED
        BY <4>1, <4>2
    <3>5. \A r : r # in.next => (r \in new <=> r \in old)
      BY <2>7, <2>8, <3>2 DEF Below
    <3>6. in.next \notin old /\ IsFiniteSet(old)
      <4>1. old \subseteq DOMAIN s.reqs
        BY DEF Below
      <4>2. in.next \notin DOMAIN s.reqs
        BY <1>5, <2>7
      <4> HIDE DEF old
      <4> QED
        BY <2>7, <4>1, <4>2, FS_Subset
    <3>7. n + 1 \notin was /\ IsFiniteSet(was)
      <4>1. was \subseteq 1 .. n /\ n + 1 \notin was
        OBVIOUS
      <4>2. IsFiniteSet(1 .. n)
        BY FS_Interval
      <4> HIDE DEF was
      <4> QED
        BY <4>1, <4>2, FS_Subset
    <3>8. CASE paths[k] = path
      <4>1. is = was \union {n + 1}
        BY <3>8
      <4>2. new = old \union {in.next}
        <5> HIDE DEF new, old
        <5> QED
          BY <3>4, <3>5, <3>8
      <4> HIDE DEF is, was, new, old
      <4>3. Cardinality(is) = Cardinality(was) + 1
        BY <3>7, <4>1, FS_AddElement
      <4>4. Cardinality(new) = Cardinality(old) + 1
        BY <3>6, <4>2, FS_AddElement
      <4>5. Cardinality(new) = Cardinality(is)
        BY <3>1, <4>3, <4>4
      <4> QED
        BY <4>5 DEF is, new
    <3>9. CASE paths[k] # path
      <4>1. is = was
        BY <3>9
      <4>2. new = old
        <5>1. in.next \notin new
          BY <3>4, <3>9
        <5> HIDE DEF new, old
        <5>2. \A r : r \in new <=> r \in old
          BY <3>5, <3>6, <5>1
        <5> QED
          BY <5>2, Zenon
      <4> QED
        BY <3>1, <4>1, <4>2
    <3> QED
      BY <3>8, <3>9
  <2> QED
    BY <2>10, <2>11 DEF Counted, after
<1> QED
  BY <1>4, <1>7, <1>9 DEF Importing, next

(* All the requests of a file.                                             *)
LEMMA AllImported ==
  ASSUME NEW t, Coherent(t, nextId), nextId \in Nat, NEW target \in DOMAIN t.colls, NEW paths, IsSeq(paths),
         \A k \in DOMAIN paths : IsSeq(paths[k]), NEW project
  PROVE  Importing(ImportAll(t, project, target, paths), t, target, paths, Len(paths))
<1>1. Len(paths) \in Nat /\ DOMAIN paths = 1 .. Len(paths)
  BY Appending
<1>2. PICK after : ImportedBy(after, t, project, target, paths)
  BY <1>1, ImportSteps
<1> USE DEF ImportedBy
<1> DEFINE first == after[0]
           n == Len(paths)
<1>3. IsStage(first) /\ first.next = nextId /\ first.paths = <<>> /\ first.commands = <<>>
  BY <1>2 DEF IsStage
<1> HIDE DEF first
<1>4. Numbered(<<>>, nextId, nextId) /\ Len(<<>>) = 0
  <2>1. <<>> \in Seq({}) /\ DOMAIN <<>> = {}
    OBVIOUS
  <2>2. IsSeq(<<>>)
    BY <2>1, SeqOver
  <2> QED
    BY <2>1, <2>2 DEF Numbered
<1>5. ASSUME NEW run, IsRun(run, t, None, <<>>)
      PROVE  LET at == run[0] IN Filing(at, first, t, target) /\ Counted(at.store, t, target, paths, 0)
  <2> DEFINE at == run[0]
  <2>1. at.store = t /\ at.held = None
    BY <1>5 DEF IsRun
  <2> HIDE DEF at
  <2>2. Filing(at, first, t, target)
    BY <1>3, <2>1 DEF Filing
  <2>3. ASSUME NEW k \in DOMAIN paths
        PROVE  Cardinality(Below(t, t, target, paths[k])) = Cardinality({j \in 1 .. 0 : paths[j] = paths[k]})
    <3>1. \A r \in DOMAIN t.reqs : r \in Nat /\ r < nextId
      BY DEF Coherent, Sane, Filed
    <3>2. Below(t, t, target, paths[k]) = {}
      BY <3>1 DEF Below
    <3>3. {j \in 1 .. 0 : paths[j] = paths[k]} = {}
      OBVIOUS
    <3> QED
      BY <3>2, <3>3
  <2> QED
    BY <2>1, <2>2, <2>3 DEF Counted, at
<1>6. Importing(first, t, target, paths, 0)
  BY <1>3, <1>4, <1>5 DEF Importing
<1> DEFINE G == {i \in 0 .. n : Importing(after[i], t, target, paths, i)}
<1>7. 0 \in G
  BY <1>1, <1>6 DEF first
<1>8. ASSUME NEW i \in 0 .. n - 1, i \in G PROVE i + 1 \in G
  <2>1. i \in Nat /\ i + 1 \in 1 .. n /\ i + 1 \in 0 .. n /\ i + 1 - 1 = i /\ i + 1 \in DOMAIN paths
    BY <1>1
  <2>2. after[i + 1] = ImportOne(t, project, target, after[i], paths[i + 1])
    BY <1>2, <2>1
  <2>3. Importing(after[i], t, target, paths, i)
    BY <1>8
  <2>4. Importing(ImportOne(t, project, target, after[i], paths[i + 1]), t, target, paths, i + 1)
    BY <2>1, <2>3, ImportCounts
  <2> QED
    BY <2>1, <2>2, <2>4
<1>9. n \in G
  <2>1. n \in Nat /\ \A i \in 0 .. n - 1 : i \in G => i + 1 \in G
    BY <1>1, <1>8
  <2> HIDE DEF G, n
  <2>2. \A i \in 0 .. n : i \in G
    BY <1>7, <2>1, UpTo
  <2> QED
    BY <2>1, <2>2
<1> QED
  BY <1>2, <1>9

(* What an import's commands make of any tree that is sound.               *)
LEMMA ImportForetold ==
  ASSUME nextId \in Nat, NEW t, Coherent(t, nextId), NEW target \in DOMAIN t.colls, NEW paths, IsSeq(paths),
         \A k \in DOMAIN paths : IsSeq(paths[k]), NEW project
  PROVE  LET all == ImportAll(t, project, target, paths)
             work == [kind |-> "import", target |-> target, paths |-> paths, first |-> nextId]
         IN  /\ Numbered(all.commands, nextId, all.next)
             /\ Append(all.commands, Refresh) = all.commands \o <<Refresh>>
             /\ Leads(work, t, None, Append(all.commands, Refresh))
<1> DEFINE all == ImportAll(t, project, target, paths)
           work == [kind |-> "import", target |-> target, paths |-> paths, first |-> nextId]
           n == Len(paths)
<1>1. Importing(all, t, target, paths, n)
  BY AllImported
<1> HIDE DEF all
<1>2. DOMAIN paths = 1 .. n
  BY Appending
<1>3. work.kind = "import" /\ work.target = target /\ work.paths = paths /\ work.first = nextId
  OBVIOUS
<1> HIDE DEF work
<1>4. Numbered(all.commands, nextId, all.next) /\ IsSeq(all.commands)
  BY <1>1 DEF Importing, Numbered
<1>5. ASSUME NEW run, IsRun(run, t, None, all.commands) PROVE Promised(work, run[Len(all.commands)].store)
  <2> DEFINE at == run[Len(all.commands)]
             s == at.store
  <2>1. Filing(at, all, t, target) /\ Counted(s, t, target, paths, n)
    BY <1>1, <1>5 DEF Importing
  <2> HIDE DEF at
  <2>2. IsForest(s.projects, s.colls) /\ IsForest(t.projects, t.colls)
        /\ (\A c \in DOMAIN t.colls : c \in DOMAIN s.colls /\ s.colls[c] = t.colls[c])
        /\ \A c \in DOMAIN t.colls : c \in Nat /\ c < nextId
    BY <2>1 DEF Filing, Coherent, Sane, IsForest
  <2>3. Path(s, target) = Path(t, target)
    <3> HIDE DEF s
    <3> QED
      BY <2>2, SameAbove
  <2>4. ASSUME NEW i \in DOMAIN work.paths
        PROVE  Cardinality({r \in DOMAIN s.reqs : r >= work.first
                              /\ Path(s, s.reqs[r].coll) = Path(s, work.target) \o work.paths[i]})
                 = Cardinality({j \in DOMAIN work.paths : work.paths[j] = work.paths[i]})
    BY <1>2, <1>3, <2>1, <2>3, <2>4 DEF Counted, Below
  <2>5. ASSUME NEW c \in DOMAIN s.colls, c >= work.first PROVE FolderIn(s, s.colls[c].parent, s.colls[c].name) = {c}
    <3>1. c \notin DOMAIN t.colls
      BY <1>3, <2>2, <2>5
    <3> QED
      BY <2>1, <3>1 DEF Filing
  <2>6. Placed(work, s)
    <3> HIDE DEF s
    <3> QED
      BY <2>4, <2>5 DEF Placed
  <2> QED
    BY <1>3, <2>6 DEF Promised, at
<1>6. Leads(work, t, None, Append(all.commands, Refresh)) /\ Append(all.commands, Refresh) = all.commands \o <<Refresh>>
  BY <1>4, <1>5, RefreshEnds
<1> QED
  BY <1>4, <1>6 DEF all, work

-------------------------------------------------------------------------------
(* A clone.                                                                *)

(* after is a computation of Cloned.                                       *)
ClonedBy(after, t, source, project) ==
    /\ after[0] = [copies |-> <<>>, next |-> nextId, commands |-> <<>>]
    /\ \A i \in 1 .. Cardinality(InProject(t, source)) : after[i] = CloneRound(t, source, project, after[i - 1])
    /\ Cloned(t, source, project) = after[Cardinality(InProject(t, source))]

(* The collections of a clone, one by one.                                 *)
LEMMA CloneSteps ==
  ASSUME NEW t, NEW source, NEW project, Cardinality(InProject(t, source)) \in Nat
  PROVE  \E after : ClonedBy(after, t, source, project)
<1> DEFINE Step(i, x) == CloneRound(t, source, project, x)
           At(f, i) == IF i = 0 THEN [copies |-> <<>>, next |-> nextId, commands |-> <<>>] ELSE Step(i, f[i - 1])
           Is(f, k) == f = [i \in 0 .. k |-> At(f, i)]
           n == Cardinality(InProject(t, source))
           result == CHOOSE f : Is(f, n)
<1>1. \E f : Is(f, 0)
  <2> DEFINE f == [i \in 0 .. 0 |-> [copies |-> <<>>, next |-> nextId, commands |-> <<>>]]
  <2>1. Is(f, 0)
    OBVIOUS
  <2> QED
    BY <2>1
<1>2. ASSUME NEW k \in Nat, \E f : Is(f, k) PROVE \E f : Is(f, k + 1)
  <2>1. PICK f : Is(f, k)
    BY <1>2
  <2> DEFINE g == [i \in 0 .. k + 1 |-> At(f, i)]
  <2>2. \A i \in 0 .. k : g[i] = f[i]
    BY <2>1
  <2>3. ASSUME NEW i \in 0 .. k + 1 PROVE At(g, i) = At(f, i)
    <3>1. i # 0 => i - 1 \in 0 .. k
      OBVIOUS
    <3> HIDE DEF g, Step
    <3> QED
      BY <2>2, <3>1
  <2>4. Is(g, k + 1)
    BY <2>3, Zenon
  <2> QED
    BY <2>4
<1> DEFINE Bad == {k \in Nat : ~\E f : Is(f, k)}
<1>3. Bad = {}
  <2> SUFFICES ASSUME Bad # {} PROVE FALSE
    OBVIOUS
  <2> HIDE DEF Is
  <2>1. PICK k \in Bad : \A j \in Bad : k <= j
    BY LeastId
  <2>2. k \in Nat /\ k # 0 /\ k - 1 \in Nat /\ k - 1 \notin Bad /\ k - 1 + 1 = k
    BY <1>1, <2>1
  <2>3. \E f : Is(f, k - 1 + 1)
    BY <1>2, <2>2
  <2> QED
    BY <2>1, <2>2, <2>3
<1>4. \E f : Is(f, n)
  BY <1>3
<1>5. Is(result, n)
  <2> HIDE DEF Is
  <2> QED
    BY <1>4, Zenon
<1>6. Cloned(t, source, project) = result[n]
  BY Zenon DEF Cloned
<1>7. \A i \in 0 .. n : result[i] = At(result, i)
  <2> HIDE DEF result, At, n
  <2> QED
    BY <1>5
<1> HIDE DEF result, Step, Is
<1>8. result[0] = [copies |-> <<>>, next |-> nextId, commands |-> <<>>] /\ \A i \in 1 .. n : result[i] = Step(i, result[i - 1])
  BY <1>7
<1> QED
  BY <1>6, <1>8, Zenon DEF Step, ClonedBy

(* What the commands so far make of the store they start from: a twin of   *)
(* each collection copied, in the same place.                              *)
Chosen(done, t, source, n) ==
    /\ Numbered(done.commands, nextId, done.next) /\ done.next = nextId + Len(done.commands)
    /\ DOMAIN done.copies \subseteq InProject(t, source) /\ Cardinality(DOMAIN done.copies) = n
    /\ \A x \in DOMAIN done.copies : /\ done.copies[x] \in Nat /\ nextId <= done.copies[x] /\ done.copies[x] < done.next
                                     /\ Chain(t, x) \subseteq DOMAIN done.copies
    /\ \A x \in DOMAIN done.copies, y \in InProject(t, source) \ DOMAIN done.copies :
          t.colls[x].parent = t.colls[y].parent => Before(t, x, y)

Twins(s, copies, t, project) ==
    /\ \A x \in DOMAIN copies : /\ copies[x] \in DOMAIN s.colls /\ s.colls[copies[x]].project = project
                                /\ s.colls[copies[x]].parent = ParentOfCopy(copies, t.colls[x].parent)
                                /\ Path(s, copies[x]) = Path(t, x)
    /\ \A x, y \in DOMAIN copies : /\ copies[y] \in Chain(s, copies[x]) <=> y \in Chain(t, x)
                                   /\ t.colls[x].parent = t.colls[y].parent /\ Before(t, x, y)
                                         => s.colls[copies[x]].order < s.colls[copies[y]].order

Grown(at, done, base, t, project) ==
    /\ Coherent(at.store, done.next) /\ at.held = None /\ at.store.reqs = base.reqs
    /\ \A c \in DOMAIN base.colls : c \in DOMAIN at.store.colls /\ at.store.colls[c] = base.colls[c]
    /\ Twins(at.store, done.copies, t, project)

Cloning(done, base, t, source, project, n) ==
    /\ Chosen(done, t, source, n)
    /\ \A run : IsRun(run, base, None, done.commands) => Grown(run[Len(done.commands)], done, base, t, project)

(* While some collection is not copied, one is ready.                      *)
LEMMA SomeReady ==
  ASSUME NEW t, IsForest(t.projects, t.colls), NEW source, NEW copies, DOMAIN copies \subseteq InProject(t, source),
         Cardinality(DOMAIN copies) < Cardinality(InProject(t, source))
  PROVE  LET ready == Ready(t, source, copies)
             c == CHOOSE c \in ready : \A d \in ready \ {c} : Precedes(t, c, d)
         IN  c \in ready /\ \A d \in ready \ {c} : Precedes(t, c, d)
<1> DEFINE all == InProject(t, source)
           left == all \ DOMAIN copies
           ready == Ready(t, source, copies)
<1>1. left \subseteq DOMAIN t.colls /\ left # {}
  <2>1. left # {}
    <3> SUFFICES ASSUME left = {} PROVE FALSE
      OBVIOUS
    <3>1. DOMAIN copies = all
      OBVIOUS
    <3>2. Cardinality(all) \in Nat
      <4>1. all \subseteq DOMAIN t.colls /\ IsFiniteSet(DOMAIN t.colls)
        BY DEF InProject, IsForest
      <4> HIDE DEF all
      <4>2. IsFiniteSet(all)
        BY <4>1, FS_Subset
      <4> QED
        BY <4>2, FS_CardinalityType
    <3> QED
      BY <3>1, <3>2
  <2> QED
    BY <2>1 DEF InProject
<1>2. PICK c \in left : t.colls[c].parent # None => t.colls[c].parent \in DOMAIN t.colls \ left
  <2> HIDE DEF left
  <2> QED
    BY <1>1, ByDepth
<1>3. t.colls[c].parent # None => t.colls[c].parent \in DOMAIN copies
  <2>1. c \in DOMAIN t.colls /\ t.colls[c].project = source
    BY DEF InProject
  <2>2. t.colls[c].parent # None => t.colls[t.colls[c].parent].project = source
    BY <2>1 DEF IsForest
  <2> QED
    BY <1>2, <2>2 DEF InProject
<1>4. ready \subseteq DOMAIN t.colls /\ ready # {}
  BY <1>3 DEF Ready, InProject
<1>5. \E x \in ready : \A d \in ready \ {x} : Precedes(t, x, d)
  <2> HIDE DEF ready
  <2> QED
    BY <1>4, FirstListed
<1> HIDE DEF ready
<1> QED
  BY <1>5, Zenon DEF ready

(* The next copy comes after the copies of its siblings, as its source     *)
(* does.                                                                   *)
LEMMA RoundClones ==
  ASSUME NEW t, Coherent(t, nextId), nextId \in Nat, NEW base, base.colls = t.colls, NEW source, NEW project, NEW n \in Nat,
         n < Cardinality(InProject(t, source)), NEW done, Cloning(done, base, t, source, project, n)
  PROVE  Cloning(CloneRound(t, source, project, done), base, t, source, project, n + 1)
<1> DEFINE ready == Ready(t, source, done.copies)
           c == CHOOSE c \in ready : \A d \in ready \ {c} : Precedes(t, c, d)
           row == t.colls[c]
           parent == ParentOfCopy(done.copies, row.parent)
           create == CreateCommand(done.next, project, parent, row.name)
           next == CloneRound(t, source, project, done)
<1>1. IsForest(t.projects, t.colls)
  BY DEF Coherent, Sane
<1>2. Chosen(done, t, source, n)
      /\ \A run : IsRun(run, base, None, done.commands) => Grown(run[Len(done.commands)], done, base, t, project)
  BY DEF Cloning
<1>3. /\ Numbered(done.commands, nextId, done.next) /\ done.next = nextId + Len(done.commands)
      /\ done.next \in Nat /\ IsSeq(done.commands) /\ Len(done.commands) \in Nat
      /\ DOMAIN done.copies \subseteq InProject(t, source) /\ Cardinality(DOMAIN done.copies) = n
  BY <1>2, Appending DEF Chosen, Numbered
<1>4. c \in ready /\ \A d \in ready \ {c} : Precedes(t, c, d)
  BY <1>1, <1>3, SomeReady
<1>5. /\ next.copies = With(done.copies, c, done.next) /\ next.next = done.next + 1
      /\ next.commands = Append(done.commands, create)
  <2>1. next = [copies |-> With(done.copies, c, done.next), next |-> done.next + 1, commands |-> Append(done.commands, create)]
    BY DEF CloneRound
  <2> HIDE DEF next
  <2> QED
    BY <2>1
<1> HIDE DEF next, c, ready
<1>6. /\ c \in DOMAIN t.colls /\ c \in InProject(t, source) /\ c \notin DOMAIN done.copies /\ row.project = source
      /\ row.parent # None => row.parent \in DOMAIN done.copies /\ row.parent \in DOMAIN t.colls
  BY <1>3, <1>4 DEF ready, Ready, InProject
<1>7. /\ DOMAIN next.copies = DOMAIN done.copies \union {c} /\ next.copies[c] = done.next
      /\ \A x \in DOMAIN done.copies : next.copies[x] = done.copies[x]
  BY <1>5, <1>6 DEF With
<1>8. /\ \A x \in DOMAIN done.copies : /\ done.copies[x] \in Nat /\ nextId <= done.copies[x] /\ done.copies[x] < done.next
                                       /\ Chain(t, x) \subseteq DOMAIN done.copies
      /\ \A x \in DOMAIN done.copies, y \in InProject(t, source) \ DOMAIN done.copies :
            t.colls[x].parent = t.colls[y].parent => Before(t, x, y)
  BY <1>2 DEF Chosen
<1>9. Chain(t, c) = {c} \union (IF row.parent = None THEN {} ELSE Chain(t, row.parent))
  BY <1>1, <1>6, ChainUnfold
<1>10. create.kind = "createCollection" /\ create.id = done.next
       /\ create = CreateCommand(done.next, project, parent, row.name)
  BY DEF CreateCommand
<1>11. row.parent # None => parent = done.copies[row.parent] /\ parent # None /\ parent \in Nat
  BY <1>6, <1>8, NoneAssumption DEF ParentOfCopy
<1>12. row.parent = None => parent = None
  BY DEF ParentOfCopy
<1> HIDE DEF create, row, parent
<1>13. Chosen(next, t, source, n + 1)
  <2>1. Numbered(next.commands, nextId, next.next)
    <3>1. Plain(create, done.next + 1)
      BY <1>10 DEF Plain
    <3>2. done.next + 1 \in Nat /\ done.next <= done.next + 1 /\ done.next < done.next + 1
      BY <1>3
    <3> QED
      BY <1>3, <1>5, <1>10, <3>1, <3>2, NumberedAppend
  <2>2. next.next = nextId + Len(next.commands)
    <3>1. Len(next.commands) = Len(done.commands) + 1
      BY <1>3, <1>5, Appending
    <3> QED
      BY <1>3, <1>5, <3>1
  <2>3. DOMAIN next.copies \subseteq InProject(t, source)
    BY <1>3, <1>6, <1>7
  <2>4. Cardinality(DOMAIN next.copies) = n + 1
    <3>1. DOMAIN done.copies \subseteq DOMAIN t.colls /\ IsFiniteSet(DOMAIN t.colls)
      BY <1>1, <1>3 DEF InProject, IsForest
    <3>2. IsFiniteSet(DOMAIN done.copies)
      BY <3>1, FS_Subset
    <3>3. Cardinality(DOMAIN done.copies \union {c}) = n + 1
      BY <1>3, <1>6, <3>2, FS_AddElement
    <3> QED
      BY <1>7, <3>3
  <2>5. ASSUME NEW x \in DOMAIN next.copies
        PROVE  /\ next.copies[x] \in Nat /\ nextId <= next.copies[x] /\ next.copies[x] < next.next
               /\ Chain(t, x) \subseteq DOMAIN next.copies
    <3>1. CASE x = c
      <4>1. Chain(t, c) \subseteq DOMAIN next.copies
        BY <1>6, <1>7, <1>8, <1>9
      <4>2. done.next \in Nat /\ nextId <= done.next /\ done.next < done.next + 1
        BY <1>3
      <4> QED
        BY <1>5, <1>7, <3>1, <4>1, <4>2
    <3>2. CASE x \in DOMAIN done.copies
      <4>1. done.copies[x] \in Nat /\ nextId <= done.copies[x] /\ done.copies[x] < done.next /\ Chain(t, x) \subseteq DOMAIN done.copies
        BY <1>8, <3>2
      <4> QED
        BY <1>3, <1>5, <1>7, <3>2, <4>1
    <3> QED
      BY <1>7, <3>1, <3>2
  <2>6. ASSUME NEW x \in DOMAIN next.copies, NEW y \in InProject(t, source) \ DOMAIN next.copies,
               t.colls[x].parent = t.colls[y].parent
        PROVE  Before(t, x, y)
    <3>1. CASE x = c
      <4>1. y \in ready \ {c}
        BY <1>6, <1>7, <2>6, <3>1 DEF ready, Ready, row
      <4>2. Precedes(t, c, y)
        BY <1>4, <4>1
      <4> QED
        BY <2>6, <3>1, <4>2 DEF Precedes
    <3>2. CASE x \in DOMAIN done.copies
      BY <1>7, <1>8, <2>6, <3>2
    <3> QED
      BY <1>7, <3>1, <3>2
  <2> QED
    BY <2>1, <2>2, <2>3, <2>4, <2>5, <2>6 DEF Chosen
<1>14. ASSUME NEW run, IsRun(run, base, None, next.commands)
       PROVE  Grown(run[Len(next.commands)], next, base, t, project)
  <2> DEFINE at == run[Len(done.commands)]
             after == run[Len(next.commands)]
             s == at.store
             u == after.store
  <2>1. /\ IsRun(run, base, None, done.commands) /\ Len(next.commands) = Len(done.commands) + 1
        /\ Allowed(at.store, create, at.held) /\ after = Ran(at, create)
    <3>1. IsRun(run, base, None, Append(done.commands, create)) /\ IsSeq(done.commands)
      BY <1>3, <1>5, <1>14
    <3> HIDE DEF at
    <3>2. /\ IsRun(run, base, None, done.commands) /\ Len(Append(done.commands, create)) = Len(done.commands) + 1
          /\ Allowed(run[Len(done.commands)].store, create, run[Len(done.commands)].held)
          /\ run[Len(done.commands) + 1] = Ran(run[Len(done.commands)], create)
      BY <3>1, RunAppend
    <3> QED
      BY <1>5, <3>2 DEF at
  <2>2. Grown(at, done, base, t, project)
    BY <1>2, <2>1
  <2> HIDE DEF at, after
  <2>3. after.store = After(at.store, create, at.held) /\ after.held = at.held
    BY <1>10, <2>1 DEF Ran
  <2>4. /\ Coherent(s, done.next) /\ at.held = None /\ s.reqs = base.reqs
        /\ (\A d \in DOMAIN t.colls : d \in DOMAIN s.colls /\ s.colls[d] = t.colls[d])
        /\ Twins(s, done.copies, t, project)
    BY <2>2 DEF Grown
  <2>5. IsForest(s.projects, s.colls)
    BY <2>4 DEF Coherent, Sane
  <2>6. Allowed(s, CreateCommand(done.next, project, parent, row.name), at.held)
        /\ u = After(s, CreateCommand(done.next, project, parent, row.name), at.held)
    BY <1>10, <2>1, <2>3
  <2> HIDE DEF s, u
  <2>7. /\ Coherent(u, done.next + 1) /\ u.reqs = s.reqs
        /\ DOMAIN u.colls = DOMAIN s.colls \union {done.next} /\ done.next \notin DOMAIN s.colls
        /\ \A d \in DOMAIN s.colls : u.colls[d] = s.colls[d] /\ Path(u, d) = Path(s, d) /\ Chain(u, d) = Chain(s, d)
        /\ u.colls[done.next].project = project /\ u.colls[done.next].parent = parent
        /\ parent = None => Path(u, done.next) = <<row.name>> /\ Chain(u, done.next) = {done.next}
        /\ parent # None => /\ parent \in DOMAIN s.colls
                            /\ Path(u, done.next) = Append(Path(s, parent), row.name)
                            /\ Chain(u, done.next) = Chain(s, parent) \union {done.next}
        /\ \A d \in Children(s, project, parent) : s.colls[d].order < u.colls[done.next].order
    BY <1>3, <2>4, <2>6, Created
  <2>8. /\ \A x \in DOMAIN done.copies :
              /\ done.copies[x] \in DOMAIN s.colls /\ s.colls[done.copies[x]].project = project
              /\ s.colls[done.copies[x]].parent = ParentOfCopy(done.copies, t.colls[x].parent)
              /\ Path(s, done.copies[x]) = Path(t, x)
        /\ \A x, y \in DOMAIN done.copies :
              /\ done.copies[y] \in Chain(s, done.copies[x]) <=> y \in Chain(t, x)
              /\ t.colls[x].parent = t.colls[y].parent /\ Before(t, x, y)
                    => s.colls[done.copies[x]].order < s.colls[done.copies[y]].order
    BY <2>4 DEF Twins
  <2>9. ASSUME NEW x \in DOMAIN done.copies
        PROVE  ParentOfCopy(next.copies, t.colls[x].parent) = ParentOfCopy(done.copies, t.colls[x].parent)
    <3>1. x \in DOMAIN t.colls
      BY <1>3 DEF InProject
    <3>2. t.colls[x].parent # None => t.colls[x].parent \in DOMAIN t.colls /\ t.colls[x].parent \in Chain(t, x)
      <4>1. t.colls[x].parent # None => t.colls[x].parent \in DOMAIN t.colls
        BY <1>1, <3>1 DEF IsForest
      <4>2. t.colls[x].parent # None => t.colls[x].parent \in Chain(t, t.colls[x].parent)
        BY <1>1, <4>1, ChainFacts
      <4>3. t.colls[x].parent # None => Chain(t, x) = {x} \union Chain(t, t.colls[x].parent)
        BY <1>1, <3>1, ChainUnfold
      <4> QED
        BY <4>1, <4>2, <4>3
    <3>3. t.colls[x].parent # None => t.colls[x].parent \in DOMAIN done.copies
      BY <1>8, <3>2
    <3> QED
      BY <1>7, <3>3 DEF ParentOfCopy
  <2>10. ASSUME NEW x \in DOMAIN next.copies
         PROVE  /\ next.copies[x] \in DOMAIN u.colls /\ u.colls[next.copies[x]].project = project
                /\ u.colls[next.copies[x]].parent = ParentOfCopy(next.copies, t.colls[x].parent)
                /\ Path(u, next.copies[x]) = Path(t, x)
    <3>1. CASE x \in DOMAIN done.copies
      BY <1>7, <2>7, <2>8, <2>9, <3>1
    <3>2. CASE x = c
      <4>1. ParentOfCopy(next.copies, row.parent) = parent
        BY <1>6, <1>7, <1>11, <1>12 DEF ParentOfCopy
      <4>2. Path(u, done.next) = Path(t, c)
        <5>1. row.parent = None => Path(t, c) = <<row.name>>
          BY <1>1, <1>6, PathStep DEF row
        <5>2. row.parent # None => Path(t, c) = Append(Path(t, row.parent), row.name)
          BY <1>1, <1>6, PathStep DEF row
        <5>3. row.parent # None => Path(s, parent) = Path(t, row.parent)
          BY <1>6, <1>11, <2>8
        <5> QED
          BY <1>11, <1>12, <2>7, <5>1, <5>2, <5>3
      <4> QED
        BY <1>7, <2>7, <3>2, <4>1, <4>2 DEF row
    <3> QED
      BY <1>7, <3>1, <3>2
  <2>11. ASSUME NEW x \in DOMAIN next.copies, NEW y \in DOMAIN next.copies
         PROVE  next.copies[y] \in Chain(u, next.copies[x]) <=> y \in Chain(t, x)
    <3>1. CASE x \in DOMAIN done.copies /\ y \in DOMAIN done.copies
      BY <1>7, <2>7, <2>8, <3>1
    <3>2. CASE x \in DOMAIN done.copies /\ y = c
      <4>1. Chain(u, done.copies[x]) = Chain(s, done.copies[x]) /\ Chain(s, done.copies[x]) \subseteq DOMAIN s.colls
        BY <2>5, <2>7, <2>8, <3>2, ChainFacts
      <4>2. c \notin Chain(t, x)
        BY <1>6, <1>8, <3>2
      <4> QED
        BY <1>7, <2>7, <3>2, <4>1, <4>2
    <3>3. CASE x = c /\ y = c
      BY <1>7, <1>9, <2>7, <3>3
    <3>4. CASE x = c /\ y \in DOMAIN done.copies
      <4>1. done.copies[y] # done.next /\ y # c
        BY <1>6, <2>7, <2>8, <3>4
      <4>2. row.parent = None => ~(done.copies[y] \in Chain(u, done.next)) /\ ~(y \in Chain(t, c))
        BY <1>9, <1>12, <2>7, <4>1
      <4>3. row.parent # None => (done.copies[y] \in Chain(s, parent) <=> y \in Chain(t, row.parent))
        BY <1>6, <1>11, <2>8, <3>4
      <4>4. row.parent # None => (done.copies[y] \in Chain(u, done.next) <=> y \in Chain(t, c))
        BY <1>9, <1>11, <2>7, <4>1, <4>3
      <4> QED
        BY <1>7, <3>4, <4>2, <4>4
    <3> QED
      BY <1>7, <3>1, <3>2, <3>3, <3>4
  <2>12. ASSUME NEW x \in DOMAIN next.copies, NEW y \in DOMAIN next.copies,
                t.colls[x].parent = t.colls[y].parent, Before(t, x, y)
         PROVE  u.colls[next.copies[x]].order < u.colls[next.copies[y]].order
    <3>0. x \in DOMAIN t.colls /\ y \in DOMAIN t.colls
      BY <1>3, <1>6, <1>7 DEF InProject
    <3>1. CASE x \in DOMAIN done.copies /\ y \in DOMAIN done.copies
      BY <1>7, <2>7, <2>8, <2>12, <3>1
    <3>2. CASE x \in DOMAIN done.copies /\ y = c
      <4>1. ParentOfCopy(done.copies, t.colls[x].parent) = parent
        BY <2>12, <3>2 DEF parent, row
      <4>2. done.copies[x] \in Children(s, project, parent)
        BY <2>8, <3>2, <4>1 DEF Children
      <4> QED
        BY <1>7, <2>7, <2>8, <3>2, <4>2
    <3>3. CASE x = c
      <4>1. y # c
        <5>1. t.colls[c].order \in Nat /\ c \in Nat
          BY <1>1, <1>6 DEF IsForest, IsRow
        <5> QED
          BY <2>12, <3>3, <5>1 DEF Before
      <4>2. Before(t, y, c)
        BY <1>6, <1>7, <1>8, <2>12, <3>3, <4>1
      <4>3. t.colls[c].order \in Nat /\ c \in Nat /\ t.colls[y].order \in Nat /\ y \in Nat
        BY <1>1, <1>6, <3>0 DEF IsForest, IsRow
      <4> QED
        BY <2>12, <3>3, <4>2, <4>3 DEF Before
    <3> QED
      BY <1>7, <3>1, <3>2, <3>3
  <2>13. Twins(u, next.copies, t, project)
    BY <2>10, <2>11, <2>12 DEF Twins
  <2>14. \A d \in DOMAIN base.colls : d \in DOMAIN u.colls /\ u.colls[d] = base.colls[d]
    BY <2>4, <2>7
  <2>15. after.held = None /\ u.reqs = base.reqs /\ Coherent(u, next.next)
    BY <1>5, <2>3, <2>4, <2>7
  <2> QED
    BY <2>13, <2>14, <2>15 DEF Grown, u, after
<1> QED
  BY <1>13, <1>14 DEF Cloning, next

(* All the collections of a project.                                       *)
LEMMA AllCloned ==
  ASSUME NEW t, Coherent(t, nextId), nextId \in Nat, NEW base, Coherent(base, nextId), base.colls = t.colls, NEW source,
         NEW project
  PROVE  /\ Cloning(Cloned(t, source, project), base, t, source, project, Cardinality(InProject(t, source)))
         /\ DOMAIN Cloned(t, source, project).copies = InProject(t, source)
<1> DEFINE all == InProject(t, source)
           n == Cardinality(all)
           first == [copies |-> <<>>, next |-> nextId, commands |-> <<>>]
           Good(done, i) == Cloning(done, base, t, source, project, i)
<1>1. IsFiniteSet(all) /\ n \in Nat
  <2>1. all \subseteq DOMAIN t.colls /\ IsFiniteSet(DOMAIN t.colls)
    BY DEF InProject, IsForest, Coherent, Sane
  <2> HIDE DEF all
  <2>2. IsFiniteSet(all)
    BY <2>1, FS_Subset
  <2> QED
    BY <2>2, FS_CardinalityType
<1>2. PICK after : ClonedBy(after, t, source, project)
  BY <1>1, CloneSteps
<1>3. /\ after[0] = first /\ Cloned(t, source, project) = after[n]
      /\ \A i \in 1 .. n : after[i] = CloneRound(t, source, project, after[i - 1])
  BY <1>2 DEF ClonedBy
<1>4. Good(first, 0)
  <2>1. first.copies = <<>> /\ first.next = nextId /\ first.commands = <<>>
    OBVIOUS
  <2>2. IsSeq(<<>>) /\ Len(<<>>) = 0 /\ DOMAIN <<>> = {} /\ Cardinality({}) = 0
    <3>1. <<>> \in Seq(Nat)
      OBVIOUS
    <3>2. IsSeq(<<>>)
      BY <3>1, SeqOver
    <3> QED
      BY <3>2, FS_EmptySet
  <2> HIDE DEF first
  <2>3. Chosen(first, t, source, 0)
    <3>1. Numbered(first.commands, nextId, first.next)
      BY <2>1, <2>2 DEF Numbered
    <3> QED
      BY <2>1, <2>2, <3>1 DEF Chosen
  <2>4. ASSUME NEW run, IsRun(run, base, None, first.commands)
        PROVE  Grown(run[Len(first.commands)], first, base, t, project)
    <3>1. run[0] = [store |-> base, held |-> None]
      BY <2>4 DEF IsRun
    <3>2. run[0].store = base /\ run[0].held = None
      BY <3>1
    <3> QED
      BY <2>1, <2>2, <3>2 DEF Grown, Twins
  <2> QED
    BY <2>3, <2>4 DEF Cloning
<1> HIDE DEF first
<1> DEFINE G == {i \in 0 .. n : Good(after[i], i)}
<1>5. 0 \in G
  BY <1>1, <1>3, <1>4
<1>6. ASSUME NEW i \in 0 .. n - 1, i \in G PROVE i + 1 \in G
  <2>1. i \in Nat /\ i < n /\ i + 1 \in 1 .. n /\ i + 1 \in 0 .. n /\ i + 1 - 1 = i
    BY <1>1
  <2>2. after[i + 1] = CloneRound(t, source, project, after[i])
    BY <1>3, <2>1
  <2>3. Cloning(after[i], base, t, source, project, i)
    BY <1>6
  <2>4. Cloning(CloneRound(t, source, project, after[i]), base, t, source, project, i + 1)
    BY <2>1, <2>3, RoundClones
  <2> QED
    BY <2>1, <2>2, <2>4
<1>7. n \in G
  <2>1. n \in Nat /\ \A i \in 0 .. n - 1 : i \in G => i + 1 \in G
    BY <1>1, <1>6
  <2> HIDE DEF G, n
  <2>2. \A i \in 0 .. n : i \in G
    BY <1>5, <2>1, UpTo
  <2> QED
    BY <2>1, <2>2
<1> DEFINE done == Cloned(t, source, project)
<1>8. Cloning(done, base, t, source, project, n)
  BY <1>3, <1>7
<1> HIDE DEF done
<1>9. DOMAIN done.copies \subseteq all /\ Cardinality(DOMAIN done.copies) = n
  BY <1>8 DEF Cloning, Chosen
<1>10. DOMAIN done.copies = all
  <2> HIDE DEF all
  <2> QED
    BY <1>1, <1>9, FS_Subset
<1> QED
  BY <1>8, <1>10 DEF done

(* A request that was loaded is saved as another one.                      *)
LEMMA LoadedIsHeld ==
  ASSUME NEW s, Sane(s), NEW r \in DOMAIN s.reqs
  PROVE  IsReq(s.reqs[r]) /\ s.reqs[r] # None /\ s.reqs[r].coll \in DOMAIN s.colls
<1>1. IsReq(s.reqs[r]) /\ s.reqs[r].coll \in DOMAIN s.colls
  BY DEF Sane, Filed
<1>2. s.reqs[r].coll \in Nat
  BY <1>1 DEF Sane, IsForest
<1>3. s.reqs[r] \in [coll : Nat, caseOf : Nat \union {None}, redacted : BOOLEAN]
  <2> DEFINE x == s.reqs[r]
  <2>1. /\ x = [coll |-> x.coll, caseOf |-> x.caseOf, redacted |-> x.redacted]
        /\ x.coll \in Nat /\ x.caseOf \in Nat \union {None} /\ x.redacted \in BOOLEAN
    BY <1>1, <1>2 DEF IsReq
  <2> HIDE DEF x
  <2>2. x \in [coll : Nat, caseOf : Nat \union {None}, redacted : BOOLEAN]
    BY <2>1
  <2> QED
    BY <2>2 DEF x
<1> QED
  BY <1>1, <1>3, NoneAssumption

(* Saving what was loaded.                                                 *)
LEMMA SavedLoaded ==
  ASSUME NEW s, NEW bound \in Nat, Coherent(s, bound), NEW held, IsReq(held), held # None,
         NEW id \in Nat, id < bound, NEW coll, Allowed(s, SaveLoaded(id, coll), held)
  PROVE  LET t == After(s, SaveLoaded(id, coll), held) IN
         /\ Coherent(t, bound) /\ t.colls = s.colls /\ coll \in DOMAIN s.colls
         /\ DOMAIN t.reqs = DOMAIN s.reqs \union {id} /\ t.reqs[id].coll = coll /\ t.reqs[id].caseOf = held.caseOf
         /\ \A r \in DOMAIN s.reqs : r # id => t.reqs[r] = s.reqs[r]
<1> DEFINE cmd == SaveLoaded(id, coll)
           row == [held EXCEPT !.coll = coll]
<1>1. cmd.kind = "saveLoaded" /\ cmd.id = id /\ cmd.coll = coll
  BY DEF SaveLoaded
<1>2. row.coll = coll /\ row.caseOf = held.caseOf
  <2>1. row = [coll |-> coll, caseOf |-> held.caseOf, redacted |-> held.redacted]
    BY DEF IsReq
  <2> HIDE DEF row
  <2> QED
    BY <2>1
<1> HIDE DEF cmd
<1>3. Fits(cmd, s, bound)
  BY <1>1 DEF Fits
<1>4. After(s, cmd, held) = Changed(s, s.projects, s.colls, With(s.reqs, id, row))
  BY <1>1 DEF After, Saved
<1>5. coll \in DOMAIN s.colls
  BY <1>1 DEF Allowed, cmd
<1>6. Coherent(After(s, cmd, held), bound)
  BY <1>3, AfterCoherent DEF cmd
<1> DEFINE reqs == With(s.reqs, id, row)
<1>7. DOMAIN reqs = DOMAIN s.reqs \union {id} /\ reqs[id] = row /\ \A r \in DOMAIN s.reqs : r # id => reqs[r] = s.reqs[r]
  <2> HIDE DEF row
  <2> QED
    BY DEF With
<1> HIDE DEF row, reqs
<1>8. After(s, cmd, held).colls = s.colls /\ After(s, cmd, held).reqs = reqs
  BY <1>4, ChangedFields DEF reqs
<1> QED
  BY <1>2, <1>5, <1>6, <1>7, <1>8 DEF cmd

(* The pairs of commands that copy the requests.                           *)
Copied(u, t, reqs, colls, k) ==
    /\ \A r \in DOMAIN u.reqs : r \in DOMAIN t.reqs \/ \E j \in 1 .. k : r = colls.next + j - 1
    /\ \A r \in DOMAIN t.reqs : r \in DOMAIN u.reqs /\ u.reqs[r] = t.reqs[r]
    /\ \A j \in 1 .. k : LET r == colls.next + j - 1 IN
          /\ r \in DOMAIN u.reqs /\ u.reqs[r].caseOf = t.reqs[reqs[j]].caseOf
          /\ u.reqs[r].coll = colls.copies[t.reqs[reqs[j]].coll]

InPairs(saves, t, reqs, colls) ==
    /\ IsSeq(saves) /\ Len(saves) = 2 * Len(reqs)
    /\ \A k \in 0 .. Len(reqs) - 1 :
          /\ saves[2 * k + 1] = LoadCommand(reqs[k + 1], FALSE)
          /\ saves[2 * k + 2] = SaveLoaded(colls.next + k, colls.copies[t.reqs[reqs[k + 1]].coll])

(* CloneSaves is a sequence of such pairs.                                 *)
LEMMA SavesSeq ==
  ASSUME NEW t, NEW reqs, IsSeq(reqs), NEW colls, colls.next \in Nat
  PROVE  InPairs(CloneSaves(t, reqs, colls), t, reqs, colls)
<1> DEFINE saves == CloneSaves(t, reqs, colls)
           m == Len(reqs)
           Load(n) == LoadCommand(reqs[n], FALSE)
           Save(n) == SaveLoaded(colls.next + n - 1, colls.copies[t.reqs[reqs[n]].coll])
<1>1. m \in Nat
  BY Appending
<1>2. saves = [i \in 1 .. 2 * m |-> IF i % 2 = 1 THEN Load((i + 1) \div 2) ELSE Save((i + 1) \div 2)]
  BY DEF CloneSaves
<1> HIDE DEF saves, m, Load, Save
<1>3. saves = [i \in 1 .. 2 * m |-> saves[i]] /\ 2 * m \in Nat
  BY <1>1, <1>2
<1>4. IsSeq(saves) /\ Len(saves) = 2 * m
  BY <1>3, SeqOfLength
<1>5. ASSUME NEW k \in 0 .. m - 1 PROVE saves[2 * k + 1] = Load(k + 1) /\ saves[2 * k + 2] = Save(k + 1)
  <2>1. /\ 2 * k + 1 \in 1 .. 2 * m /\ (2 * k + 1) % 2 = 1 /\ (2 * k + 1 + 1) \div 2 = k + 1
        /\ 2 * k + 2 \in 1 .. 2 * m /\ (2 * k + 2) % 2 # 1 /\ (2 * k + 2 + 1) \div 2 = k + 1
    BY <1>1
  <2> QED
    BY <1>2, <2>1
<1>6. ASSUME NEW k \in 0 .. m - 1, colls.next \in Nat
      PROVE Save(k + 1) = SaveLoaded(colls.next + k, colls.copies[t.reqs[reqs[k + 1]].coll])
  <2>1. colls.next + (k + 1) - 1 = colls.next + k
    BY <1>1, <1>6
  <2> QED
    BY <2>1 DEF Save
<1> QED
  BY <1>1, <1>4, <1>5, <1>6 DEF saves, m, Load, InPairs

(* What they make of the store.                                            *)
LEMMA SavesCopy ==
  ASSUME NEW t, Sane(t), NEW s, NEW reqs, IsSeq(reqs), \A k \in 1 .. Len(reqs) : reqs[k] \in DOMAIN t.reqs,
         NEW colls, colls.next \in Nat, Coherent(s, colls.next), s.reqs = t.reqs,
         NEW run, IsRun(run, s, None, CloneSaves(t, reqs, colls))
  PROVE  LET u == run[Len(CloneSaves(t, reqs, colls))].store IN
         /\ Coherent(u, colls.next + Len(reqs)) /\ u.colls = s.colls /\ Copied(u, t, reqs, colls, Len(reqs))
<1> DEFINE saves == CloneSaves(t, reqs, colls)
           m == Len(reqs)
           b == colls.next
           Good(at, k) == /\ Coherent(at.store, b + k) /\ at.store.colls = s.colls /\ Copied(at.store, t, reqs, colls, k)
                          /\ at.held = None \/ IsReq(at.held)
           G == {k \in 0 .. m : Good(run[2 * k], k)}
<1>1. /\ m \in Nat /\ IsSeq(saves) /\ Len(saves) = 2 * m
      /\ \A k \in 0 .. m - 1 : /\ saves[2 * k + 1] = LoadCommand(reqs[k + 1], FALSE)
                               /\ saves[2 * k + 2] = SaveLoaded(b + k, colls.copies[t.reqs[reqs[k + 1]].coll])
  <2>1. InPairs(saves, t, reqs, colls)
    BY SavesSeq
  <2> HIDE DEF saves
  <2> QED
    BY <2>1, Appending DEF InPairs
<1> HIDE DEF saves
<1>2. /\ run[0] = [store |-> s, held |-> None]
      /\ \A i \in 1 .. 2 * m : /\ Allowed(run[i - 1].store, saves[i], run[i - 1].held)
                               /\ run[i] = Ran(run[i - 1], saves[i])
  BY <1>1 DEF IsRun, saves
<1>3. 0 \in G
  <2>1. run[0].store = s /\ run[0].held = None
    BY <1>2
  <2>2. Copied(s, t, reqs, colls, 0)
    BY DEF Copied
  <2>3. b + 0 = b /\ 2 * 0 = 0 /\ 0 \in 0 .. m
    BY <1>1
  <2>4. Good(run[0], 0)
    BY <2>1, <2>2, <2>3
  <2> HIDE DEF Good
  <2> QED
    BY <2>3, <2>4
<1>4. ASSUME NEW k \in 0 .. m - 1, k \in G PROVE k + 1 \in G
  <2> DEFINE at == run[2 * k]
             mid == run[2 * k + 1]
             end == run[2 * k + 2]
             r == reqs[k + 1]
             id == b + k
             coll == colls.copies[t.reqs[r].coll]
             row == t.reqs[r]
  <2>1. /\ k \in Nat /\ k + 1 \in 1 .. m /\ k + 1 \in 0 .. m /\ 2 * k + 1 \in 1 .. 2 * m /\ 2 * k + 2 \in 1 .. 2 * m
        /\ 2 * k + 1 - 1 = 2 * k /\ 2 * k + 2 - 1 = 2 * k + 1 /\ 2 * (k + 1) = 2 * k + 2
    BY <1>1
  <2>2. Good(at, k)
    BY <1>4
  <2>3. mid = Ran(at, LoadCommand(r, FALSE))
    <3>1. run[2 * k + 1] = Ran(run[2 * k + 1 - 1], saves[2 * k + 1])
      BY <1>2, <2>1
    <3>2. saves[2 * k + 1] = LoadCommand(reqs[k + 1], FALSE)
      BY <1>1
    <3> QED
      BY <2>1, <3>1, <3>2
  <2>4. Allowed(mid.store, SaveLoaded(id, coll), mid.held) /\ end = Ran(mid, SaveLoaded(id, coll))
    <3>1. /\ Allowed(run[2 * k + 2 - 1].store, saves[2 * k + 2], run[2 * k + 2 - 1].held)
          /\ run[2 * k + 2] = Ran(run[2 * k + 2 - 1], saves[2 * k + 2])
      BY <1>2, <2>1
    <3>2. saves[2 * k + 2] = SaveLoaded(b + k, colls.copies[t.reqs[reqs[k + 1]].coll])
      BY <1>1
    <3> QED
      BY <2>1, <3>1, <3>2
  <2>5. r \in DOMAIN t.reqs /\ b \in Nat /\ id \in Nat /\ id < b + (k + 1) /\ b + k \in Nat /\ b + (k + 1) \in Nat
        /\ b + k <= b + (k + 1)
    BY <2>1
  <2> HIDE DEF at, mid, end, r, id, coll
  <2>6. Coherent(at.store, b + k) /\ at.store.colls = s.colls /\ Copied(at.store, t, reqs, colls, k)
    BY <2>2
  <2>7. r \in DOMAIN at.store.reqs /\ at.store.reqs[r] = row
    BY <2>5, <2>6 DEF Copied
  <2>8. IsReq(row) /\ row # None
    BY <2>5, LoadedIsHeld
  <2>9. mid.store = at.store /\ mid.held = row
    <3> DEFINE cmd == LoadCommand(r, FALSE)
    <3>1. cmd.kind = "load" /\ cmd.id = r
      BY DEF LoadCommand
    <3> HIDE DEF cmd, row
    <3>2. After(at.store, cmd, at.held) = at.store
      BY <3>1 DEF After
    <3>3. Loaded(at.store, cmd) = row
      BY <2>7, <3>1 DEF Loaded
    <3>4. mid = [store |-> at.store, held |-> row]
      BY <2>3, <3>1, <3>2, <3>3 DEF Ran, cmd
    <3> QED
      BY <3>4
  <2>10. end.store = After(at.store, SaveLoaded(id, coll), row) /\ end.held = row
    <3> DEFINE cmd == SaveLoaded(id, coll)
    <3>1. cmd.kind = "saveLoaded"
      BY DEF SaveLoaded
    <3> HIDE DEF cmd, row
    <3>2. end = [store |-> After(at.store, cmd, row), held |-> row]
      BY <2>4, <2>9, <3>1 DEF Ran, cmd
    <3> QED
      BY <3>2 DEF cmd
  <2>11. Coherent(at.store, b + (k + 1)) /\ Allowed(at.store, SaveLoaded(id, coll), row)
    BY <2>4, <2>5, <2>6, <2>9, CoherentMore
  <2> DEFINE u == end.store
             v == at.store
  <2>12. u = After(v, SaveLoaded(id, coll), row)
    BY <2>10
  <2>13. /\ Coherent(u, b + (k + 1)) /\ u.colls = v.colls
         /\ DOMAIN u.reqs = DOMAIN v.reqs \union {id} /\ u.reqs[id].coll = coll /\ u.reqs[id].caseOf = row.caseOf
         /\ \A x \in DOMAIN v.reqs : x # id => u.reqs[x] = v.reqs[x]
    <3> HIDE DEF u, v, row
    <3>1. Coherent(v, b + (k + 1)) /\ Allowed(v, SaveLoaded(id, coll), row)
      BY <2>11 DEF v
    <3> QED
      BY <2>5, <2>8, <2>12, <3>1, SavedLoaded
  <2>14. id \notin DOMAIN v.reqs
    <3>1. \A x \in DOMAIN v.reqs : x \in Nat /\ x < b + k
      BY <2>6 DEF Coherent, Sane, Filed
    <3> QED
      BY <2>5, <3>1 DEF id
  <2> HIDE DEF u, v
  <2>15. Copied(v, t, reqs, colls, k) /\ Coherent(v, b + k)
    BY <2>6 DEF v
  <2>16. ASSUME NEW x \in DOMAIN u.reqs PROVE x \in DOMAIN t.reqs \/ \E j \in 1 .. k + 1 : x = b + j - 1
    <3>1. CASE x = id
      <4>1. k + 1 \in 1 .. k + 1 /\ b + (k + 1) - 1 = id
        <5>1. b \in Nat /\ k \in Nat /\ id = b + k
          BY <2>1, <2>5 DEF id
        <5> HIDE DEF b
        <5> QED
          BY <5>1
      <4> QED
        BY <3>1, <4>1
    <3>2. CASE x # id
      <4>1. x \in DOMAIN t.reqs \/ \E j \in 1 .. k : x = b + j - 1
        BY <2>13, <2>15, <3>2 DEF Copied
      <4>2. \A j \in 1 .. k : j \in 1 .. k + 1
        BY <2>1
      <4> QED
        BY <4>1, <4>2
    <3> QED
      BY <3>1, <3>2
  <2>17. \A x \in DOMAIN t.reqs : x \in DOMAIN u.reqs /\ u.reqs[x] = t.reqs[x]
    BY <2>13, <2>14, <2>15 DEF Copied
  <2>18. ASSUME NEW j \in 1 .. k + 1
         PROVE  LET x == b + j - 1 IN
                /\ x \in DOMAIN u.reqs /\ u.reqs[x].caseOf = t.reqs[reqs[j]].caseOf
                /\ u.reqs[x].coll = colls.copies[t.reqs[reqs[j]].coll]
    <3>1. CASE j = k + 1
      <4>1. b + j - 1 = id /\ reqs[j] = r
        BY <2>1, <2>5, <3>1 DEF id, r
      <4> QED
        BY <2>13, <4>1 DEF coll
    <3>2. CASE j \in 1 .. k
      <4> DEFINE x == b + j - 1
      <4>1. /\ x \in DOMAIN v.reqs /\ v.reqs[x].caseOf = t.reqs[reqs[j]].caseOf
            /\ v.reqs[x].coll = colls.copies[t.reqs[reqs[j]].coll]
        BY <2>15, <3>2 DEF Copied
      <4> HIDE DEF x
      <4>2. x \in DOMAIN u.reqs /\ u.reqs[x] = v.reqs[x]
        BY <2>13, <2>14, <4>1
      <4>3. /\ x \in DOMAIN u.reqs /\ u.reqs[x].caseOf = t.reqs[reqs[j]].caseOf
            /\ u.reqs[x].coll = colls.copies[t.reqs[reqs[j]].coll]
        BY <4>1, <4>2
      <4> QED
        BY <4>3 DEF x
    <3> QED
      BY <2>1, <3>1, <3>2
  <2>19. Copied(u, t, reqs, colls, k + 1)
    BY <2>16, <2>17, <2>18 DEF Copied
  <2>20. Good(end, k + 1)
    BY <2>6, <2>8, <2>10, <2>13, <2>19 DEF u, v
  <2>21. run[2 * (k + 1)] = end
    BY <2>1 DEF end
  <2> HIDE DEF Good
  <2> QED
    BY <2>1, <2>20, <2>21
<1>5. m \in G
  <2>1. m \in Nat /\ \A i \in 0 .. m - 1 : i \in G => i + 1 \in G
    BY <1>1, <1>4
  <2> HIDE DEF G, m
  <2>2. \A i \in 0 .. m : i \in G
    BY <1>3, <2>1, UpTo
  <2> QED
    BY <2>1, <2>2
<1> QED
  BY <1>1, <1>5 DEF saves

(* The requests of a project, each once.                                   *)
ListsAll(reqs, t, source) ==
    /\ Len(reqs) \in Nat
    /\ \A k \in 1 .. Len(reqs) : reqs[k] \in DOMAIN t.reqs /\ ProjectOf(t, reqs[k]) = source
    /\ \A r \in DOMAIN t.reqs : ProjectOf(t, r) = source => \E k \in 1 .. Len(reqs) : reqs[k] = r
    /\ \A i, j \in 1 .. Len(reqs) : reqs[i] = reqs[j] => i = j

(* A chain stays in its project.                                           *)
LEMMA ChainProject ==
  ASSUME NEW s, IsForest(s.projects, s.colls), NEW c \in DOMAIN s.colls
  PROVE  \A d \in Chain(s, c) : s.colls[d].project = s.colls[c].project
BY ChainFacts

(* A project and its copy, in the store u that the commands lead to.       *)
CopyStands(t, u, source, project, colls, reqs) ==
    /\ Sane(t) /\ IsForest(u.projects, u.colls) /\ project # source
    /\ DOMAIN colls.copies = InProject(t, source) /\ Twins(u, colls.copies, t, project)
    /\ \A d \in DOMAIN t.colls : d \in DOMAIN u.colls /\ u.colls[d] = t.colls[d]
    /\ \A x \in DOMAIN colls.copies : colls.copies[x] \notin DOMAIN t.colls
    /\ ListsAll(reqs, t, source) /\ colls.next \in Nat /\ \A r \in DOMAIN t.reqs : r < colls.next
    /\ Copied(u, t, reqs, colls, Len(reqs))

(* The copy of a folder holds as many interfaces as the folder: both are   *)
(* counted by the requests copied.                                         *)
LEMMA SameCounts ==
  ASSUME NEW t, NEW u, NEW source, NEW project, NEW colls, NEW reqs,
         CopyStands(t, u, source, project, colls, reqs), NEW c \in DOMAIN colls.copies
  PROVE  CollectionRequestCount(u, colls.copies[c]) = CollectionRequestCount(u, c)
<1> DEFINE m == Len(reqs)
           copy == colls.copies
           b == colls.next
           A == {r \in Interfaces(u) : c \in Chain(u, u.reqs[r].coll)}
           B == {r \in Interfaces(u) : copy[c] \in Chain(u, u.reqs[r].coll)}
           K == {k \in 1 .. m : t.reqs[reqs[k]].caseOf = None /\ c \in Chain(t, t.reqs[reqs[k]].coll)}
<1>0. /\ Sane(t) /\ IsForest(u.projects, u.colls) /\ project # source
      /\ DOMAIN colls.copies = InProject(t, source) /\ Twins(u, colls.copies, t, project)
      /\ \A d \in DOMAIN t.colls : d \in DOMAIN u.colls /\ u.colls[d] = t.colls[d]
      /\ \A x \in DOMAIN colls.copies : colls.copies[x] \notin DOMAIN t.colls
      /\ colls.next \in Nat /\ (\A r \in DOMAIN t.reqs : r < colls.next) /\ Copied(u, t, reqs, colls, Len(reqs))
      /\ m \in Nat
      /\ \A k \in 1 .. m : reqs[k] \in DOMAIN t.reqs /\ ProjectOf(t, reqs[k]) = source
      /\ \A r \in DOMAIN t.reqs : ProjectOf(t, r) = source => \E k \in 1 .. m : reqs[k] = r
      /\ \A i, j \in 1 .. m : reqs[i] = reqs[j] => i = j
  BY DEF CopyStands, ListsAll
<1> USE <1>0
<1>1. IsForest(t.projects, t.colls) /\ Filed(t.colls, t.reqs)
  BY DEF Sane
<1>2. \A d \in DOMAIN t.colls : Chain(u, d) = Chain(t, d)
  <2>1. IsForest(t.projects, t.colls) /\ IsForest(u.projects, u.colls)
        /\ \A d \in DOMAIN t.colls : d \in DOMAIN u.colls /\ u.colls[d] = t.colls[d]
    BY <1>1
  <2> QED
    BY ONLY <2>1, SameAbove
<1>3. \A d \in DOMAIN t.colls : Chain(t, d) \subseteq DOMAIN t.colls
                                /\ \A e \in Chain(t, d) : t.colls[e].project = t.colls[d].project
  BY <1>1, ChainFacts
<1>4. c \in DOMAIN t.colls /\ t.colls[c].project = source
  BY DEF InProject
<1>5. \A k \in 1 .. m : reqs[k] \in DOMAIN t.reqs /\ t.reqs[reqs[k]].coll \in DOMAIN t.colls /\ t.reqs[reqs[k]].coll \in DOMAIN copy
  BY <1>0, <1>1 DEF ProjectOf, InProject, Filed
<1>6. /\ \A x \in DOMAIN copy : copy[x] \in DOMAIN u.colls /\ u.colls[copy[x]].project = project
      /\ \A x, y \in DOMAIN copy : copy[y] \in Chain(u, copy[x]) <=> y \in Chain(t, x)
  BY DEF Twins
<1>7. \A x \in DOMAIN copy : c \notin Chain(u, copy[x])
  <2> SUFFICES ASSUME NEW x \in DOMAIN copy, c \in Chain(u, copy[x]) PROVE FALSE
    OBVIOUS
  <2>1. copy[x] \in DOMAIN u.colls /\ IsForest(u.projects, u.colls)
    BY <1>6
  <2>2. \A e \in Chain(u, copy[x]) : u.colls[e].project = u.colls[copy[x]].project
    BY <2>1, ChainProject
  <2>3. u.colls[c].project = u.colls[copy[x]].project
    BY <2>2
  <2> QED
    BY <1>4, <1>6, <2>3
<1>8. /\ \A r \in DOMAIN u.reqs : r \in DOMAIN t.reqs \/ \E j \in 1 .. m : r = b + j - 1
      /\ \A r \in DOMAIN t.reqs : r \in DOMAIN u.reqs /\ u.reqs[r] = t.reqs[r] /\ t.reqs[r].coll \in DOMAIN t.colls
      /\ \A j \in 1 .. m : /\ b + j - 1 \in DOMAIN u.reqs /\ u.reqs[b + j - 1].caseOf = t.reqs[reqs[j]].caseOf
                           /\ u.reqs[b + j - 1].coll = copy[t.reqs[reqs[j]].coll]
  BY <1>1 DEF Copied, Filed
<1>9. ASSUME NEW k \in K PROVE reqs[k] \in A
  <2> DEFINE r == reqs[k]
  <2>1. r \in DOMAIN t.reqs /\ t.reqs[r].caseOf = None /\ t.reqs[r].coll \in DOMAIN t.colls /\ c \in Chain(t, t.reqs[r].coll)
    BY <1>5
  <2> HIDE DEF r
  <2>2. r \in DOMAIN u.reqs /\ u.reqs[r].caseOf = None /\ c \in Chain(u, u.reqs[r].coll)
    BY <1>2, <1>8, <2>1
  <2> QED
    BY <2>2 DEF Interfaces, r
<1>10. ASSUME NEW r \in A PROVE \E k \in K : reqs[k] = r
  <2>1. r \in DOMAIN u.reqs /\ u.reqs[r].caseOf = None /\ c \in Chain(u, u.reqs[r].coll)
    BY DEF Interfaces
  <2>2. CASE r \in DOMAIN t.reqs
    <3>1. t.reqs[r].caseOf = None /\ c \in Chain(t, t.reqs[r].coll)
      BY <1>2, <1>8, <2>1, <2>2
    <3>2. ProjectOf(t, r) = source
      BY <1>3, <1>4, <1>8, <2>2, <3>1 DEF ProjectOf
    <3>3. PICK k \in 1 .. m : reqs[k] = r
      BY <1>0, <2>2, <3>2
    <3> QED
      BY <3>1, <3>3
  <2>3. CASE r \notin DOMAIN t.reqs
    <3>1. PICK j \in 1 .. m : r = b + j - 1
      BY <1>8, <2>1, <2>3
    <3>2. u.reqs[r].coll = copy[t.reqs[reqs[j]].coll] /\ t.reqs[reqs[j]].coll \in DOMAIN copy
      BY <1>5, <1>8, <3>1
    <3> QED
      BY <1>7, <2>1, <3>2
  <2> QED
    BY <2>2, <2>3
<1>11. ASSUME NEW k \in K PROVE b + k - 1 \in B
  <2> DEFINE r == b + k - 1
             x == t.reqs[reqs[k]].coll
  <2>1. r \in DOMAIN u.reqs /\ u.reqs[r].caseOf = None /\ u.reqs[r].coll = copy[x] /\ x \in DOMAIN copy /\ c \in Chain(t, x)
    BY <1>5, <1>8
  <2> HIDE DEF r, x
  <2>2. copy[c] \in Chain(u, copy[x])
    BY <1>6, <2>1
  <2> QED
    BY <2>1, <2>2 DEF Interfaces, r
<1>12. ASSUME NEW r \in B PROVE \E k \in K : b + k - 1 = r
  <2>1. r \in DOMAIN u.reqs /\ u.reqs[r].caseOf = None /\ copy[c] \in Chain(u, u.reqs[r].coll)
    BY DEF Interfaces
  <2>2. r \notin DOMAIN t.reqs
    BY <1>2, <1>3, <1>8, <2>1
  <2>3. PICK j \in 1 .. m : r = b + j - 1
    BY <1>8, <2>1, <2>2
  <2>4. t.reqs[reqs[j]].caseOf = None /\ copy[c] \in Chain(u, copy[t.reqs[reqs[j]].coll])
    BY <1>8, <2>1, <2>3
  <2>5. c \in Chain(t, t.reqs[reqs[j]].coll)
    BY <1>5, <1>6, <2>4
  <2> QED
    BY <2>3, <2>4, <2>5
<1>13. IsFiniteSet(K) /\ \A k \in K : k \in 1 .. m
  <2>1. K \subseteq 1 .. m /\ IsFiniteSet(1 .. m)
    BY FS_Interval
  <2> HIDE DEF K, m
  <2> QED
    BY <2>1, FS_Subset
<1> HIDE DEF A, B, K
<1>14. Cardinality(A) = Cardinality(K)
  <2> DEFINE f == [k \in K |-> reqs[k]]
  <2>1. f \in [K -> A] /\ (\A i, j \in K : f[i] = f[j] => i = j) /\ \A r \in A : \E k \in K : f[k] = r
    BY <1>0, <1>9, <1>10, <1>13
  <2> HIDE DEF f
  <2>2. f \in Bijection(K, A)
    BY <2>1 DEF Bijection, Injection, Surjection, IsInjective
  <2> QED
    BY <1>13, <2>2, FS_Bijection DEF ExistsBijection
<1>15. Cardinality(B) = Cardinality(K)
  <2> DEFINE f == [k \in K |-> b + k - 1]
  <2>1. f \in [K -> B] /\ \A r \in B : \E k \in K : f[k] = r
    BY <1>11, <1>12
  <2>2. \A i, j \in K : f[i] = f[j] => i = j
    <3>1. \A i, j \in 1 .. m : b + i - 1 = b + j - 1 => i = j
      BY <1>0
    <3> QED
      BY <1>13, <3>1
  <2> HIDE DEF f
  <2>3. f \in Bijection(K, B)
    BY <2>1, <2>2 DEF Bijection, Injection, Surjection, IsInjective
  <2> QED
    BY <1>13, <2>3, FS_Bijection DEF ExistsBijection
<1> QED
  BY <1>14, <1>15 DEF A, B, CollectionRequestCount

(* A script stays numbered as ids are given out.                           *)
LEMMA NumberedMore ==
  ASSUME NEW cmds, NEW first, NEW next, Numbered(cmds, first, next), NEW m \in Nat, next <= m
  PROVE  Numbered(cmds, first, m)
<1>1. next \in Nat /\ first \in Nat /\ first <= next
  BY DEF Numbered
<1>2. ASSUME NEW k \in DOMAIN cmds
      PROVE  /\ Plain(cmds[k], m)
             /\ Makes(cmds, k) => cmds[k].id \in Nat /\ first <= cmds[k].id /\ cmds[k].id < m
  <2>1. Plain(cmds[k], next) /\ (Makes(cmds, k) => cmds[k].id \in Nat /\ first <= cmds[k].id /\ cmds[k].id < next)
    BY DEF Numbered
  <2>2. Plain(cmds[k], m)
    BY <1>1, <2>1, PlainMore
  <2> QED
    BY <1>1, <2>1, <2>2
<1> QED
  BY <1>1, <1>2 DEF Numbered

(* The ids of the requests copied are the next ones.                       *)
LEMMA SavesNumbered ==
  ASSUME NEW saves, NEW t, NEW reqs, NEW colls, Len(reqs) \in Nat, InPairs(saves, t, reqs, colls),
         NEW first \in Nat, colls.next \in Nat, first <= colls.next
  PROVE  /\ Numbered(saves, first, colls.next + Len(reqs))
         /\ \A i \in DOMAIN saves : ~Makes(saves, i)
<1> DEFINE m == Len(reqs)
           b == colls.next
<1>1. IsSeq(saves) /\ DOMAIN saves = 1 .. 2 * m
  BY Appending DEF InPairs
<1>2. ASSUME NEW i \in 1 .. 2 * m PROVE Plain(saves[i], b + m) /\ ~Makes(saves, i)
  <2> DEFINE k == (i - 1) \div 2
  <2>1. k \in 0 .. m - 1 /\ (i = 2 * k + 1 \/ i = 2 * k + 2)
    BY Z3
  <2> HIDE DEF k
  <2>2. /\ saves[2 * k + 1] = LoadCommand(reqs[k + 1], FALSE)
        /\ saves[2 * k + 2] = SaveLoaded(b + k, colls.copies[t.reqs[reqs[k + 1]].coll])
    BY <2>1 DEF InPairs
  <2>3. b + k \in Nat /\ b + k < b + m
    BY <2>1
  <2>4. saves[2 * k + 1].kind = "load"
    BY <2>2 DEF LoadCommand
  <2>5. saves[2 * k + 2].kind = "saveLoaded" /\ saves[2 * k + 2].id = b + k
    BY <2>2 DEF SaveLoaded
  <2>6. CASE i = 2 * k + 1
    BY <2>4, <2>6 DEF Plain, Makes
  <2>7. CASE i = 2 * k + 2
    BY <2>3, <2>5, <2>7 DEF Plain, Makes
  <2> QED
    BY <2>1, <2>6, <2>7
<1>3. b + m \in Nat /\ first <= b + m
  OBVIOUS
<1> QED
  BY <1>1, <1>2, <1>3 DEF Numbered, Makes

(* What a clone's commands make of any tree that is sound.                 *)
LEMMA CloneForetold ==
  ASSUME nextId \in Nat, NEW t, Coherent(t, nextId), NEW source, NEW p
  PROVE  LET colls == Cloned(t, source, p)
             reqs == SetToSeq({r \in DOMAIN t.reqs : ProjectOf(t, r) = source})
             body == <<[kind |-> "createProject", project |-> p]>> \o colls.commands \o CloneSaves(t, reqs, colls)
             work == [kind |-> "clone", source |-> source, copies |-> colls.copies]
         IN  /\ Len(colls.commands) \in Nat /\ Len(reqs) \in Nat
             /\ Numbered(body, nextId, nextId + (Len(colls.commands) + Len(reqs)))
             /\ p # source => Leads(work, t, None, body \o <<Refresh>>)
<1> DEFINE colls == Cloned(t, source, p)
           all == {r \in DOMAIN t.reqs : ProjectOf(t, r) = source}
           reqs == SetToSeq(all)
           first == [kind |-> "createProject", project |-> p]
           one == <<first>>
           saves == CloneSaves(t, reqs, colls)
           body == one \o colls.commands \o saves
           work == [kind |-> "clone", source |-> source, copies |-> colls.copies]
           n == Cardinality(InProject(t, source))
           m == colls.next + Len(reqs)
<1>1. IsForest(t.projects, t.colls) /\ Filed(t.colls, t.reqs) /\ Sane(t) /\ \A r \in DOMAIN t.reqs : r \in Nat /\ r < nextId
  BY DEF Coherent, Sane, Filed
<1>2. /\ IsSeq(reqs) /\ Len(reqs) \in Nat
      /\ ListsAll(reqs, t, source)
  <2>1. IsFiniteSet(all)
    <3>1. all \subseteq DOMAIN t.reqs /\ IsFiniteSet(DOMAIN t.reqs)
      BY <1>1 DEF Filed
    <3> HIDE DEF all
    <3> QED
      BY <3>1, FS_Subset
  <2> HIDE DEF all
  <2>2. /\ IsSeq(reqs) /\ Len(reqs) \in Nat
        /\ \A k \in 1 .. Len(reqs) : reqs[k] \in all
        /\ \A r \in all : \E k \in 1 .. Len(reqs) : reqs[k] = r
        /\ \A i, j \in 1 .. Len(reqs) : reqs[i] = reqs[j] => i = j
    BY <2>1, SeqOfSet
  <2> HIDE DEF reqs
  <2> QED
    BY <2>2 DEF all, ListsAll
<1> HIDE DEF reqs
<1>3. Cloning(colls, t, t, source, p, n) /\ DOMAIN colls.copies = InProject(t, source)
  BY AllCloned
<1>4. /\ Numbered(colls.commands, nextId, colls.next) /\ colls.next = nextId + Len(colls.commands)
      /\ \A x \in DOMAIN colls.copies : colls.copies[x] \in Nat /\ nextId <= colls.copies[x]
  BY <1>3 DEF Cloning, Chosen
<1>5. /\ IsSeq(colls.commands) /\ Len(colls.commands) \in Nat /\ colls.next \in Nat /\ nextId <= colls.next
      /\ m \in Nat /\ nextId <= m /\ colls.next <= m /\ m = nextId + (Len(colls.commands) + Len(reqs))
  <2>1. IsSeq(colls.commands) /\ colls.next \in Nat /\ nextId <= colls.next
    BY <1>4 DEF Numbered
  <2>2. Len(colls.commands) \in Nat
    BY <2>1, Appending
  <2>3. Len(reqs) \in Nat /\ nextId \in Nat /\ colls.next = nextId + Len(colls.commands)
    BY <1>2, <1>4
  <2> HIDE DEF colls
  <2> QED
    BY <2>1, <2>2, <2>3
<1>6. InPairs(saves, t, reqs, colls)
  <2> HIDE DEF colls
  <2> QED
    BY <1>2, <1>5, SavesSeq
<1> HIDE DEF saves, colls
<1>7. Numbered(saves, nextId, m) /\ \A i \in DOMAIN saves : ~Makes(saves, i)
  BY <1>2, <1>5, <1>6, SavesNumbered
<1>8. IsSeq(one) /\ Len(one) = 1 /\ DOMAIN one = {1} /\ one[1] = first /\ first.kind = "createProject"
  <2>1. one \in Seq({first}) /\ Len(one) = 1 /\ DOMAIN one = {1} /\ one[1] = first
    <3> HIDE DEF first
    <3> QED
      OBVIOUS
  <2>2. IsSeq(one)
    <3> HIDE DEF one
    <3> QED
      BY <2>1, SeqOver
  <2> QED
    BY <2>1, <2>2
<1> HIDE DEF one, first
<1>9. Numbered(one, nextId, m) /\ \A i \in DOMAIN one : ~Makes(one, i)
  <2>1. \A i \in DOMAIN one : ~Makes(one, i) /\ Plain(one[i], m)
    BY <1>8 DEF Plain, Makes
  <2> QED
    BY <1>5, <1>8, <2>1 DEF Numbered
<1> DEFINE a == one \o colls.commands
<1>10. Numbered(a, nextId, m)
  <2>1. Numbered(colls.commands, nextId, m)
    <3> HIDE DEF m
    <3> QED
      BY <1>4, <1>5, NumberedMore
  <2> QED
    BY <1>9, <2>1, NumberedJoin
<1> HIDE DEF a
<1>11. Numbered(a \o saves, nextId, m) /\ IsSeq(a) /\ IsSeq(saves) /\ IsSeq(a \o saves)
  <2>1. Numbered(a \o saves, nextId, m)
    BY <1>7, <1>10, NumberedJoin
  <2> QED
    BY <1>7, <1>10, <2>1 DEF Numbered
<1>12. body = a \o saves
  BY DEF a
<1> HIDE DEF body, m
<1>13. ASSUME p # source, NEW run, IsRun(run, t, None, body) PROVE Promised(work, run[Len(body)].store)
  <2> DEFINE at == run[Len(one)]
             mid == run[Len(a)]
             end == run[Len(body)]
             u == end.store
  <2>1. PICK last : IsRun(run, t, None, a) /\ IsRun(last, mid.store, mid.held, saves) /\ last[Len(saves)] = end
    <3>1. IsRun(run, t, None, a \o saves)
      BY <1>12, <1>13
    <3>2. /\ IsRun(run, t, None, a)
          /\ \E rest : IsRun(rest, run[Len(a)].store, run[Len(a)].held, saves) /\ rest[Len(saves)] = run[Len(a \o saves)]
      BY <1>11, <3>1, RunSplit
    <3> QED
      BY <1>12, <3>2
  <2>2. PICK rest : IsRun(run, t, None, one) /\ IsRun(rest, at.store, at.held, colls.commands)
                    /\ rest[Len(colls.commands)] = mid
    <3>1. IsRun(run, t, None, one \o colls.commands)
      BY <2>1 DEF a
    <3>2. /\ IsRun(run, t, None, one)
          /\ \E rest : /\ IsRun(rest, run[Len(one)].store, run[Len(one)].held, colls.commands)
                       /\ rest[Len(colls.commands)] = run[Len(one \o colls.commands)]
      <4>1. IsSeq(one) /\ IsSeq(colls.commands)
        BY <1>5, <1>8
      <4> QED
        BY <3>1, <4>1, RunSplit
    <3> QED
      BY <3>2 DEF a
  <2>3. Coherent(at.store, nextId) /\ at.store.colls = t.colls /\ at.store.reqs = t.reqs /\ at.held = None
    <3>1. \A i \in 1 .. Len(one) : one[i].kind = "createProject"
      BY <1>8
    <3>2. IsSeq(one) /\ IsRun(run, t, None, one) /\ nextId \in Nat /\ Coherent(t, nextId)
      BY <1>8, <2>2
    <3>3. /\ Coherent(run[Len(one)].store, nextId) /\ run[Len(one)].store.colls = t.colls
          /\ run[Len(one)].store.reqs = t.reqs /\ run[Len(one)].held = None
      BY <3>1, <3>2, ProjectsRun
    <3> QED
      BY <3>3
  <2> HIDE DEF at, mid, end
  <2>4. Cloning(colls, at.store, t, source, p, n)
    <3>1. Cloning(Cloned(t, source, p), at.store, t, source, p, n)
      BY <2>3, AllCloned
    <3> QED
      BY <3>1 DEF colls
  <2>5. Grown(mid, colls, at.store, t, p)
    <3>1. IsRun(rest, at.store, None, colls.commands)
      BY <2>2, <2>3
    <3> QED
      BY <2>2, <2>4, <3>1 DEF Cloning
  <2>6. /\ Coherent(mid.store, colls.next) /\ mid.held = None /\ mid.store.reqs = t.reqs
        /\ \A c \in DOMAIN t.colls : c \in DOMAIN mid.store.colls /\ mid.store.colls[c] = t.colls[c]
        /\ Twins(mid.store, colls.copies, t, p)
    BY <2>3, <2>5 DEF Grown
  <2>7. Coherent(u, m) /\ u.colls = mid.store.colls /\ Copied(u, t, reqs, colls, Len(reqs))
    <3>1. \A k \in 1 .. Len(reqs) : reqs[k] \in DOMAIN t.reqs
      BY <1>2 DEF ListsAll
    <3>2. IsRun(last, mid.store, None, CloneSaves(t, reqs, colls))
      BY <2>1, <2>6 DEF saves
    <3>3. LET v == last[Len(CloneSaves(t, reqs, colls))].store IN
          /\ Coherent(v, colls.next + Len(reqs)) /\ v.colls = mid.store.colls /\ Copied(v, t, reqs, colls, Len(reqs))
      BY <1>1, <1>2, <1>5, <2>6, <3>1, <3>2, SavesCopy
    <3> QED
      BY <2>1, <3>3 DEF saves, m
  <2> HIDE DEF u
  <2>8. IsForest(u.projects, u.colls) /\ IsForest(mid.store.projects, mid.store.colls)
        /\ (\A d \in DOMAIN t.colls : d \in DOMAIN u.colls /\ u.colls[d] = t.colls[d])
        /\ \A d \in DOMAIN mid.store.colls : d \in DOMAIN u.colls /\ u.colls[d] = mid.store.colls[d]
    BY <2>6, <2>7 DEF Coherent, Sane
  <2>9. \A d \in DOMAIN mid.store.colls : Chain(u, d) = Chain(mid.store, d) /\ Path(u, d) = Path(mid.store, d)
    <3> DEFINE v == mid.store
    <3>1. IsForest(v.projects, v.colls) /\ IsForest(u.projects, u.colls)
          /\ \A d \in DOMAIN v.colls : d \in DOMAIN u.colls /\ u.colls[d] = v.colls[d]
      BY <2>8
    <3> HIDE DEF v
    <3>2. \A d \in DOMAIN v.colls : Chain(u, d) = Chain(v, d) /\ Path(u, d) = Path(v, d)
      BY <3>1, SameAbove
    <3> QED
      BY <3>2 DEF v
  <2>10. \A d \in DOMAIN t.colls : Path(u, d) = Path(t, d)
    BY <1>1, <2>8, SameAbove
  <2>11. Twins(u, colls.copies, t, p)
    <3> DEFINE v == mid.store
               copies == colls.copies
    <3>1. /\ \A x \in DOMAIN copies : /\ copies[x] \in DOMAIN v.colls /\ v.colls[copies[x]].project = p
                                      /\ v.colls[copies[x]].parent = ParentOfCopy(copies, t.colls[x].parent)
                                      /\ Path(v, copies[x]) = Path(t, x)
          /\ \A x, y \in DOMAIN copies : /\ copies[y] \in Chain(v, copies[x]) <=> y \in Chain(t, x)
                                         /\ t.colls[x].parent = t.colls[y].parent /\ Before(t, x, y)
                                               => v.colls[copies[x]].order < v.colls[copies[y]].order
      BY <2>6 DEF Twins
    <3>2. u.colls = v.colls /\ \A d \in DOMAIN v.colls : Chain(u, d) = Chain(v, d) /\ Path(u, d) = Path(v, d)
      BY <2>7, <2>9
    <3> HIDE DEF v, copies
    <3>3. Twins(u, copies, t, p)
      BY <3>1, <3>2 DEF Twins
    <3> QED
      BY <3>3 DEF copies
  <2>12. work.kind = "clone" /\ work.copies = colls.copies
    OBVIOUS
  <2> HIDE DEF work
  <2>13. ASSUME NEW c \in DOMAIN colls.copies
         PROVE  /\ Path(u, colls.copies[c]) = Path(u, c)
                /\ CollectionRequestCount(u, colls.copies[c]) = CollectionRequestCount(u, c)
    <3>1. c \in DOMAIN t.colls
      BY <1>3 DEF InProject
    <3>2. Path(u, colls.copies[c]) = Path(t, c)
      BY <2>11 DEF Twins
    <3>3. \A x \in DOMAIN colls.copies : colls.copies[x] \notin DOMAIN t.colls
      <4>1. \A d \in DOMAIN t.colls : d \in Nat /\ d < nextId
        BY DEF Coherent, Sane, IsForest
      <4> QED
        BY <1>4, <4>1
    <3>4. \A r \in DOMAIN t.reqs : r < colls.next
      BY <1>1, <1>5
    <3>5. CollectionRequestCount(u, colls.copies[c]) = CollectionRequestCount(u, c)
      <4>1. Sane(t) /\ IsForest(u.projects, u.colls) /\ p # source /\ DOMAIN colls.copies = InProject(t, source)
        BY <1>1, <1>3, <1>13, <2>8
      <4>2. /\ Twins(u, colls.copies, t, p) /\ ListsAll(reqs, t, source) /\ colls.next \in Nat
            /\ Copied(u, t, reqs, colls, Len(reqs))
        BY <1>2, <1>5, <2>7, <2>11
      <4>3. \A d \in DOMAIN t.colls : d \in DOMAIN u.colls /\ u.colls[d] = t.colls[d]
        BY <2>8
      <4>4. CopyStands(t, u, source, p, colls, reqs)
        BY <3>3, <3>4, <4>1, <4>2, <4>3 DEF CopyStands
      <4> QED
        BY <4>4, SameCounts
    <3> QED
      BY <2>10, <3>1, <3>2, <3>5
  <2>14. ASSUME NEW c \in DOMAIN colls.copies, NEW d \in DOMAIN colls.copies, u.colls[c].parent = u.colls[d].parent,
                Before(u, c, d)
         PROVE  Before(u, colls.copies[c], colls.copies[d])
    <3>1. c \in DOMAIN t.colls /\ d \in DOMAIN t.colls
      BY <1>3 DEF InProject
    <3>2. t.colls[c].parent = t.colls[d].parent /\ Before(t, c, d)
      BY <2>8, <2>14, <3>1 DEF Before
    <3>3. u.colls[colls.copies[c]].order < u.colls[colls.copies[d]].order
      BY <2>11, <3>2 DEF Twins
    <3> QED
      BY <3>3 DEF Before
  <2>15. Mirrored(work, u)
    BY <2>12, <2>13, <2>14 DEF Mirrored
  <2> QED
    BY <2>12, <2>15 DEF Promised, u, end
<1>14. p # source => Leads(work, t, None, body \o <<Refresh>>)
  <2> HIDE DEF work
  <2> QED
    BY <1>11, <1>12, <1>13, RefreshEnds
<1> QED
  <2>1. /\ Len(colls.commands) \in Nat /\ Len(reqs) \in Nat
        /\ Numbered(body, nextId, nextId + (Len(colls.commands) + Len(reqs)))
    BY <1>2, <1>5, <1>11, <1>12
  <2> QED
    BY <1>14, <2>1 DEF colls, reqs, saves, body, one, first, work
===============================================================================
