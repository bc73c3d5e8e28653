---------------------------- MODULE BlobStoreProofs ----------------------------
(***************************************************************************)
(* Proofs about the blobs of the local store: for any number of requests,  *)
(* executions, bodies, failures and crashes, every stored reference can be *)
(* read back, and without failures nothing leaks.                          *)
(*                                                                         *)
(* The argument is a count.  A row's ref_count is at least the number of   *)
(* references in the tables, plus the slots in which the operation under   *)
(* way holds the blob, plus the releases that it still owes: so a row that *)
(* is deleted, when its count goes from one to zero on account of such a   *)
(* release, is referred to by nobody.  Failures only lose references that  *)
(* are held or owed; without them the count is exact.                      *)
(***************************************************************************)
EXTENDS BlobStore, FiniteSetTheorems, TLAPS

Working == pc \in {"put", "insert", "commit"}
Clean == faults = 0 /\ mismatches = 0

(* The references to blob b in the tables, in the operation's slots and in *)
(* the releases that it owes.                                              *)
Wants(rq, b) == {r \in Requests : rq[r].blob = b}
Snaps(ex, b) == {x \in Executions : ex[x].snap = b}
Resps(ex, b) == {x \in Executions : ex[x].resp = b}
Having(S, blobs, b) == {x \in S : blobs[x] = b}
HeldIn(h, b) == {s \in Slots : h[s] = b}
Refers(rq, r, b) == IF rq[r].blob = b THEN 1 ELSE 0
Rewritten(rq, rq2, k) == \A r \in Requests \ {k} : rq2[r] = rq[r]
DueIn(q, b) == {t \in q : t.blob = b}
OwedIn(rq, ex, h, q, b) ==
    Cardinality(Wants(rq, b)) + Cardinality(Snaps(ex, b)) + Cardinality(Resps(ex, b))
    + Cardinality(HeldIn(h, b)) + Cardinality(DueIn(q, b))
Owed(b) == OwedIn(reqs, execs, held, releases, b)

(* The count.                                                              *)
Counted == \A b \in Blobs : index[b].refs >= Owed(b) /\ (Clean => index[b].refs = Owed(b))

(* A content has one row, and the file of a row is complete.               *)
RowsSound ==
    /\ \A a, b \in Blobs : Exists(a) /\ index[a].content = index[b].content => a = b
    /\ \A b \in Blobs : Exists(b) => file[index[b].content] = "full"

(* A request's blob has its body as content.                               *)
Bodies ==
    \A r \in Requests :
        /\ reqs[r].blob = None <=> reqs[r].body = None
        /\ reqs[r].blob # None => index[reqs[r].blob].content = reqs[r].body

(* The operation under way: what it stores, holds and owes.                *)
SaveSound ==
    Working /\ op.kind = "save" =>
        /\ op.key \in Requests /\ op.project \in Projects /\ op.collection \in Collections
        /\ op.body \in Contents \union {None} /\ op.prev = reqs[op.key].blob
        /\ puts["resp"] = None /\ puts["snap"] = None /\ puts["preview"] = None
        /\ held["resp"] = None /\ held["snap"] = None
        /\ IF held["body"] = None THEN puts["body"] = op.body
           ELSE index[held["body"]].content = op.body /\ op.body # None
        /\ mismatches = 0 => ProjectOf[op.collection] = op.project
RecordSound ==
    Working /\ op.kind = "record" =>
        op.key \in Executions /\ puts["body"] = None /\ held["body"] = None
OpSound ==
    /\ Working => releases = {} /\ op.kind \in {"save", "record"}
    /\ ~Working => held = NothingHeld
    /\ pc = "idle" => releases = {}
    /\ \A s \in Slots : puts[s] # None => held[s] = None
    /\ pc = "commit" => puts = NoPuts
    /\ pc \in {"put", "insert"} => content # None
    /\ pc = "insert" => NewContent /\ file[content] = "full" /\ held[HeldFor] = None
    /\ pc = "unlink" => op.content \in Contents /\ \A b \in Blobs : index[b].content # op.content

(* Without a mismatch every request is in its collection's project.        *)
Matching ==
    mismatches = 0 =>
        \A r \in Stored : reqs[r].collection \in Collections /\ ProjectOf[reqs[r].collection] = reqs[r].project

(* Without failures a file has a row, but while one is being made or ends. *)
FilesKept ==
    Clean => \A c \in Contents : file[c] # "none" =>
        \/ \E b \in Blobs : index[b].content = c
        \/ pc = "insert" /\ c = content
        \/ pc = "unlink" /\ c = op.content

BlobInv ==
    /\ TypeOK /\ Counted /\ RowsSound /\ Bodies /\ SaveSound /\ RecordSound /\ OpSound
    /\ Matching /\ FilesKept

-------------------------------------------------------------------------------
(* The blob counts are counts of finite sets.                              *)
LEMMA Slotted == IsFiniteSet(Slots) /\ Slots \subseteq PutSlots
<1>1. IsFiniteSet({"body"}) /\ IsFiniteSet({"body"} \union {"snap"})
  BY FS_Singleton, FS_AddElement
<1>2. IsFiniteSet(({"body"} \union {"snap"}) \union {"resp"})
  BY <1>1, FS_AddElement
<1>3. Slots = ({"body"} \union {"snap"}) \union {"resp"}
  BY DEF Slots
<1> QED BY <1>2, <1>3 DEF PutSlots

LEMMA PartCount ==
    ASSUME NEW S, IsFiniteSet(S), NEW T, T \subseteq S
    PROVE  IsFiniteSet(T) /\ Cardinality(T) \in Nat /\ (Cardinality(T) = 0 <=> T = {})
<1>1. IsFiniteSet(T)
  BY FS_Subset
<1> QED BY <1>1, FS_CardinalityType, FS_EmptySet

LEMMA Counts ==
    ASSUME NEW rq, NEW ex, NEW h, NEW q, IsFiniteSet(q), NEW b
    PROVE  /\ IsFiniteSet(Wants(rq, b)) /\ Cardinality(Wants(rq, b)) \in Nat
           /\ IsFiniteSet(Snaps(ex, b)) /\ Cardinality(Snaps(ex, b)) \in Nat
           /\ IsFiniteSet(Resps(ex, b)) /\ Cardinality(Resps(ex, b)) \in Nat
           /\ IsFiniteSet(HeldIn(h, b)) /\ Cardinality(HeldIn(h, b)) \in Nat
           /\ IsFiniteSet(DueIn(q, b)) /\ Cardinality(DueIn(q, b)) \in Nat
<1>1. IsFiniteSet(Wants(rq, b)) /\ Cardinality(Wants(rq, b)) \in Nat
  BY PartCount, BlobStoreAssumption DEF Wants
<1>2. IsFiniteSet(Snaps(ex, b)) /\ Cardinality(Snaps(ex, b)) \in Nat
  BY PartCount, BlobStoreAssumption DEF Snaps
<1>3. IsFiniteSet(Resps(ex, b)) /\ Cardinality(Resps(ex, b)) \in Nat
  BY PartCount, BlobStoreAssumption DEF Resps
<1>4. IsFiniteSet(HeldIn(h, b)) /\ Cardinality(HeldIn(h, b)) \in Nat
  BY PartCount, Slotted DEF HeldIn
<1>5. IsFiniteSet(DueIn(q, b)) /\ Cardinality(DueIn(q, b)) \in Nat
  BY PartCount DEF DueIn
<1> QED BY <1>1, <1>2, <1>3, <1>4, <1>5

(* A row that is gone has nothing left that refers to it, and neither has  *)
(* one that goes with its last release.                                    *)
LEMMA Unreferred ==
    ASSUME TypeOK, Counted, NEW b \in Blobs,
           index[b].refs = 0 \/ (index[b].refs <= 1 /\ \E t \in releases : t.blob = b)
    PROVE  /\ \A r \in Requests : reqs[r].blob # b
           /\ \A x \in Executions : execs[x].snap # b /\ execs[x].resp # b
           /\ \A s \in Slots : held[s] # b
           /\ index[b].refs = 0 => \A t \in releases : t.blob # b
<1> DEFINE i == Cardinality(Wants(reqs, b))
           j == Cardinality(Snaps(execs, b))
           k == Cardinality(Resps(execs, b))
           l == Cardinality(HeldIn(held, b))
           m == Cardinality(DueIn(releases, b))
           n == index[b].refs
<1>f. IsFiniteSet(releases)
  BY DEF TypeOK
<1>c. i \in Nat /\ j \in Nat /\ k \in Nat /\ l \in Nat /\ m \in Nat
  BY <1>f, Counts
<1>n. n \in Nat
  BY DEF TypeOK
<1>g. n >= i + j + k + l + m
  BY DEF Counted, Owed, OwedIn
<1>d. (\E t \in releases : t.blob = b) => m # 0
  <2> SUFFICES ASSUME NEW t \in releases, t.blob = b PROVE m # 0
    OBVIOUS
  <2>1. DueIn(releases, b) # {}
    BY DEF DueIn
  <2> QED BY <2>1, <1>f, Counts, FS_EmptySet
<1>1. i = 0 /\ j = 0 /\ k = 0 /\ l = 0 /\ (n = 0 => m = 0)
  <2>1. n = 0 \/ (n <= 1 /\ m # 0)
    BY <1>d
  <2> HIDE DEF i, j, k, l, m, n
  <2> QED BY <2>1, <1>c, <1>n, <1>g
<1>2. /\ Wants(reqs, b) = {} /\ Snaps(execs, b) = {} /\ Resps(execs, b) = {} /\ HeldIn(held, b) = {}
      /\ n = 0 => DueIn(releases, b) = {}
  BY <1>1, <1>f, Counts, FS_EmptySet
<1> QED BY <1>2 DEF Wants, Snaps, Resps, HeldIn, DueIn

(* As many tokens for b as members of S have it.                           *)
LEMMA TokenCount ==
    ASSUME NEW S, IsFiniteSet(S), NEW blobs, NEW b, b # None
    PROVE  /\ IsFiniteSet(Tokens(S, blobs))
           /\ IsFiniteSet(Having(S, blobs, b))
           /\ Cardinality(DueIn(Tokens(S, blobs), b)) = Cardinality(Having(S, blobs, b))
<1> DEFINE Y == {y \in S : blobs[y] # None}
           X == {x \in S : blobs[x] = b}
           T == {t \in Tokens(S, blobs) : t.blob = b}
           f == [x \in Y |-> [of |-> x, blob |-> blobs[x]]]
           g == [x \in X |-> [of |-> x, blob |-> blobs[x]]]
<1>1. IsFiniteSet(Y) /\ IsFiniteSet(X)
  BY FS_Subset
<1>2. f \in Surjection(Y, Tokens(S, blobs))
  BY DEF Surjection, Tokens
<1>3. IsFiniteSet(Tokens(S, blobs))
  <2> HIDE DEF f, Y
  <2> QED BY <1>1, <1>2, FS_Surjection
<1>4. g \in [X -> T] /\ (\A x, y \in X : g[x] = g[y] => x = y) /\ (\A t \in T : \E x \in X : g[x] = t)
  <2>1. g \in [X -> T]
    BY DEF Tokens
  <2>2. ASSUME NEW x \in X, NEW y \in X, g[x] = g[y] PROVE x = y
    <3>1. g[x].of = x /\ g[y].of = y
      OBVIOUS
    <3> QED BY <2>2, <3>1
  <2>3. ASSUME NEW t \in T PROVE \E x \in X : g[x] = t
    <3>1. PICK x \in S : blobs[x] # None /\ t = [of |-> x, blob |-> blobs[x]]
      BY DEF Tokens
    <3>2. x \in X
      BY <3>1
    <3>3. g[x] = t
      BY <3>1, <3>2
    <3> QED BY <3>2, <3>3
  <2> QED BY <2>1, <2>2, <2>3
<1>5. ExistsBijection(X, T)
  <2> HIDE DEF g, X, T
  <2>1. g \in Bijection(X, T)
    BY <1>4 DEF Bijection, Injection, Surjection, IsInjective
  <2> QED BY <2>1 DEF ExistsBijection
<1>6. Cardinality(T) = Cardinality(X)
  <2> HIDE DEF g, X, T
  <2> QED BY <1>1, <1>5, FS_Bijection
<1> QED BY <1>1, <1>3, <1>6 DEF DueIn, Having

(* How the counts change when a slot is filled, a token is spent, a row is *)
(* overwritten and nothing is held.                                        *)
LEMMA SlotFilled ==
    ASSUME NEW h \in [Slots -> Blobs \union {None}], NEW s \in Slots, h[s] = None, NEW c \in Blobs, NEW b \in Blobs
    PROVE  Cardinality(HeldIn([h EXCEPT ![s] = c], b)) = Cardinality(HeldIn(h, b)) + (IF b = c THEN 1 ELSE 0)
<1>0. b # None
  BY BlobStoreAssumption
<1>f. IsFiniteSet(HeldIn(h, b)) /\ Cardinality(HeldIn(h, b)) \in Nat
  BY PartCount, Slotted DEF HeldIn
<1>1. CASE b = c
  <2>1. HeldIn([h EXCEPT ![s] = c], b) = HeldIn(h, b) \union {s} /\ s \notin HeldIn(h, b)
    BY <1>0, <1>1 DEF HeldIn
  <2> QED BY <1>1, <1>f, <2>1, FS_AddElement
<1>2. CASE b # c
  <2>1. HeldIn([h EXCEPT ![s] = c], b) = HeldIn(h, b)
    BY <1>0, <1>2 DEF HeldIn
  <2> QED BY <1>2, <1>f, <2>1
<1> QED BY <1>1, <1>2

LEMMA TokenSpent ==
    ASSUME NEW q, IsFiniteSet(q), NEW t \in q, NEW b
    PROVE  /\ IsFiniteSet(q \ {t})
           /\ Cardinality(DueIn(q \ {t}, b)) = Cardinality(DueIn(q, b)) - (IF t.blob = b THEN 1 ELSE 0)
<1>f. IsFiniteSet(q \ {t}) /\ IsFiniteSet(DueIn(q, b)) /\ Cardinality(DueIn(q, b)) \in Nat
  BY FS_RemoveElement, PartCount DEF DueIn
<1>1. CASE t.blob = b
  <2>1. DueIn(q \ {t}, b) = DueIn(q, b) \ {t} /\ t \in DueIn(q, b)
    BY <1>1 DEF DueIn
  <2> QED BY <1>1, <1>f, <2>1, FS_RemoveElement
<1>2. CASE t.blob # b
  <2>1. DueIn(q \ {t}, b) = DueIn(q, b)
    BY <1>2 DEF DueIn
  <2> QED BY <1>2, <1>f, <2>1
<1> QED BY <1>1, <1>2

LEMMA RowWritten ==
    ASSUME NEW rq, NEW rq2, NEW k \in Requests, Rewritten(rq, rq2, k), NEW b
    PROVE  Cardinality(Wants(rq2, b)) =
              Cardinality(Wants(rq, b)) - Refers(rq, k, b) + Refers(rq2, k, b)
<1> DEFINE W == Wants(rq, b) \ {k}
<1>f. /\ IsFiniteSet(Wants(rq, b)) /\ Cardinality(Wants(rq, b)) \in Nat
      /\ IsFiniteSet(W) /\ Cardinality(W) \in Nat
  BY PartCount, BlobStoreAssumption DEF Wants
<1>1. Cardinality(W) = Cardinality(Wants(rq, b)) - Refers(rq, k, b)
  <2>1. k \in Wants(rq, b) <=> rq[k].blob = b
    BY DEF Wants
  <2> QED BY <1>f, <2>1, FS_RemoveElement DEF Refers
<1>2. Cardinality(Wants(rq2, b)) = Cardinality(W) + Refers(rq2, k, b)
  <2>1. CASE rq2[k].blob = b
    <3>1. Wants(rq2, b) = W \union {k} /\ k \notin W
      BY <2>1 DEF Wants, Rewritten
    <3> QED BY <1>f, <2>1, <3>1, FS_AddElement DEF Refers
  <2>2. CASE rq2[k].blob # b
    <3>1. Wants(rq2, b) = W
      BY <2>2 DEF Wants, Rewritten
    <3> QED BY <1>f, <2>2, <3>1 DEF Refers
  <2> QED BY <2>1, <2>2
<1> QED BY <1>1, <1>2

LEMMA NoneHeld ==
    ASSUME NEW b \in Blobs
    PROVE  /\ Cardinality(HeldIn(NothingHeld, b)) = 0
           /\ IsFiniteSet({}) /\ Cardinality(DueIn({}, b)) = 0
<1>1. HeldIn(NothingHeld, b) = {} /\ DueIn({}, b) = {}
  BY BlobStoreAssumption DEF HeldIn, NothingHeld, DueIn
<1> QED BY <1>1, FS_EmptySet

(* What release of the members of S sets up.                               *)
LEMMA Released ==
    ASSUME NEW S, NEW blobs, Release(S, blobs)
    PROVE  /\ pc' \in {"idle", "release"} /\ op' = NoOp /\ puts' = NoPuts /\ held' = NothingHeld
           /\ releases' = Tokens(S, blobs) /\ (pc' = "idle" => releases' = {})
  BY DEF Release, Return

(* The first body to store is one.                                         *)
LEMMA FirstBody ==
    ASSUME NEW p \in [PutSlots -> Contents \union {None}], p # NoPuts
    PROVE  LET s == IF p["body"] # None THEN "body" ELSE IF p["resp"] # None THEN "resp"
                    ELSE IF p["snap"] # None THEN "snap" ELSE "preview"
           IN  s \in PutSlots /\ p[s] # None
<1>1. \E s \in PutSlots : p[s] # None
  <2> SUFFICES ASSUME \A s \in PutSlots : p[s] = None PROVE FALSE
    OBVIOUS
  <2>1. p = NoPuts
    BY DEF NoPuts
  <2> QED BY <2>1
<1> QED BY <1>1 DEF PutSlots, Slots

LEMMA SlotOf == slot \in PutSlots /\ HeldFor \in Slots
  BY DEF slot, PutSlots, Slots, HeldFor

-------------------------------------------------------------------------------
(* An operation that has stored nothing and owes at most releases.         *)
LEMMA Rested ==
    ASSUME pc' \in {"idle", "release"}, op' = NoOp, held' = NothingHeld, pc' = "idle" => releases' = {}
    PROVE  SaveSound' /\ RecordSound' /\ OpSound'
<1>1. \A s \in Slots : held'[s] = None
  BY DEF NothingHeld
<1>2. SaveSound' /\ RecordSound'
  BY DEF SaveSound, RecordSound, Working
<1>3. OpSound'
  BY <1>1 DEF OpSound, Working
<1> QED BY <1>2, <1>3

LEMMA RestedTypes ==
    /\ NoPuts \in [PutSlots -> Contents \union {None}]
    /\ NothingHeld \in [Slots -> Blobs \union {None}]
    /\ NoRequest \in [project : Projects \union {None}, collection : Collections \union {None},
                      blob : Blobs \union {None}, body : Contents \union {None}]
    /\ NoBlob \in [content : Contents \union {None}, refs : Nat]
  BY DEF NoPuts, NothingHeld, NoRequest, NoBlob

(* A failure is counted.                                                   *)
LEMMA Failed ==
    ASSUME TypeOK, Fault
    PROVE  faults' \in 0 .. MaxFaults /\ mismatches' = mismatches /\ ~Clean' /\ mismatches' \in 0 .. MaxMismatches
  BY BlobStoreAssumption DEF TypeOK, Fault, Clean

(* An operation that fails loses what it held and what it owed.            *)
LEMMA CountLess ==
    ASSUME TypeOK, Counted, ~Clean', UNCHANGED <<index, reqs, execs>>, held' = NothingHeld, IsFiniteSet(releases'),
           \A b \in Blobs : Cardinality(DueIn(releases', b)) <=
                               Cardinality(HeldIn(held, b)) + Cardinality(DueIn(releases, b))
    PROVE  Counted'
<1> SUFFICES ASSUME NEW b \in Blobs PROVE index[b].refs >= OwedIn(reqs, execs, NothingHeld, releases', b)
  BY DEF Counted, Owed
<1> DEFINE i == Cardinality(Wants(reqs, b))
           j == Cardinality(Snaps(execs, b))
           k == Cardinality(Resps(execs, b))
           l == Cardinality(HeldIn(held, b))
           m == Cardinality(DueIn(releases, b))
           l2 == Cardinality(HeldIn(NothingHeld, b))
           m2 == Cardinality(DueIn(releases', b))
           n == index[b].refs
<1>1. i \in Nat /\ j \in Nat /\ k \in Nat /\ l \in Nat /\ m \in Nat /\ m2 \in Nat /\ n \in Nat
  BY Counts DEF TypeOK
<1>2. l2 = 0 /\ m2 <= l + m
  BY NoneHeld
<1>3. n >= i + j + k + l + m
  BY DEF Counted, Owed, OwedIn
<1>4. n >= i + j + k + l2 + m2
  <2> HIDE DEF i, j, k, l, m, l2, m2, n
  <2> QED BY <1>1, <1>2, <1>3
<1> QED BY <1>4 DEF OwedIn

(* An operation ends with an error or with the process.                    *)
LEMMA GiveUpKeeps ==
    ASSUME BlobInv, Fault, Return, UNCHANGED <<index, rowVars>>, file' \in [Contents -> {"none", "partial", "full"}],
           \A c \in Contents : file'[c] # file[c] => \A b \in Blobs : index[b].content # c
    PROVE  BlobInv'
<1>0. /\ faults' \in 0 .. MaxFaults /\ mismatches' = mismatches /\ ~Clean' /\ mismatches' \in 0 .. MaxMismatches
  BY Failed DEF BlobInv
<1>1. /\ pc' = "idle" /\ op' = NoOp /\ puts' = NoPuts /\ held' = NothingHeld /\ releases' = {}
      /\ UNCHANGED <<index, reqs, execs, projects, collections>>
  BY DEF Return, rowVars
<1>2. SaveSound' /\ RecordSound' /\ OpSound'
  BY <1>1, Rested
<1>3. TypeOK'
  BY <1>0, <1>1, RestedTypes, FS_EmptySet DEF BlobInv, TypeOK, Exists
<1>4. Counted'
  <2>1. \A b \in Blobs : Cardinality(DueIn(releases', b)) <= Cardinality(HeldIn(held, b)) + Cardinality(DueIn(releases, b))
    <3> SUFFICES ASSUME NEW b \in Blobs PROVE 0 <= Cardinality(HeldIn(held, b)) + Cardinality(DueIn(releases, b))
      BY <1>1, NoneHeld
    <3>1. Cardinality(HeldIn(held, b)) \in Nat /\ Cardinality(DueIn(releases, b)) \in Nat
      BY Counts DEF BlobInv, TypeOK
    <3> QED BY <3>1
  <2> QED BY <1>0, <1>1, <2>1, FS_EmptySet, CountLess DEF BlobInv
<1>5. RowsSound'
  BY <1>1 DEF BlobInv, RowsSound, Exists, TypeOK
<1>6. Bodies' /\ Matching'
  BY <1>0, <1>1 DEF BlobInv, Bodies, Matching, Stored
<1>7. FilesKept'
  BY <1>0 DEF FilesKept
<1> QED BY <1>2, <1>3, <1>4, <1>5, <1>6, <1>7 DEF BlobInv

LEMMA FailKeeps == ASSUME BlobInv, ReleaseFails \/ Crash PROVE BlobInv'
<1>1. Fault /\ Return /\ UNCHANGED <<index, rowVars>>
  BY DEF ReleaseFails, Crash
<1>2. file' = file \/ (pc = "put" /\ NewContent /\ file' = [file EXCEPT ![content] = "partial"])
  BY DEF ReleaseFails, Crash
<1>3. file \in [Contents -> {"none", "partial", "full"}]
  BY DEF BlobInv, TypeOK
<1> QED BY <1>1, <1>2, <1>3, GiveUpKeeps DEF NewContent

(* Nothing that is counted changes.                                        *)
LEMMA CountSame ==
    ASSUME Counted, Clean' => Clean, UNCHANGED <<index, execs, held, releases>>,
           \A r \in Requests : reqs'[r].blob = reqs[r].blob
    PROVE  Counted'
<1>1. \A b : Wants(reqs', b) = Wants(reqs, b)
  BY DEF Wants
<1>2. \A b : OwedIn(reqs', execs', held', releases', b) = OwedIn(reqs, execs, held, releases, b)
  BY <1>1 DEF OwedIn
<1> QED BY <1>2 DEF Counted, Owed

(* Moving a request, creating a project or a collection: no blob is        *)
(* involved.                                                               *)
LEMMA RowKeeps ==
    ASSUME BlobInv,
           \/ \E r \in Requests, c \in Collections : MoveRequest(r, c)
           \/ \E p \in Projects : CreateProject(p)
           \/ \E c \in Collections : CreateCollection(c)
    PROVE  BlobInv'
<1>1. /\ pc = "idle" /\ UNCHANGED <<index, file, execs, pc, op, puts, held, releases, faults, mismatches>>
      /\ projects' \subseteq Projects /\ collections' \subseteq Collections
  BY DEF MoveRequest, CreateProject, CreateCollection, localVars, counters, BlobInv, TypeOK
<1>2. /\ reqs' \in [Requests -> [project : Projects \union {None}, collection : Collections \union {None},
                                 blob : Blobs \union {None}, body : Contents \union {None}]]
      /\ \A r \in Requests : reqs'[r].blob = reqs[r].blob /\ reqs'[r].body = reqs[r].body
      /\ Matching'
  <2>t. reqs \in [Requests -> [project : Projects \union {None}, collection : Collections \union {None},
                               blob : Blobs \union {None}, body : Contents \union {None}]]
    BY DEF BlobInv, TypeOK
  <2>1. CASE reqs' = reqs
    BY <2>1, <2>t, <1>1 DEF BlobInv, Matching, Stored
  <2>2. CASE \E r \in Requests, c \in Collections : MoveRequest(r, c)
    <3>1. PICK r \in Requests, c \in Collections : MoveRequest(r, c)
      BY <2>2
    <3>2. reqs' = [reqs EXCEPT ![r].project = ProjectOf[c], ![r].collection = c] /\ r \in Stored
      BY <3>1 DEF MoveRequest
    <3>3. ProjectOf[c] \in Projects
      BY BlobStoreAssumption
    <3>4. /\ \A q \in Requests \ {r} : reqs'[q] = reqs[q]
          /\ reqs'[r].project = ProjectOf[c] /\ reqs'[r].collection = c
          /\ reqs'[r].blob = reqs[r].blob /\ reqs'[r].body = reqs[r].body
      BY <2>t, <3>2
    <3>5. reqs' \in [Requests -> [project : Projects \union {None}, collection : Collections \union {None},
                                  blob : Blobs \union {None}, body : Contents \union {None}]]
      BY <2>t, <3>2, <3>3
    <3>6. Matching'
      BY <1>1, <3>4 DEF BlobInv, Matching, Stored
    <3> QED BY <3>4, <3>5, <3>6
  <2> QED BY <2>1, <2>2 DEF CreateProject, CreateCollection
<1>3. TypeOK'
  BY <1>1, <1>2 DEF BlobInv, TypeOK, Exists
<1>4. Counted'
  BY <1>1, <1>2, CountSame DEF BlobInv, Clean
<1>5. RowsSound' /\ Bodies'
  BY <1>1, <1>2 DEF BlobInv, RowsSound, Bodies, Exists
<1>6. SaveSound' /\ RecordSound' /\ OpSound'
  BY <1>1 DEF BlobInv, SaveSound, RecordSound, OpSound, Working
<1>7. FilesKept'
  BY <1>1 DEF BlobInv, FilesKept, Clean
<1> QED BY <1>2, <1>3, <1>4, <1>5, <1>6, <1>7 DEF BlobInv

(* An operation starts with the bodies it will store.                      *)
LEMMA StartKeeps ==
    ASSUME BlobInv, NEW o, NEW bodies \in [PutSlots -> Contents \union {None}], Start(o, bodies),
           faults' = faults, mismatches' \in 0 .. MaxMismatches, mismatches' = 0 => mismatches = 0,
           o.kind \in {"save", "record"},
           o.kind = "save" =>
              /\ o.key \in Requests /\ o.project \in Projects /\ o.collection \in Collections
              /\ o.body \in Contents \union {None} /\ o.prev = reqs[o.key].blob
              /\ bodies["resp"] = None /\ bodies["snap"] = None /\ bodies["preview"] = None
              /\ bodies["body"] = o.body
              /\ mismatches' = 0 => ProjectOf[o.collection] = o.project,
           o.kind = "record" => o.key \in Executions /\ bodies["body"] = None
    PROVE  BlobInv'
<1>1. /\ pc = "idle" /\ op' = o /\ puts' = bodies /\ UNCHANGED <<index, file, reqs, execs, projects, collections, held, releases>>
      /\ pc' = IF bodies = NoPuts THEN "commit" ELSE "put"
  BY DEF Start, rowVars
<1>2. /\ held = NothingHeld /\ releases = {} /\ \A s \in Slots : held[s] = None
  BY <1>1 DEF BlobInv, OpSound, Working, NothingHeld
<1>3. TypeOK'
  BY <1>1 DEF BlobInv, TypeOK, Exists
<1>4. Counted'
  BY <1>1, CountSame DEF BlobInv, Clean
<1>5. RowsSound' /\ Bodies' /\ Matching'
  BY <1>1 DEF BlobInv, RowsSound, Bodies, Exists, Matching, Stored
<1>6. SaveSound' /\ RecordSound'
  BY <1>1, <1>2 DEF SaveSound, RecordSound, Slots
<1>7. pc' = "put" => content' # None
  BY <1>1, FirstBody DEF content, slot
<1>8. OpSound'
  BY <1>1, <1>2, <1>7 DEF OpSound, Working
<1>9. FilesKept'
  BY <1>1 DEF BlobInv, FilesKept, Clean
<1> QED BY <1>3, <1>4, <1>5, <1>6, <1>8, <1>9 DEF BlobInv

LEMMA SaveStarts ==
    ASSUME BlobInv, NEW r \in Requests, NEW p \in Projects, NEW c \in Collections, NEW body \in Contents \union {None},
           SaveRequest(r, p, c, body)
    PROVE  BlobInv'
<1> DEFINE o == [kind |-> "save", key |-> r, project |-> p, collection |-> c, body |-> body, prev |-> reqs[r].blob]
           bodies == [NoPuts EXCEPT !["body"] = body]
<1>1. Start(o, bodies) /\ faults' = faults
  BY DEF SaveRequest
<1>2. IF ProjectOf[c] = p THEN mismatches' = mismatches ELSE mismatches < MaxMismatches /\ mismatches' = mismatches + 1
  BY DEF SaveRequest
<1>3. /\ mismatches' \in 0 .. MaxMismatches /\ (mismatches' = 0 => mismatches = 0)
      /\ (mismatches' = 0 => ProjectOf[c] = p)
  BY <1>2, BlobStoreAssumption DEF BlobInv, TypeOK
<1>4. /\ bodies \in [PutSlots -> Contents \union {None}] /\ bodies["body"] = body
      /\ bodies["resp"] = None /\ bodies["snap"] = None /\ bodies["preview"] = None
  BY DEF NoPuts, PutSlots, Slots
<1>5. /\ o.kind = "save" /\ o.key = r /\ o.project = p /\ o.collection = c /\ o.body = body /\ o.prev = reqs[r].blob
  OBVIOUS
<1> HIDE DEF o, bodies
<1> QED BY <1>1, <1>3, <1>4, <1>5, StartKeeps

LEMMA RecordStarts ==
    ASSUME BlobInv, NEW x \in Executions, NEW resp \in Contents \union {None}, NEW snap \in Contents \union {None},
           NEW preview \in Contents \union {None}, RecordExecution(x, resp, snap, preview)
    PROVE  BlobInv'
<1> DEFINE o == [kind |-> "record", key |-> x]
           bodies == [NoPuts EXCEPT !["resp"] = resp, !["snap"] = snap, !["preview"] = preview]
<1>1. Start(o, bodies) /\ faults' = faults /\ mismatches' = mismatches
  BY DEF RecordExecution, counters
<1>2. bodies \in [PutSlots -> Contents \union {None}] /\ bodies["body"] = None
  BY DEF NoPuts, PutSlots, Slots
<1>3. o.kind = "record" /\ o.key = x /\ mismatches \in 0 .. MaxMismatches
  BY DEF BlobInv, TypeOK
<1> HIDE DEF o, bodies
<1> QED BY <1>1, <1>2, <1>3, StartKeeps

-------------------------------------------------------------------------------
(* put_blob.  The body at hand is one, and its slot is empty.              *)
LEMMA AtHand ==
    ASSUME BlobInv, pc \in {"put", "insert"}
    PROVE  /\ content \in Contents /\ content # None
           /\ pc = "insert" \/ ~Superfluous => held[HeldFor] = None
           /\ op.kind \in {"save", "record"} /\ releases = {}
           /\ op.kind = "save" => slot = "body" /\ puts["body"] = op.body /\ held["body"] = None
           /\ op.kind = "record" => slot # "body"
<1>1. content \in Contents /\ content # None
  BY SlotOf DEF BlobInv, OpSound, TypeOK, content
<1>2. ASSUME ~Superfluous PROVE held[HeldFor] = None
  <2>1. CASE slot = "preview"
    BY <1>2, <2>1 DEF Superfluous, HeldFor
  <2>2. CASE slot # "preview"
    BY <1>1, <2>2, SlotOf DEF BlobInv, OpSound, content, HeldFor
  <2> QED BY <2>1, <2>2
<1>3. pc = "insert" => held[HeldFor] = None
  BY DEF BlobInv, OpSound
<1>4. op.kind \in {"save", "record"} /\ releases = {}
  BY DEF BlobInv, OpSound, Working
<1>5. ASSUME op.kind = "save" PROVE slot = "body" /\ puts["body"] = op.body /\ held["body"] = None
  <2>1. slot = "body"
    BY <1>1, <1>5 DEF BlobInv, SaveSound, Working, content, slot
  <2>2. held["body"] = None
    BY <1>1, <2>1 DEF BlobInv, OpSound, content, Slots
  <2> QED BY <1>5, <2>1, <2>2 DEF BlobInv, SaveSound, Working
<1>6. ASSUME op.kind = "record" PROVE slot # "body"
  BY <1>1, <1>6 DEF BlobInv, RecordSound, Working, content, slot
<1> QED BY <1>1, <1>2, <1>3, <1>4, <1>5, <1>6

(* The next body, or the INSERT.                                           *)
LEMMA NextBody ==
    ASSUME BlobInv, pc \in {"put", "insert"}, NextPut
    PROVE  /\ pc' \in {"put", "commit"} /\ op' = op /\ releases' = releases
           /\ puts' \in [PutSlots -> Contents \union {None}]
           /\ \A s \in PutSlots : puts'[s] = IF s = slot THEN None ELSE puts[s]
           /\ pc' = "commit" => puts' = NoPuts
           /\ pc' = "put" => content' # None
<1>1. /\ puts' = [puts EXCEPT ![slot] = None] /\ pc' = IF puts' = NoPuts THEN "commit" ELSE "put"
      /\ op' = op /\ releases' = releases
  BY DEF NextPut
<1>2. puts \in [PutSlots -> Contents \union {None}]
  BY DEF BlobInv, TypeOK
<1>3. puts' \in [PutSlots -> Contents \union {None}] /\ \A s \in PutSlots : puts'[s] = IF s = slot THEN None ELSE puts[s]
  BY <1>1, <1>2
<1>4. pc' = "put" => content' # None
  BY <1>1, <1>3, FirstBody DEF content, slot
<1> QED BY <1>1, <1>3, <1>4

LEMMA SkipKeeps == ASSUME BlobInv, PutSkip PROVE BlobInv'
<1>1. /\ pc = "put" /\ slot = "preview" /\ held["resp"] # None /\ NextPut
      /\ UNCHANGED <<index, file, reqs, execs, projects, collections, held, faults, mismatches>>
  BY DEF PutSkip, Superfluous, rowVars, counters
<1>2. /\ pc' \in {"put", "commit"} /\ op' = op /\ releases' = releases
      /\ puts' \in [PutSlots -> Contents \union {None}]
      /\ \A s \in PutSlots : puts'[s] = IF s = slot THEN None ELSE puts[s]
      /\ pc' = "commit" => puts' = NoPuts
      /\ pc' = "put" => content' # None
  BY <1>1, NextBody
<1>3. op.kind = "record" /\ releases = {}
  BY <1>1, AtHand
<1>4. TypeOK'
  BY <1>1, <1>2 DEF BlobInv, TypeOK, Exists
<1>5. Counted'
  BY <1>1, <1>2, CountSame DEF BlobInv, Clean
<1>6. RowsSound' /\ Bodies' /\ Matching' /\ FilesKept'
  BY <1>1 DEF BlobInv, RowsSound, Bodies, Exists, Matching, Stored, FilesKept, Clean
<1>7. SaveSound' /\ RecordSound'
  BY <1>1, <1>2, <1>3 DEF BlobInv, SaveSound, RecordSound, Working, PutSlots, Slots
<1>8. OpSound'
  BY <1>1, <1>2, <1>3, Slotted DEF BlobInv, OpSound, Working
<1> QED BY <1>4, <1>5, <1>6, <1>7, <1>8 DEF BlobInv

(* The file is written: no row has its content yet.                        *)
LEMMA WriteKeeps == ASSUME BlobInv, PutWrite PROVE BlobInv'
<1>1. /\ pc = "put" /\ ~Superfluous /\ NewContent /\ file' = [file EXCEPT ![content] = "full"] /\ pc' = "insert"
      /\ UNCHANGED <<index, reqs, execs, projects, collections, op, puts, held, releases, faults, mismatches>>
  BY DEF PutWrite, rowVars, counters
<1>2. content \in Contents /\ content # None /\ held[HeldFor] = None /\ releases = {}
  BY <1>1, AtHand
<1>3. /\ file' \in [Contents -> {"none", "partial", "full"}] /\ file'[content] = "full"
      /\ \A c \in Contents : c # content => file'[c] = file[c]
  BY <1>1, <1>2 DEF BlobInv, TypeOK
<1>s. slot' = slot /\ content' = content /\ NewContent' /\ HeldFor' = HeldFor
  BY <1>1 DEF slot, content, NewContent, HeldFor
<1>4. TypeOK'
  BY <1>1, <1>3 DEF BlobInv, TypeOK, Exists
<1>5. Counted'
  BY <1>1, CountSame DEF BlobInv, Clean
<1>6. RowsSound' /\ Bodies' /\ Matching'
  BY <1>1, <1>3 DEF BlobInv, TypeOK, RowsSound, Bodies, Exists, Matching, Stored
<1>7. SaveSound' /\ RecordSound'
  BY <1>1 DEF BlobInv, SaveSound, RecordSound, Working
<1>8. OpSound'
  BY <1>1, <1>2, <1>3, <1>s DEF BlobInv, OpSound, Working
<1>9. FilesKept'
  BY <1>1, <1>3, <1>s DEF BlobInv, FilesKept, Clean
<1> QED BY <1>4, <1>5, <1>6, <1>7, <1>8, <1>9 DEF BlobInv

(* The row of b counts one more reference, which the operation holds.      *)
LEMMA HoldKeeps ==
    ASSUME BlobInv, pc \in {"put", "insert"}, held[HeldFor] = None, NEW b \in Blobs, Hold(b), NextPut,
           index' = [index EXCEPT ![b] = [content |-> content, refs |-> index[b].refs + 1]],
           index[b].content = content \/ index[b] = NoBlob,
           \A a \in Blobs : a # b => index[a].content # content,
           file[content] = "full", UNCHANGED <<file, rowVars, counters>>
    PROVE  BlobInv'
<1>t. /\ index \in [Blobs -> [content : Contents \union {None}, refs : Nat]]
      /\ \A a \in Blobs : Exists(a) <=> index[a].refs > 0
      /\ held \in [Slots -> Blobs \union {None}] /\ IsFiniteSet(releases)
  BY DEF BlobInv, TypeOK
<1>1. UNCHANGED <<file, reqs, execs, projects, collections, faults, mismatches>> /\ held' = [held EXCEPT ![HeldFor] = b]
  BY DEF rowVars, counters, Hold
<1>2. /\ pc' \in {"put", "commit"} /\ op' = op /\ releases' = releases
      /\ puts' \in [PutSlots -> Contents \union {None}]
      /\ \A s \in PutSlots : puts'[s] = IF s = slot THEN None ELSE puts[s]
      /\ pc' = "commit" => puts' = NoPuts
      /\ pc' = "put" => content' # None
  BY NextBody
<1>3. /\ content \in Contents /\ content # None
      /\ op.kind \in {"save", "record"} /\ releases = {}
      /\ op.kind = "save" => slot = "body" /\ puts["body"] = op.body /\ held["body"] = None
      /\ op.kind = "record" => slot # "body"
  BY AtHand
<1> DEFINE cn == content
<1>i. /\ \A a \in Blobs : a # b => index'[a] = index[a]
      /\ index'[b].content = cn /\ index'[b].refs = index[b].refs + 1
      /\ index' \in [Blobs -> [content : Contents \union {None}, refs : Nat]]
  BY <1>t, <1>3
<1>h. /\ held' \in [Slots -> Blobs \union {None}] /\ HeldFor \in Slots
      /\ \A s \in Slots : held'[s] = IF s = HeldFor THEN b ELSE held[s]
  BY <1>t, <1>1, SlotOf
<1>4. TypeOK'
  <2>1. \A a \in Blobs : index'[a].content # None <=> index'[a].refs > 0
    <3> SUFFICES ASSUME NEW a \in Blobs PROVE index'[a].content # None <=> index'[a].refs > 0
      OBVIOUS
    <3>1. CASE a = b
      <4>1. index[b].refs \in Nat
        BY <1>t
      <4> QED BY <3>1, <4>1, <1>i, <1>3
    <3>2. CASE a # b
      BY <3>2, <1>i, <1>t DEF Exists
    <3> QED BY <3>1, <3>2
  <2> QED BY <1>1, <1>2, <1>h, <1>i, <2>1 DEF BlobInv, TypeOK, Exists
<1>5. Counted'
  <2> SUFFICES ASSUME NEW a \in Blobs
               PROVE  /\ index'[a].refs >= OwedIn(reqs, execs, held', releases, a)
                      /\ Clean => index'[a].refs = OwedIn(reqs, execs, held', releases, a)
    BY <1>1, <1>2 DEF Counted, Owed, Clean
  <2> DEFINE i == Cardinality(Wants(reqs, a))
             j == Cardinality(Snaps(execs, a))
             k == Cardinality(Resps(execs, a))
             l == Cardinality(HeldIn(held, a))
             l2 == Cardinality(HeldIn(held', a))
             m == Cardinality(DueIn(releases, a))
             n == index[a].refs
             d == IF a = b THEN 1 ELSE 0
  <2>1. i \in Nat /\ j \in Nat /\ k \in Nat /\ l \in Nat /\ m \in Nat /\ n \in Nat /\ d \in Nat
    BY <1>t, Counts
  <2>2. l2 = l + d
    <3>1. HeldFor \in Slots /\ held[HeldFor] = None /\ held \in [Slots -> Blobs \union {None}]
      BY <1>t, <1>h
    <3>2. Cardinality(HeldIn([held EXCEPT ![HeldFor] = b], a)) = Cardinality(HeldIn(held, a)) + (IF a = b THEN 1 ELSE 0)
      BY <3>1, SlotFilled, Zenon
    <3> QED BY <3>2, <1>1
  <2>3. n >= i + j + k + l + m /\ (Clean => n = i + j + k + l + m)
    BY DEF BlobInv, Counted, Owed, OwedIn
  <2>4. index'[a].refs = n + d
    BY <1>i, <1>t
  <2>5. n + d >= i + j + k + l2 + m /\ (Clean => n + d = i + j + k + l2 + m)
    <3> HIDE DEF i, j, k, l, l2, m, n, d
    <3> QED BY <2>1, <2>2, <2>3
  <2> QED BY <2>4, <2>5 DEF OwedIn
<1>6. RowsSound'
  BY <1>1, <1>3, <1>i DEF BlobInv, RowsSound, Exists
<1>7. Bodies'
  <2> SUFFICES ASSUME NEW r \in Requests, reqs[r].blob = b PROVE index[b].content = cn
    BY <1>1, <1>i DEF BlobInv, Bodies, TypeOK
  <2> QED BY Unreferred DEF BlobInv, NoBlob
<1>8. Matching'
  BY <1>1 DEF BlobInv, Matching, Stored
<1>9. SaveSound' /\ RecordSound'
  <2>1. ASSUME op.kind = "save" PROVE SaveSound'
    <3>1. held'["body"] = b /\ held'["snap"] = held["snap"] /\ held'["resp"] = held["resp"] /\ b # None
      BY <2>1, <1>3, <1>h, BlobStoreAssumption DEF HeldFor, Slots
    <3>2. index'[b].content = op.body
      BY <2>1, <1>3, <1>i DEF content
    <3>3. puts'["resp"] = puts["resp"] /\ puts'["snap"] = puts["snap"] /\ puts'["preview"] = puts["preview"]
      BY <2>1, <1>2, <1>3 DEF PutSlots, Slots
    <3>4. Working
      BY DEF Working
    <3>5. op.body # None
      BY <2>1, <1>3 DEF content
    <3> QED BY <2>1, <1>1, <1>2, <3>1, <3>2, <3>3, <3>4, <3>5 DEF BlobInv, SaveSound
  <2>2. ASSUME op.kind = "record" PROVE RecordSound'
    <3>1. held'["body"] = held["body"] /\ puts'["body"] = puts["body"]
      BY <2>2, <1>2, <1>3, <1>h DEF HeldFor, Slots, PutSlots
    <3> QED BY <2>2, <1>1, <1>2, <3>1 DEF BlobInv, RecordSound, Working
  <2> QED BY <1>2, <1>3, <2>1, <2>2 DEF SaveSound, RecordSound
<1>10. OpSound'
  <2>1. \A s \in Slots : puts'[s] # None => held'[s] = None
    <3> SUFFICES ASSUME NEW s \in Slots, puts'[s] # None PROVE held'[s] = None
      OBVIOUS
    <3>1. s # slot /\ puts[s] # None /\ held[s] = None
      BY <1>2, Slotted DEF BlobInv, OpSound
    <3>2. s # HeldFor
      BY <3>1 DEF HeldFor, slot
    <3> QED BY <3>1, <3>2, <1>h
  <2> QED BY <1>2, <1>3, <2>1 DEF OpSound, Working
<1>11. FilesKept'
  BY <1>1, <1>2, <1>i, BlobStoreAssumption DEF BlobInv, FilesKept, Clean, NoBlob
<1> QED BY <1>4, <1>5, <1>6, <1>7, <1>8, <1>9, <1>10, <1>11 DEF BlobInv

LEMMA PutKeeps == ASSUME BlobInv, PutExisting \/ PutInsert PROVE BlobInv'
<1>1. CASE PutExisting
  <2>1. /\ pc = "put" /\ ~Superfluous /\ NextPut /\ UNCHANGED <<file, rowVars, counters>>
    BY <1>1 DEF PutExisting
  <2>2. PICK b \in Blobs : index[b].content = content /\ index' = [index EXCEPT ![b].refs = @ + 1] /\ Hold(b)
    BY <1>1 DEF PutExisting
  <2>3. content \in Contents /\ content # None /\ held[HeldFor] = None
    BY <2>1, AtHand
  <2>4. index[b] \in [content : Contents \union {None}, refs : Nat]
    BY DEF BlobInv, TypeOK
  <2>5. index' = [index EXCEPT ![b] = [content |-> content, refs |-> index[b].refs + 1]]
    <3>1. [index[b] EXCEPT !.refs = @ + 1] = [content |-> content, refs |-> index[b].refs + 1]
      BY <2>2, <2>4
    <3>2. index' = [index EXCEPT ![b] = [index[b] EXCEPT !.refs = @ + 1]]
      BY <2>2
    <3> QED BY <3>1, <3>2
  <2>6. file[content] = "full" /\ \A a \in Blobs : a # b => index[a].content # content
    BY <2>2, <2>3 DEF BlobInv, RowsSound, Exists
  <2> QED BY <2>1, <2>2, <2>3, <2>5, <2>6, HoldKeeps
<1>2. CASE PutInsert
  <2>1. /\ pc = "insert" /\ NextPut /\ UNCHANGED <<file, rowVars, counters>>
    BY <1>2 DEF PutInsert
  <2>2. PICK b \in Blobs : ~Exists(b) /\ index' = [index EXCEPT ![b] = [content |-> content, refs |-> 1]] /\ Hold(b)
    BY <1>2 DEF PutInsert
  <2>3. held[HeldFor] = None /\ NewContent /\ file[content] = "full"
    BY <2>1 DEF BlobInv, OpSound
  <2>4. index[b].content = None /\ index[b].refs = 0 /\ index[b] = NoBlob
    <3>1. index[b] \in [content : Contents \union {None}, refs : Nat] /\ (Exists(b) <=> index[b].refs > 0)
      BY DEF BlobInv, TypeOK
    <3> QED BY <2>2, <3>1 DEF Exists, NoBlob
  <2>5. index' = [index EXCEPT ![b] = [content |-> content, refs |-> index[b].refs + 1]]
    BY <2>2, <2>4
  <2> QED BY <2>1, <2>2, <2>3, <2>4, <2>5, HoldKeeps DEF NewContent
<1> QED BY <1>1, <1>2

(* A body that cannot be stored.                                           *)
LEMMA PutFailKeeps == ASSUME BlobInv, PutFails PROVE BlobInv'
<1>0. /\ faults' \in 0 .. MaxFaults /\ mismatches' = mismatches /\ ~Clean' /\ mismatches' \in 0 .. MaxMismatches
  BY Failed DEF BlobInv, PutFails
<1>1. /\ pc \in {"put", "insert"} /\ UNCHANGED <<index, reqs, execs, projects, collections>>
      /\ file' = IF NewContent THEN [file EXCEPT ![content] = "none"] ELSE file
  BY DEF PutFails, rowVars
<1>2. /\ content \in Contents /\ content # None
      /\ op.kind \in {"save", "record"} /\ releases = {}
      /\ op.kind = "save" => slot = "body" /\ puts["body"] = op.body /\ held["body"] = None
      /\ op.kind = "record" => slot # "body"
  BY <1>1, AtHand
<1>3. /\ file' \in [Contents -> {"none", "partial", "full"}]
      /\ \A c \in Contents : file'[c] # file[c] => \A b \in Blobs : index[b].content # c
  BY <1>1, <1>2 DEF BlobInv, TypeOK, NewContent
<1>4. RowsSound'
  BY <1>1, <1>3 DEF BlobInv, RowsSound, Exists, TypeOK
<1>5. Bodies' /\ Matching' /\ FilesKept'
  BY <1>0, <1>1 DEF BlobInv, Bodies, Matching, Stored, FilesKept
<1>6. CASE slot = "resp" /\ NextPut /\ UNCHANGED held
  <2>1. /\ pc' \in {"put", "commit"} /\ op' = op /\ releases' = releases
        /\ puts' \in [PutSlots -> Contents \union {None}]
        /\ \A s \in PutSlots : puts'[s] = IF s = slot THEN None ELSE puts[s]
        /\ pc' = "commit" => puts' = NoPuts
        /\ pc' = "put" => content' # None
    BY <1>1, <1>6, NextBody
  <2>2. op.kind = "record"
    BY <1>2, <1>6
  <2>3. TypeOK'
    BY <1>0, <1>1, <1>3, <1>6, <2>1 DEF BlobInv, TypeOK, Exists
  <2>4. Counted'
    BY <1>0, <1>1, <1>6, <2>1, CountSame DEF BlobInv
  <2>5. SaveSound' /\ RecordSound'
    BY <1>1, <1>6, <2>1, <2>2 DEF BlobInv, SaveSound, RecordSound, Working, PutSlots, Slots
  <2>6. OpSound'
    BY <1>2, <1>6, <2>1, <2>2, Slotted DEF BlobInv, OpSound, Working
  <2> QED BY <1>4, <1>5, <2>3, <2>4, <2>5, <2>6 DEF BlobInv
<1>7. CASE slot = "preview" /\ Release({"snap"}, held)
  <2>1. /\ pc' \in {"idle", "release"} /\ op' = NoOp /\ puts' = NoPuts /\ held' = NothingHeld
        /\ releases' = Tokens({"snap"}, held) /\ (pc' = "idle" => releases' = {})
    BY <1>7, Released
  <2>2. IsFiniteSet({"snap"})
    BY FS_Singleton
  <2>3. ASSUME NEW b \in Blobs
        PROVE  Cardinality(DueIn(releases', b)) <= Cardinality(HeldIn(held, b)) + Cardinality(DueIn(releases, b))
    <3> DEFINE X == Having({"snap"}, held, b)
    <3>1. IsFiniteSet(X) /\ Cardinality(DueIn(releases', b)) = Cardinality(X)
      BY <2>1, <2>2, TokenCount, BlobStoreAssumption
    <3>2. X \subseteq HeldIn(held, b)
      BY DEF HeldIn, Having, Slots
    <3>3. IsFiniteSet(HeldIn(held, b)) /\ Cardinality(HeldIn(held, b)) \in Nat /\ Cardinality(DueIn(releases, b)) \in Nat
      BY Counts DEF BlobInv, TypeOK
    <3>4. Cardinality(X) <= Cardinality(HeldIn(held, b)) /\ Cardinality(X) \in Nat
      <4> HIDE DEF X
      <4> QED BY <3>1, <3>2, <3>3, FS_Subset, FS_CardinalityType
    <3> QED BY <3>1, <3>3, <3>4
  <2>4. IsFiniteSet(releases') /\ \A t \in releases' : t.blob \in Blobs
    <3>1. IsFiniteSet(Tokens({"snap"}, held))
      <4>1. \A b : b # None => IsFiniteSet(Tokens({"snap"}, held))
        BY <2>2, TokenCount
      <4>2. content # None
        BY <1>2
      <4> QED BY <4>1, <4>2
    <3>2. "snap" \in Slots
      BY DEF Slots
    <3> QED BY <2>1, <3>1, <3>2 DEF Tokens, BlobInv, TypeOK
  <2>5. Counted'
    BY <1>0, <1>1, <2>1, <2>3, <2>4, CountLess DEF BlobInv
  <2>6. TypeOK'
    BY <1>0, <1>1, <1>3, <2>1, <2>4, RestedTypes DEF BlobInv, TypeOK, Exists
  <2>7. SaveSound' /\ RecordSound' /\ OpSound'
    BY <2>1, Rested
  <2> QED BY <1>4, <1>5, <2>5, <2>6, <2>7 DEF BlobInv
<1>8. CASE slot \in {"body", "snap"} /\ Return
  <2>1. Fault /\ UNCHANGED <<index, rowVars>>
    BY DEF PutFails
  <2> QED BY <1>3, <1>8, <2>1, GiveUpKeeps
<1> QED BY <1>6, <1>7, <1>8 DEF PutFails

-------------------------------------------------------------------------------
(* The slots, one by one.                                                  *)
LEMMA OneMore ==
    ASSUME NEW A, IsFiniteSet(A), NEW k, k \notin A, NEW P \in BOOLEAN
    PROVE  LET B == IF P THEN A \union {k} ELSE A
           IN  IsFiniteSet(B) /\ Cardinality(B) = Cardinality(A) + (IF P THEN 1 ELSE 0) /\ Cardinality(B) \in Nat
<1>0. Cardinality(A) \in Nat
  BY FS_CardinalityType
<1>1. CASE P
  <2>1. IsFiniteSet(A \union {k}) /\ Cardinality(A \union {k}) = Cardinality(A) + 1
    BY FS_AddElement
  <2> QED BY <1>0, <1>1, <2>1
<1>2. CASE ~P
  BY <1>0, <1>2
<1> QED BY <1>1, <1>2

LEMMA HeldCount ==
    ASSUME NEW h, NEW b
    PROVE  Cardinality(HeldIn(h, b)) = (IF h["body"] = b THEN 1 ELSE 0) + (IF h["snap"] = b THEN 1 ELSE 0)
                                       + (IF h["resp"] = b THEN 1 ELSE 0)
<1> DEFINE A == IF h["body"] = b THEN {} \union {"body"} ELSE {}
           B == IF h["snap"] = b THEN A \union {"snap"} ELSE A
           C == IF h["resp"] = b THEN B \union {"resp"} ELSE B
<1>1. IsFiniteSet(A) /\ Cardinality(A) = (IF h["body"] = b THEN 1 ELSE 0)
  <2>1. CASE h["body"] = b
    <3>1. A = {"body"}
      BY <2>1
    <3> QED BY <2>1, <3>1, FS_Singleton
  <2>2. CASE h["body"] # b
    <3>1. A = {}
      BY <2>2
    <3> QED BY <2>2, <3>1, FS_EmptySet
  <2> QED BY <2>1, <2>2
<1>2. IsFiniteSet(B) /\ Cardinality(B) = Cardinality(A) + (IF h["snap"] = b THEN 1 ELSE 0) /\ "snap" \notin A
  <2>1. "snap" \notin A
    OBVIOUS
  <2> HIDE DEF A
  <2> QED BY <1>1, <2>1, OneMore
<1>3. Cardinality(C) = Cardinality(B) + (IF h["resp"] = b THEN 1 ELSE 0)
  <2>1. "resp" \notin B
    OBVIOUS
  <2> HIDE DEF A, B
  <2> QED BY <1>2, <2>1, OneMore
<1>4. HeldIn(h, b) = C
  BY DEF HeldIn, Slots
<1> QED BY <1>1, <1>2, <1>3, <1>4

LEMMA TokensFinite == ASSUME NEW S, IsFiniteSet(S), NEW blobs PROVE IsFiniteSet(Tokens(S, blobs))
<1>1. \A b : b # None => IsFiniteSet(Tokens(S, blobs))
  BY TokenCount
<1>2. None # 0 \/ None # 1
  OBVIOUS
<1> QED BY <1>1, <1>2

(* An operation writes its rows and goes on to release blobs, where the    *)
(* rows and the releases together refer to a blob no more often than the   *)
(* rows and what was held did before.                                      *)
LEMMA SettleKeeps ==
    ASSUME BlobInv, pc \in {"idle", "commit"}, UNCHANGED <<index, file>>,
           NEW S, IsFiniteSet(S), NEW blobs, \A x \in S : blobs[x] \in Blobs \union {None}, Release(S, blobs),
           reqs' \in [Requests -> [project : Projects \union {None}, collection : Collections \union {None},
                                   blob : Blobs \union {None}, body : Contents \union {None}]],
           execs' \in [Executions -> [snap : Blobs \union {None}, resp : Blobs \union {None}]],
           projects' \subseteq Projects, collections' \subseteq Collections,
           faults' \in 0 .. MaxFaults, mismatches' \in 0 .. MaxMismatches, Clean' => Clean,
           Bodies', Matching',
           \A b \in Blobs :
              LET now == Cardinality(Wants(reqs', b)) + Cardinality(Snaps(execs', b)) + Cardinality(Resps(execs', b))
                         + Cardinality(Having(S, blobs, b))
                  before == Cardinality(Wants(reqs, b)) + Cardinality(Snaps(execs, b)) + Cardinality(Resps(execs, b))
                            + Cardinality(HeldIn(held, b))
              IN  now <= before /\ (Clean' => now = before)
    PROVE  BlobInv'
<1>1. /\ pc' \in {"idle", "release"} /\ op' = NoOp /\ puts' = NoPuts /\ held' = NothingHeld
      /\ releases' = Tokens(S, blobs) /\ (pc' = "idle" => releases' = {})
  BY Released
<1>2. SaveSound' /\ RecordSound' /\ OpSound'
  BY <1>1, Rested
<1>3. IsFiniteSet(releases') /\ \A t \in releases' : t.blob \in Blobs
  BY <1>1, TokensFinite DEF Tokens
<1>4. TypeOK'
  BY <1>1, <1>3, RestedTypes DEF BlobInv, TypeOK, Exists
<1>5. RowsSound'
  BY DEF BlobInv, RowsSound, Exists
<1>6. FilesKept'
  BY DEF BlobInv, FilesKept
<1>7. Counted'
  <2> SUFFICES ASSUME NEW b \in Blobs
               PROVE  /\ index[b].refs >= OwedIn(reqs', execs', NothingHeld, releases', b)
                      /\ Clean' => index[b].refs = OwedIn(reqs', execs', NothingHeld, releases', b)
    BY <1>1 DEF Counted, Owed
  <2> DEFINE i == Cardinality(Wants(reqs, b))
             j == Cardinality(Snaps(execs, b))
             k == Cardinality(Resps(execs, b))
             l == Cardinality(HeldIn(held, b))
             i2 == Cardinality(Wants(reqs', b))
             j2 == Cardinality(Snaps(execs', b))
             k2 == Cardinality(Resps(execs', b))
             l2 == Cardinality(HeldIn(NothingHeld, b))
             m2 == Cardinality(DueIn(releases', b))
             n == index[b].refs
  <2>1. /\ i \in Nat /\ j \in Nat /\ k \in Nat /\ l \in Nat
        /\ i2 \in Nat /\ j2 \in Nat /\ k2 \in Nat /\ m2 \in Nat /\ n \in Nat
    BY <1>3, Counts DEF BlobInv, TypeOK
  <2>2. l2 = 0 /\ m2 = Cardinality(Having(S, blobs, b))
    <3>1. b # None
      BY BlobStoreAssumption
    <3>2. Cardinality(DueIn(Tokens(S, blobs), b)) = Cardinality(Having(S, blobs, b))
      BY <3>1, TokenCount
    <3> QED BY <1>1, <3>2, NoneHeld
  <2>3. Cardinality(DueIn(releases, b)) = 0
    <3>1. releases = {}
      BY DEF BlobInv, OpSound, Working
    <3> QED BY <3>1, NoneHeld
  <2>4. n >= i + j + k + l /\ (Clean => n = i + j + k + l)
    <3>1. /\ n >= i + j + k + l + Cardinality(DueIn(releases, b))
          /\ Clean => n = i + j + k + l + Cardinality(DueIn(releases, b))
      BY DEF BlobInv, Counted, Owed, OwedIn
    <3> HIDE DEF i, j, k, l, n
    <3> QED BY <2>1, <2>3, <3>1
  <2>5. i2 + j2 + k2 + m2 <= i + j + k + l /\ (Clean' => i2 + j2 + k2 + m2 = i + j + k + l)
    BY <2>2
  <2>6. n >= i2 + j2 + k2 + l2 + m2 /\ (Clean' => n = i2 + j2 + k2 + l2 + m2)
    <3>1. l2 = 0
      BY <2>2
    <3> HIDE DEF i, j, k, l, n, i2, j2, k2, l2, m2
    <3> QED BY <2>1, <2>4, <2>5, <3>1
  <2> QED BY <2>6 DEF OwedIn
<1> QED BY <1>2, <1>4, <1>5, <1>6, <1>7 DEF BlobInv

(* The INSERT is refused or fails: what is held is released.               *)
LEMMA CommitFailKeeps == ASSUME BlobInv, CommitFails PROVE BlobInv'
<1>1. pc = "commit" /\ Release(Slots, held) /\ UNCHANGED <<index, file, reqs, execs, projects, collections>>
  BY DEF CommitFails, rowVars
<1>2. /\ faults' \in 0 .. MaxFaults /\ mismatches' = mismatches /\ mismatches' \in 0 .. MaxMismatches /\ (Clean' => Clean)
  <2>1. CASE UNCHANGED counters
    BY <2>1 DEF counters, Clean, BlobInv, TypeOK
  <2>2. CASE Fault
    BY <2>2, Failed DEF BlobInv
  <2> QED BY <2>1, <2>2 DEF CommitFails
<1>3. Bodies' /\ Matching'
  BY <1>1, <1>2 DEF BlobInv, Bodies, Matching, Stored
<1>4. /\ reqs' \in [Requests -> [project : Projects \union {None}, collection : Collections \union {None},
                                   blob : Blobs \union {None}, body : Contents \union {None}]]
      /\ execs' \in [Executions -> [snap : Blobs \union {None}, resp : Blobs \union {None}]]
      /\ projects' \subseteq Projects /\ collections' \subseteq Collections
      /\ \A x \in Slots : held[x] \in Blobs \union {None}
  BY <1>1 DEF BlobInv, TypeOK
<1>5. \A b \in Blobs :
         LET now == Cardinality(Wants(reqs', b)) + Cardinality(Snaps(execs', b)) + Cardinality(Resps(execs', b))
                    + Cardinality(Having(Slots, held, b))
             before == Cardinality(Wants(reqs, b)) + Cardinality(Snaps(execs, b)) + Cardinality(Resps(execs, b))
                       + Cardinality(HeldIn(held, b))
         IN  now <= before /\ (Clean' => now = before)
  <2> SUFFICES ASSUME NEW b \in Blobs
               PROVE  LET n == Cardinality(Wants(reqs, b)) + Cardinality(Snaps(execs, b)) + Cardinality(Resps(execs, b))
                               + Cardinality(HeldIn(held, b))
                      IN  n <= n
    BY <1>1 DEF HeldIn, Having
  <2>1. /\ Cardinality(Wants(reqs, b)) \in Nat /\ Cardinality(Snaps(execs, b)) \in Nat
        /\ Cardinality(Resps(execs, b)) \in Nat /\ Cardinality(HeldIn(held, b)) \in Nat
    BY Counts DEF BlobInv, TypeOK
  <2> QED BY <2>1
<1> HIDE DEF BlobInv
<1> QED BY <1>1, <1>2, <1>3, <1>4, <1>5, Slotted, SettleKeeps

(* A request is saved: its row has the blob that was held, and the blob it *)
(* had before is released.                                                 *)
LEMMA SaveKeeps ==
    ASSUME BlobInv, pc = "commit", op.kind = "save",
           reqs'[op.key] = [project |-> op.project, collection |-> op.collection,
                            blob |-> held["body"], body |-> op.body],
           \A r \in Requests \ {op.key} : reqs'[r] = reqs[r],
           reqs' \in [Requests -> [project : Projects \union {None}, collection : Collections \union {None},
                                   blob : Blobs \union {None}, body : Contents \union {None}]],
           Release({op.key}, [r \in {op.key} |-> op.prev]),
           UNCHANGED <<index, file, execs, projects, collections, faults, mismatches>>
    PROVE  BlobInv'
<1> DEFINE key == op.key
           prev == reqs[key].blob
           row == [project |-> op.project, collection |-> op.collection, blob |-> held["body"], body |-> op.body]
           blobs == [r \in {key} |-> op.prev]
<1>t. /\ reqs \in [Requests -> [project : Projects \union {None}, collection : Collections \union {None},
                               blob : Blobs \union {None}, body : Contents \union {None}]]
      /\ execs' \in [Executions -> [snap : Blobs \union {None}, resp : Blobs \union {None}]]
      /\ held \in [Slots -> Blobs \union {None}] /\ IsFiniteSet(releases)
      /\ projects' \subseteq Projects /\ collections' \subseteq Collections
      /\ faults' \in 0 .. MaxFaults /\ mismatches' \in 0 .. MaxMismatches
  BY DEF BlobInv, TypeOK
<1>1. /\ key \in Requests /\ op.project \in Projects /\ op.collection \in Collections
      /\ op.body \in Contents \union {None} /\ op.prev = prev
      /\ held["resp"] = None /\ held["snap"] = None
      /\ mismatches = 0 => ProjectOf[op.collection] = op.project
  BY DEF BlobInv, SaveSound, Working
<1>2. IF held["body"] = None THEN op.body = None ELSE index[held["body"]].content = op.body /\ op.body # None
  <2>1. puts["body"] = None
    BY DEF BlobInv, OpSound, NoPuts, PutSlots, Slots
  <2> QED BY <2>1 DEF BlobInv, SaveSound, Working
<1>3. held["body"] \in Blobs \union {None}
  BY <1>t DEF Slots
<1>5. /\ reqs' \in [Requests -> [project : Projects \union {None}, collection : Collections \union {None},
                                blob : Blobs \union {None}, body : Contents \union {None}]]
      /\ reqs'[key] = row /\ \A r \in Requests \ {key} : reqs'[r] = reqs[r]
  OBVIOUS
<1>6. Bodies'
  BY <1>2, <1>5 DEF BlobInv, Bodies
<1>7. Matching'
  BY <1>1, <1>5 DEF BlobInv, Matching, Stored
<1>8. /\ \A x \in {key} : blobs[x] \in Blobs \union {None}
      /\ IsFiniteSet({key})
  BY ZenonT(60), <1>t, <1>1, FS_Singleton
<1>9. \A b \in Blobs :
         LET now == Cardinality(Wants(reqs', b)) + Cardinality(Snaps(execs', b)) + Cardinality(Resps(execs', b))
                    + Cardinality(Having({key}, blobs, b))
             before == Cardinality(Wants(reqs, b)) + Cardinality(Snaps(execs, b)) + Cardinality(Resps(execs, b))
                       + Cardinality(HeldIn(held, b))
         IN  now <= before /\ (Clean' => now = before)
  <2> TAKE b \in Blobs
  <2> DEFINE i == Cardinality(Wants(reqs, b))
             j == Cardinality(Snaps(execs, b))
             k == Cardinality(Resps(execs, b))
             l == Cardinality(HeldIn(held, b))
             i2 == Cardinality(Wants(reqs', b))
             m2 == Cardinality(Having({key}, blobs, b))
             d == IF prev = b THEN 1 ELSE 0
             e == IF held["body"] = b THEN 1 ELSE 0
  <2>1. i \in Nat /\ j \in Nat /\ k \in Nat /\ l \in Nat /\ i2 \in Nat /\ d \in Nat /\ e \in Nat
    BY <1>t, Counts
  <2>2. i2 = i - d + e
    <3>1. i2 = i - Refers(reqs, key, b) + Refers(reqs', key, b)
      <4>1. key \in Requests /\ Rewritten(reqs, reqs', key)
        BY <1>1, <1>5 DEF Rewritten
      <4> HIDE DEF key
      <4> QED BY <4>1, RowWritten
    <3>2. reqs'[key].blob = held["body"]
      BY <1>5
    <3> QED BY <3>1, <3>2 DEF Refers
  <2>3. l = e
    <3>1. b # None
      BY BlobStoreAssumption
    <3>2. l = (IF held["body"] = b THEN 1 ELSE 0) + (IF held["snap"] = b THEN 1 ELSE 0) + (IF held["resp"] = b THEN 1 ELSE 0)
      BY HeldCount
    <3> QED BY <1>1, <3>1, <3>2
  <2>4. m2 = d
    <3>1. CASE prev = b
      <4>1. Having({key}, blobs, b) = {key}
        BY <1>1, <3>1 DEF Having
      <4> QED BY <3>1, <4>1, FS_Singleton
    <3>2. CASE prev # b
      <4>1. Having({key}, blobs, b) = {}
        BY <1>1, <3>2 DEF Having
      <4> QED BY <3>2, <4>1, FS_EmptySet
    <3> QED BY <3>1, <3>2
  <2>5. i2 + j + k + m2 = i + j + k + l /\ i2 + j + k + m2 \in Nat
    <3> HIDE DEF i, j, k, l, i2, m2, d, e
    <3> QED BY <2>1, <2>2, <2>3, <2>4
  <2>6. i2 + j + k + m2 <= i + j + k + l
    <3> HIDE DEF i, j, k, l, i2, m2, d, e
    <3> QED BY <2>5
  <2> QED BY <2>5, <2>6
<1>10. Clean' => Clean
  BY DEF Clean
<1>11. Release({key}, blobs) /\ UNCHANGED <<index, file>>
  OBVIOUS
<1> HIDE DEF BlobInv, blobs, key, row, prev
<1> QED BY <1>t, <1>5, <1>6, <1>7, <1>8, <1>9, <1>10, <1>11, SettleKeeps

(* An execution is recorded: its row has the blobs that were held.         *)
LEMMA RecordKeeps ==
    ASSUME BlobInv, pc = "commit", op.kind = "record", execs[op.key] = NoExecution,
           execs' = [execs EXCEPT ![op.key] = [snap |-> held["snap"], resp |-> held["resp"]]],
           Return, UNCHANGED <<index, file, reqs, projects, collections, faults, mismatches>>
    PROVE  BlobInv'
<1> DEFINE key == op.key
           snap == held["snap"]
           resp == held["resp"]
<1>t. /\ reqs' \in [Requests -> [project : Projects \union {None}, collection : Collections \union {None},
                               blob : Blobs \union {None}, body : Contents \union {None}]]
      /\ execs \in [Executions -> [snap : Blobs \union {None}, resp : Blobs \union {None}]]
      /\ held \in [Slots -> Blobs \union {None}] /\ IsFiniteSet(releases)
      /\ projects' \subseteq Projects /\ collections' \subseteq Collections
      /\ faults' \in 0 .. MaxFaults /\ mismatches' \in 0 .. MaxMismatches
  BY DEF BlobInv, TypeOK
<1>1. key \in Executions /\ held["body"] = None
  BY DEF BlobInv, RecordSound, Working
<1>2. snap \in Blobs \union {None} /\ resp \in Blobs \union {None}
  BY <1>t DEF Slots
<1>3. /\ execs' \in [Executions -> [snap : Blobs \union {None}, resp : Blobs \union {None}]]
      /\ execs'[key].snap = snap /\ execs'[key].resp = resp
      /\ \A x \in Executions \ {key} : execs'[x] = execs[x]
  BY <1>t, <1>1, <1>2
<1>4. Bodies' /\ Matching'
  BY DEF BlobInv, Bodies, Matching, Stored
<1>5. Release({}, held)
  BY DEF Release, Tokens
<1>6. \A b \in Blobs :
         LET now == Cardinality(Wants(reqs', b)) + Cardinality(Snaps(execs', b)) + Cardinality(Resps(execs', b))
                    + Cardinality(Having({}, held, b))
             before == Cardinality(Wants(reqs, b)) + Cardinality(Snaps(execs, b)) + Cardinality(Resps(execs, b))
                       + Cardinality(HeldIn(held, b))
         IN  now <= before /\ (Clean' => now = before)
  <2> TAKE b \in Blobs
  <2> DEFINE i == Cardinality(Wants(reqs, b))
             j == Cardinality(Snaps(execs, b))
             k == Cardinality(Resps(execs, b))
             l == Cardinality(HeldIn(held, b))
             j2 == Cardinality(Snaps(execs', b))
             k2 == Cardinality(Resps(execs', b))
             m2 == Cardinality(Having({}, held, b))
             d == IF snap = b THEN 1 ELSE 0
             e == IF resp = b THEN 1 ELSE 0
  <2>0. b # None
    BY BlobStoreAssumption
  <2>1. i \in Nat /\ j \in Nat /\ k \in Nat /\ l \in Nat /\ d \in Nat /\ e \in Nat
    BY <1>t, Counts
  <2>2. j2 = j + d
    <3>1. Snaps(execs', b) = (IF snap = b THEN Snaps(execs, b) \union {key} ELSE Snaps(execs, b))
      BY <2>0, <1>1, <1>3 DEF Snaps, NoExecution
    <3>2. key \notin Snaps(execs, b)
      BY <2>0 DEF Snaps, NoExecution
    <3>3. IsFiniteSet(Snaps(execs, b))
      BY <1>t, Counts
    <3>4. CASE snap = b
      BY ZenonT(60), <2>1, <3>1, <3>2, <3>3, <3>4, FS_AddElement
    <3>5. CASE snap # b
      BY <2>1, <3>1, <3>5
    <3> QED BY <3>4, <3>5
  <2>3. k2 = k + e
    <3>1. Resps(execs', b) = (IF resp = b THEN Resps(execs, b) \union {key} ELSE Resps(execs, b))
      BY <2>0, <1>1, <1>3 DEF Resps, NoExecution
    <3>2. key \notin Resps(execs, b)
      BY <2>0 DEF Resps, NoExecution
    <3>3. IsFiniteSet(Resps(execs, b))
      BY <1>t, Counts
    <3>4. CASE resp = b
      BY ZenonT(60), <2>1, <3>1, <3>2, <3>3, <3>4, FS_AddElement
    <3>5. CASE resp # b
      BY <2>1, <3>1, <3>5
    <3> QED BY <3>4, <3>5
  <2>4. l = d + e
    <3>1. l = (IF held["body"] = b THEN 1 ELSE 0) + (IF held["snap"] = b THEN 1 ELSE 0) + (IF held["resp"] = b THEN 1 ELSE 0)
      BY HeldCount
    <3> QED BY <1>1, <2>0, <3>1
  <2>5. m2 = 0
    <3>1. Having({}, held, b) = {}
      BY DEF Having
    <3> QED BY <3>1, FS_EmptySet
  <2>6. i + j2 + k2 + m2 = i + j + k + l /\ i + j2 + k2 + m2 <= i + j + k + l
    <3> HIDE DEF i, j, k, l, j2, k2, m2, d, e
    <3> QED BY <2>1, <2>2, <2>3, <2>4, <2>5
  <2> QED BY <2>6
<1>7. Clean' => Clean
  BY DEF Clean
<1>8. IsFiniteSet({}) /\ \A x \in {} : held[x] \in Blobs \union {None}
  BY FS_EmptySet
<1>9. UNCHANGED <<index, file>>
  OBVIOUS
<1> HIDE DEF BlobInv, key, snap, resp
<1> QED BY ZenonT(60), <1>t, <1>3, <1>4, <1>5, <1>6, <1>7, <1>8, <1>9, SettleKeeps

LEMMA CommitKeeps == ASSUME BlobInv, Commit PROVE BlobInv'
<1>1. pc = "commit" /\ Accepted /\ UNCHANGED <<index, file, projects, collections, faults, mismatches>>
  BY DEF Commit, counters
<1>2. CASE /\ op.kind = "save"
           /\ reqs' = [reqs EXCEPT ![op.key] = [project |-> op.project, collection |-> op.collection,
                                                blob |-> held["body"], body |-> op.body]]
           /\ Release({op.key}, [r \in {op.key} |-> op.prev])
           /\ UNCHANGED execs
  <2>1. /\ reqs \in [Requests -> [project : Projects \union {None}, collection : Collections \union {None},
                                  blob : Blobs \union {None}, body : Contents \union {None}]]
        /\ held["body"] \in Blobs \union {None}
    BY DEF BlobInv, TypeOK, Slots
  <2>2. /\ op.key \in Requests /\ op.project \in Projects /\ op.collection \in Collections
        /\ op.body \in Contents \union {None}
    BY <1>1, <1>2 DEF BlobInv, SaveSound, Working
  <2>3. /\ reqs'[op.key] = [project |-> op.project, collection |-> op.collection,
                            blob |-> held["body"], body |-> op.body]
        /\ \A r \in Requests \ {op.key} : reqs'[r] = reqs[r]
        /\ reqs' \in [Requests -> [project : Projects \union {None}, collection : Collections \union {None},
                                   blob : Blobs \union {None}, body : Contents \union {None}]]
    BY <1>2, <2>1, <2>2
  <2> QED BY <1>1, <1>2, <2>3, SaveKeeps
<1>3. CASE /\ op.kind = "record"
           /\ execs' = [execs EXCEPT ![op.key] = [snap |-> held["snap"], resp |-> held["resp"]]]
           /\ Return
           /\ UNCHANGED reqs
  <2>1. execs[op.key] = NoExecution
    BY <1>1, <1>3 DEF Accepted
  <2> QED BY <1>1, <1>3, <2>1, RecordKeeps
<1> QED BY <1>2, <1>3 DEF Commit

-------------------------------------------------------------------------------
(* The operation goes on with the releases that are left.                  *)
LEMMA NextReleased ==
    ASSUME BlobInv, pc \in {"release", "unlink"}, NEW rest, NextRelease(rest)
    PROVE  /\ pc' \in {"idle", "release"} /\ op' = NoOp /\ held' = NothingHeld /\ held = NothingHeld
           /\ releases' = rest /\ (pc' = "idle" => releases' = {})
           /\ puts' \in [PutSlots -> Contents \union {None}]
<1>1. held = NothingHeld /\ puts \in [PutSlots -> Contents \union {None}]
  BY DEF BlobInv, OpSound, Working, TypeOK
<1> QED BY <1>1, RestedTypes DEF NextRelease, Return

(* A release takes one from the count and one from what is owed.           *)
LEMMA SpendCounts ==
    ASSUME BlobInv, NEW t \in releases, releases' = releases \ {t}, UNCHANGED <<reqs, execs, held, faults, mismatches>>,
           \A a \in Blobs : index'[a].refs = index[a].refs - (IF t.blob = a THEN 1 ELSE 0)
    PROVE  Counted'
<1> SUFFICES ASSUME NEW a \in Blobs
             PROVE  /\ index'[a].refs >= OwedIn(reqs, execs, held, releases \ {t}, a)
                    /\ Clean => index'[a].refs = OwedIn(reqs, execs, held, releases \ {t}, a)
  BY DEF Counted, Owed, Clean
<1> DEFINE i == Cardinality(Wants(reqs, a))
           j == Cardinality(Snaps(execs, a))
           k == Cardinality(Resps(execs, a))
           l == Cardinality(HeldIn(held, a))
           m == Cardinality(DueIn(releases, a))
           m2 == Cardinality(DueIn(releases \ {t}, a))
           n == index[a].refs
           n2 == index'[a].refs
           d == IF t.blob = a THEN 1 ELSE 0
<1>f. IsFiniteSet(releases)
  BY DEF BlobInv, TypeOK
<1>1. i \in Nat /\ j \in Nat /\ k \in Nat /\ l \in Nat /\ m \in Nat /\ n \in Nat /\ d \in Nat
  BY <1>f, Counts DEF BlobInv, TypeOK
<1>2. m2 = m - d
  BY <1>f, TokenSpent
<1>3. n >= i + j + k + l + m /\ (Clean => n = i + j + k + l + m)
  BY DEF BlobInv, Counted, Owed, OwedIn
<1>4. n2 = n - d
  OBVIOUS
<1>5. n2 >= i + j + k + l + m2 /\ (Clean => n2 = i + j + k + l + m2)
  <2> HIDE DEF i, j, k, l, m, m2, n, n2, d
  <2> QED BY <1>1, <1>2, <1>3, <1>4
<1> QED BY <1>5 DEF OwedIn

(* A blob that is still shared is counted down.                            *)
LEMMA CountDownKeeps == ASSUME BlobInv, CountDown PROVE BlobInv'
<1>1. pc = "release" /\ UNCHANGED <<file, reqs, execs, projects, collections, faults, mismatches>>
  BY DEF CountDown, rowVars, counters
<1>2. PICK t \in releases :
          /\ Exists(t.blob) => Shared(t.blob)
          /\ index' = IF Exists(t.blob) THEN [index EXCEPT ![t.blob].refs = @ - 1] ELSE index
          /\ NextRelease(releases \ {t})
  BY DEF CountDown
<1> DEFINE b == t.blob
<1>t. /\ index \in [Blobs -> [content : Contents \union {None}, refs : Nat]]
      /\ \A a \in Blobs : Exists(a) <=> index[a].refs > 0
      /\ IsFiniteSet(releases) /\ b \in Blobs /\ \A u \in releases : u.blob \in Blobs
  BY DEF BlobInv, TypeOK
<1>3. index[b].refs # 0
  BY <1>t, Unreferred DEF BlobInv
<1>4. Exists(b) /\ index[b].refs > 1
  <2>1. index[b].refs \in Nat
    BY <1>t
  <2> QED BY <1>2, <1>3, <1>t, <2>1 DEF Shared
<1>5. /\ index' \in [Blobs -> [content : Contents \union {None}, refs : Nat]]
      /\ \A a \in Blobs : index'[a].content = index[a].content
      /\ \A a \in Blobs : a # b => index'[a].refs = index[a].refs
      /\ index'[b].refs = index[b].refs - 1
  <2>1. index' = [index EXCEPT ![b].refs = @ - 1]
    BY <1>2, <1>4
  <2>2. index[b].refs - 1 \in Nat
    BY <1>t, <1>4
  <2> DEFINE row == [content |-> index[b].content, refs |-> index[b].refs - 1]
  <2>3. [index[b] EXCEPT !.refs = @ - 1] = row
    BY <1>t
  <2>4. index' = [index EXCEPT ![b] = row]
    BY <2>1, <2>3
  <2>5. row \in [content : Contents \union {None}, refs : Nat]
    BY <1>t, <2>2
  <2>6. row.content = index[b].content /\ row.refs = index[b].refs - 1
    OBVIOUS
  <2> HIDE DEF row, b
  <2> QED BY <1>t, <2>4, <2>5, <2>6
<1>6. /\ pc' \in {"idle", "release"} /\ op' = NoOp /\ held' = NothingHeld /\ held = NothingHeld
      /\ releases' = releases \ {t} /\ (pc' = "idle" => releases' = {})
      /\ puts' \in [PutSlots -> Contents \union {None}]
  BY <1>1, <1>2, NextReleased
<1>7. Counted'
  <2>1. \A a \in Blobs : index'[a].refs = index[a].refs - (IF t.blob = a THEN 1 ELSE 0)
    BY <1>5, <1>t
  <2> QED BY <1>1, <1>6, <2>1, SpendCounts
<1>8. TypeOK'
  <2>1. \A a \in Blobs : index'[a].content # None <=> index'[a].refs > 0
    <3> TAKE a \in Blobs
    <3>1. CASE a = b
      <4>1. index[b].refs \in Nat
        BY <1>t
      <4> QED BY <3>1, <4>1, <1>4, <1>5 DEF Exists
    <3>2. CASE a # b
      BY <3>2, <1>5, <1>t DEF Exists
    <3> QED BY <3>1, <3>2
  <2>2. IsFiniteSet(releases') /\ \A u \in releases' : u.blob \in Blobs
    BY <1>t, <1>6, FS_RemoveElement
  <2> QED BY <1>1, <1>5, <1>6, <2>1, <2>2, RestedTypes DEF BlobInv, TypeOK, Exists
<1>9. RowsSound' /\ Bodies'
  BY <1>1, <1>5 DEF BlobInv, RowsSound, Bodies, Exists, TypeOK
<1>10. Matching' /\ FilesKept'
  BY <1>1, <1>5 DEF BlobInv, Matching, Stored, FilesKept, Clean
<1>11. SaveSound' /\ RecordSound' /\ OpSound'
  BY <1>6, Rested
<1> QED BY <1>7, <1>8, <1>9, <1>10, <1>11 DEF BlobInv

(* The last reference to a blob goes: nobody refers to it, and its file is *)
(* removed next.                                                           *)
LEMMA ReleaseLastKeeps == ASSUME BlobInv, ReleaseLast PROVE BlobInv'
<1>1. /\ pc = "release" /\ pc' = "unlink"
      /\ UNCHANGED <<file, reqs, execs, projects, collections, puts, held, faults, mismatches>>
  BY DEF ReleaseLast, rowVars, counters
<1>2. PICK t \in releases :
          /\ Exists(t.blob) /\ ~Shared(t.blob)
          /\ index' = [index EXCEPT ![t.blob] = NoBlob]
          /\ releases' = releases \ {t}
          /\ op' = [kind |-> "unlink", content |-> index[t.blob].content]
  BY DEF ReleaseLast
<1> DEFINE b == t.blob
<1>t. /\ index \in [Blobs -> [content : Contents \union {None}, refs : Nat]]
      /\ \A a \in Blobs : Exists(a) <=> index[a].refs > 0
      /\ IsFiniteSet(releases) /\ b \in Blobs /\ \A u \in releases : u.blob \in Blobs
      /\ held = NothingHeld
  BY <1>1 DEF BlobInv, TypeOK, OpSound, Working
<1>3. index[b].refs = 1
  <2>1. index[b].refs \in Nat
    BY <1>t
  <2> QED BY <1>2, <1>t, <2>1 DEF Shared
<1>4. /\ \A r \in Requests : reqs[r].blob # b
  BY <1>t, <1>3, Unreferred DEF BlobInv
<1>5. /\ index' \in [Blobs -> [content : Contents \union {None}, refs : Nat]]
      /\ index'[b] = NoBlob /\ \A a \in Blobs : a # b => index'[a] = index[a]
  BY <1>t, <1>2, RestedTypes
<1>6. Counted'
  <2>1. \A a \in Blobs : index'[a].refs = index[a].refs - (IF t.blob = a THEN 1 ELSE 0)
    <3> TAKE a \in Blobs
    <3>1. index[a].refs \in Nat
      BY <1>t
    <3> QED BY <1>3, <1>5, <3>1 DEF NoBlob
  <2> QED BY <1>1, <1>2, <2>1, SpendCounts
<1>7. TypeOK'
  <2>1. \A a \in Blobs : index'[a].content # None <=> index'[a].refs > 0
    BY <1>5, <1>t DEF Exists, NoBlob
  <2>2. IsFiniteSet(releases') /\ \A u \in releases' : u.blob \in Blobs
    BY <1>t, <1>2, FS_RemoveElement
  <2> QED BY <1>1, <1>5, <2>1, <2>2 DEF BlobInv, TypeOK, Exists
<1>8. RowsSound' /\ Bodies'
  BY SMTT(60), <1>1, <1>4, <1>5 DEF BlobInv, RowsSound, Bodies, Exists, NoBlob, TypeOK
<1>9. Matching'
  BY <1>1 DEF BlobInv, Matching, Stored
<1>10. op'.content = index[b].content /\ op'.content \in Contents /\ op'.kind = "unlink"
  BY <1>2, <1>t DEF Exists
<1>11. \A a \in Blobs : index'[a].content # op'.content
  BY <1>2, <1>5, <1>10, BlobStoreAssumption DEF BlobInv, RowsSound, NoBlob
<1>12. SaveSound' /\ RecordSound' /\ OpSound'
  <2>1. \A s \in Slots : held'[s] = None
    BY <1>1, <1>t DEF NothingHeld
  <2> QED BY <1>1, <1>t, <1>10, <1>11, <2>1 DEF SaveSound, RecordSound, OpSound, Working
<1>13. FilesKept'
  BY <1>1, <1>5, <1>10 DEF BlobInv, FilesKept, Clean
<1> QED BY <1>6, <1>7, <1>8, <1>9, <1>12, <1>13 DEF BlobInv

(* The file of a row that is gone is removed.                              *)
LEMMA UnlinkKeeps == ASSUME BlobInv, Unlink PROVE BlobInv'
<1>1. /\ pc = "unlink" /\ UNCHANGED <<index, reqs, execs, projects, collections, faults, mismatches>>
      /\ file' = [file EXCEPT ![op.content] = "none"]
  BY DEF Unlink, rowVars, counters
<1>2. /\ pc' \in {"idle", "release"} /\ op' = NoOp /\ held' = NothingHeld /\ held = NothingHeld
      /\ releases' = releases /\ (pc' = "idle" => releases' = {})
      /\ puts' \in [PutSlots -> Contents \union {None}]
  BY <1>1, NextReleased DEF Unlink
<1>3. op.content \in Contents /\ \A b \in Blobs : index[b].content # op.content
  BY <1>1 DEF BlobInv, OpSound
<1>4. /\ file' \in [Contents -> {"none", "partial", "full"}] /\ file'[op.content] = "none"
      /\ \A c \in Contents : c # op.content => file'[c] = file[c]
  BY <1>1, <1>3 DEF BlobInv, TypeOK
<1>5. TypeOK'
  BY <1>1, <1>2, <1>4, RestedTypes DEF BlobInv, TypeOK, Exists
<1>6. Counted'
  BY <1>1, <1>2, CountSame DEF BlobInv, Clean
<1>7. RowsSound'
  BY <1>1, <1>3, <1>4 DEF BlobInv, RowsSound, Exists, TypeOK
<1>8. Bodies' /\ Matching'
  BY <1>1 DEF BlobInv, Bodies, Matching, Stored
<1>9. FilesKept'
  BY <1>1, <1>4 DEF BlobInv, FilesKept, Clean
<1>10. SaveSound' /\ RecordSound' /\ OpSound'
  BY <1>2, Rested
<1> QED BY <1>5, <1>6, <1>7, <1>8, <1>9, <1>10 DEF BlobInv

-------------------------------------------------------------------------------
(* Rows are deleted and the blobs collected for them released: a blob of a *)
(* row that is not collected stays counted, which is a leak.               *)
LEMMA DeleteKeeps ==
    ASSUME BlobInv, NEW victims \in SUBSET Requests, NEW collected \in SUBSET victims, Clean => collected = victims,
           NEW ps, NEW cs, DeleteRows(collected, victims, ps, cs)
    PROVE  BlobInv'
<1> DEFINE blobs == [r \in Requests |-> reqs[r].blob]
<1>1. /\ pc = "idle" /\ UNCHANGED <<index, file, execs, faults, mismatches>>
      /\ reqs' = [r \in Requests |-> IF r \in victims THEN NoRequest ELSE reqs[r]]
      /\ projects' = projects \ ps /\ collections' = collections \ cs
      /\ Release(collected, blobs)
  BY DEF DeleteRows, counters
<1>t. /\ reqs \in [Requests -> [project : Projects \union {None}, collection : Collections \union {None},
                               blob : Blobs \union {None}, body : Contents \union {None}]]
      /\ execs' \in [Executions -> [snap : Blobs \union {None}, resp : Blobs \union {None}]]
      /\ held = NothingHeld /\ IsFiniteSet(releases)
      /\ projects' \subseteq Projects /\ collections' \subseteq Collections
      /\ faults' \in 0 .. MaxFaults /\ mismatches' \in 0 .. MaxMismatches /\ (Clean' => Clean)
  BY <1>1 DEF BlobInv, TypeOK, OpSound, Working, Clean
<1>2. /\ reqs' \in [Requests -> [project : Projects \union {None}, collection : Collections \union {None},
                                blob : Blobs \union {None}, body : Contents \union {None}]]
      /\ \A r \in Requests : reqs'[r] = IF r \in victims THEN NoRequest ELSE reqs[r]
  BY <1>1, <1>t, RestedTypes
<1>3. Bodies'
  BY <1>1, <1>2 DEF BlobInv, Bodies, NoRequest
<1>4. Matching'
  BY <1>1, <1>2 DEF BlobInv, Matching, Stored
<1>5. IsFiniteSet(victims) /\ IsFiniteSet(collected) /\ \A x \in collected : blobs[x] \in Blobs \union {None}
  BY <1>t, FS_Subset, BlobStoreAssumption
<1>6. \A b \in Blobs :
         LET now == Cardinality(Wants(reqs', b)) + Cardinality(Snaps(execs', b)) + Cardinality(Resps(execs', b))
                    + Cardinality(Having(collected, blobs, b))
             before == Cardinality(Wants(reqs, b)) + Cardinality(Snaps(execs, b)) + Cardinality(Resps(execs, b))
                       + Cardinality(HeldIn(held, b))
         IN  now <= before /\ (Clean' => now = before)
  <2> TAKE b \in Blobs
  <2> DEFINE i == Cardinality(Wants(reqs, b))
             j == Cardinality(Snaps(execs, b))
             k == Cardinality(Resps(execs, b))
             l == Cardinality(HeldIn(held, b))
             i2 == Cardinality(Wants(reqs', b))
             gone == Wants(reqs, b) \intersect victims
             g == Cardinality(gone)
             m2 == Cardinality(Having(collected, blobs, b))
  <2>0. b # None
    BY BlobStoreAssumption
  <2>1. i \in Nat /\ j \in Nat /\ k \in Nat /\ l = 0 /\ i2 \in Nat /\ IsFiniteSet(Wants(reqs, b))
    BY <1>t, Counts, NoneHeld
  <2>2. i2 = i - g
    <3>1. Wants(reqs', b) = Wants(reqs, b) \ victims
      BY <1>2, <2>0 DEF Wants, NoRequest
    <3> HIDE DEF blobs
    <3> QED BY <2>1, <3>1, FS_Difference
  <2>3. m2 \in Nat /\ g \in Nat /\ m2 <= g /\ (Clean => m2 = g)
    <3>1. IsFiniteSet(gone) /\ g \in Nat
      BY <2>1, FS_Subset, FS_CardinalityType
    <3>2. Having(collected, blobs, b) \subseteq gone
      BY DEF Having, Wants
    <3>3. IsFiniteSet(Having(collected, blobs, b)) /\ m2 <= g
      <4> HIDE DEF gone, blobs
      <4> QED BY <3>1, <3>2, FS_Subset
    <3>4. m2 \in Nat
      BY <3>3, FS_CardinalityType
    <3>5. Clean => Having(collected, blobs, b) = gone
      BY DEF Having, Wants
    <3> QED BY <3>1, <3>3, <3>4, <3>5
  <2>4. i2 + j + k + m2 <= i + j + k + l /\ (Clean => i2 + j + k + m2 = i + j + k + l)
    <3> HIDE DEF i, j, k, l, i2, g, m2
    <3> QED BY <2>1, <2>2, <2>3
  <2>5. execs' = execs
    BY <1>1
  <2> QED BY <1>t, <2>4, <2>5
<1> HIDE DEF BlobInv, blobs
<1> QED BY <1>1, <1>t, <1>2, <1>3, <1>4, <1>5, <1>6, SettleKeeps

LEMMA DeletesKeep ==
    ASSUME BlobInv,
           \/ \E r \in Requests : DeleteRequest(r)
           \/ \E c \in Collections : DeleteCollection(c)
           \/ \E p \in Projects : DeleteProject(p)
    PROVE  BlobInv'
<1>1. ASSUME NEW r \in Requests, DeleteRequest(r) PROVE BlobInv'
  <2>1. DeleteRows({r}, {r}, {}, {}) /\ {r} \in SUBSET Requests
    BY <1>1 DEF DeleteRequest
  <2> QED BY <2>1, DeleteKeeps
<1>2. ASSUME NEW c \in Collections, DeleteCollection(c) PROVE BlobInv'
  <2>1. DeleteRows(InSubtree(c), InSubtree(c), {}, SubtreeOf[c]) /\ InSubtree(c) \in SUBSET Requests
    BY <1>2 DEF DeleteCollection, InSubtree, Stored
  <2> QED BY <2>1, DeleteKeeps
<1>3. ASSUME NEW p \in Projects, DeleteProject(p) PROVE BlobInv'
  <2> DEFINE inside == {c \in collections : ProjectOf[c] = p}
             victims == InProject(p) \union {r \in Stored : reqs[r].collection \in inside}
  <2>1. DeleteRows(InProject(p), victims, {p}, inside)
    BY <1>3 DEF DeleteProject
  <2>2. victims \in SUBSET Requests /\ InProject(p) \in SUBSET victims
    BY DEF InProject, Stored
  <2>3. Clean => InProject(p) = victims
    BY DEF BlobInv, Matching, Clean, InProject
  <2> HIDE DEF victims, inside
  <2> QED BY <2>1, <2>2, <2>3, DeleteKeeps
<1> QED BY <1>1, <1>2, <1>3

-------------------------------------------------------------------------------
LEMMA BlobInit == Init => BlobInv
<1> SUFFICES ASSUME Init PROVE BlobInv
  OBVIOUS
<1>1. \A s \in Slots : held[s] = None
  BY DEF Init, NothingHeld
<1>2. TypeOK
  BY RestedTypes, FS_EmptySet, BlobStoreAssumption DEF Init, TypeOK, Exists, NoBlob, NoExecution
<1>3. Counted
  <2> SUFFICES ASSUME NEW b \in Blobs PROVE index[b].refs = 0 /\ OwedIn(reqs, execs, held, releases, b) = 0
    BY DEF Counted, Owed
  <2>1. b # None
    BY BlobStoreAssumption
  <2>2. Wants(reqs, b) = {} /\ Snaps(execs, b) = {} /\ Resps(execs, b) = {}
    BY <2>1 DEF Init, Wants, Snaps, Resps, NoRequest, NoExecution
  <2>3. held = NothingHeld /\ releases = {} /\ index[b].refs = 0
    BY DEF Init, NoBlob
  <2> QED BY <2>2, <2>3, NoneHeld, FS_EmptySet DEF OwedIn
<1>4. RowsSound /\ Bodies /\ FilesKept /\ Matching
  BY DEF Init, RowsSound, Bodies, FilesKept, Matching, Stored, Exists, NoBlob, NoRequest
<1>5. SaveSound /\ RecordSound /\ OpSound
  BY <1>1 DEF Init, SaveSound, RecordSound, OpSound, Working
<1> QED BY <1>2, <1>3, <1>4, <1>5 DEF BlobInv

LEMMA BlobStep == ASSUME BlobInv, [Next]_vars PROVE BlobInv'
<1>1. CASE Operation
  BY <1>1, RowKeeps, DeletesKeep, SaveStarts, RecordStarts DEF Operation
<1>2. CASE Step
  BY <1>2, SkipKeeps, WriteKeeps, PutKeeps, PutFailKeeps, CommitKeeps, CommitFailKeeps,
     CountDownKeeps, ReleaseLastKeeps, UnlinkKeeps, FailKeeps DEF Step
<1>3. CASE UNCHANGED vars
  <2>1. UNCHANGED <<index, file, reqs, execs, projects, collections, pc, op, puts, held, releases, faults, mismatches>>
    BY <1>3 DEF vars
  <2>2. TypeOK' /\ RowsSound' /\ Bodies' /\ Matching'
    BY <2>1 DEF BlobInv, TypeOK, RowsSound, Bodies, Matching, Stored, Exists
  <2>3. Counted'
    BY <2>1, CountSame DEF BlobInv, Clean
  <2>4. slot' = slot /\ content' = content /\ NewContent' = NewContent /\ HeldFor' = HeldFor
    BY <2>1 DEF slot, content, NewContent, HeldFor
  <2>5. SaveSound' /\ RecordSound' /\ OpSound' /\ FilesKept'
    BY <2>1, <2>4 DEF BlobInv, SaveSound, RecordSound, OpSound, FilesKept, Working, Clean
  <2> QED BY <2>2, <2>3, <2>5 DEF BlobInv
<1> QED BY <1>1, <1>2, <1>3 DEF Next

LEMMA BlobInvariant == Spec => []BlobInv
<1>1. BlobInv /\ [Next]_vars => BlobInv'
  BY BlobStep
<1> QED BY <1>1, BlobInit, PTL DEF Spec

(* The tables, the files and the operation under way have their types,     *)
(* and a row of blob_index exists as long as its ref_count is positive.    *)
THEOREM BlobTypes == Spec => []TypeOK
<1>1. BlobInv => TypeOK
  BY DEF BlobInv
<1> QED BY <1>1, BlobInvariant, PTL

(* Every reference that is stored, of a request or of an execution, has a  *)
(* row in blob_index and a complete file, and the body of a request is the *)
(* one that was saved: whatever operations ran, failed or were cut short.  *)
THEOREM EveryBodyReadsBack == Spec => []ReadsBack
<1>1. BlobInv => ReadsBack
  <2> SUFFICES ASSUME BlobInv PROVE ReadsBack
    OBVIOUS
  <2>1. ASSUME NEW b \in Blobs, index[b].content = None
        PROVE  (\A r \in Requests : reqs[r].blob # b) /\ \A x \in Executions : execs[x].snap # b /\ execs[x].resp # b
    <3>1. index[b].refs = 0
      BY <2>1 DEF BlobInv, TypeOK, Exists
    <3> QED BY <3>1, Unreferred DEF BlobInv
  <2>2. ASSUME NEW r \in Requests, reqs[r].body # None
        PROVE  reqs[r].blob # None /\ index[reqs[r].blob].content = reqs[r].body /\ file[reqs[r].body] = "full"
    <3>1. reqs[r].blob # None /\ index[reqs[r].blob].content = reqs[r].body
      BY <2>2 DEF BlobInv, Bodies
    <3>2. reqs[r].blob \in Blobs
      BY <3>1 DEF BlobInv, TypeOK
    <3> QED BY <2>2, <3>1, <3>2 DEF BlobInv, RowsSound, Exists
  <2>3. ASSUME NEW x \in Executions, NEW b \in {execs[x].snap, execs[x].resp} \ {None}
        PROVE  Exists(b) /\ file[index[b].content] = "full"
    <3>1. b \in Blobs
      BY DEF BlobInv, TypeOK
    <3>2. Exists(b)
      BY <2>1, <3>1 DEF Exists
    <3> QED BY <3>1, <3>2 DEF BlobInv, RowsSound
  <2>4. \A r \in Requests : reqs[r].blob # None => reqs[r].body # None
    BY DEF BlobInv, Bodies
  <2> QED BY <2>2, <2>3, <2>4 DEF ReadsBack
<1> QED BY <1>1, BlobInvariant, PTL

(* Without failures, and with every request saved in the project of its    *)
(* collection, the counts are exact and no file is left behind whenever no *)
(* operation is under way: cascading deletes release every blob they drop. *)
THEOREM NothingLeaks == Spec => []NoLeak
<1>1. BlobInv => NoLeak
  <2> SUFFICES ASSUME BlobInv, pc = "idle", faults = 0, mismatches = 0 PROVE Exact
    BY DEF NoLeak
  <2>1. Clean /\ held = NothingHeld /\ releases = {}
    BY DEF Clean, BlobInv, OpSound, Working
  <2>2. ASSUME NEW b \in Blobs PROVE index[b].refs = References(b)
    <3> DEFINE i == Cardinality(Wants(reqs, b))
               j == Cardinality(Snaps(execs, b))
               k == Cardinality(Resps(execs, b))
               l == Cardinality(HeldIn(held, b))
               m == Cardinality(DueIn(releases, b))
    <3>1. i \in Nat /\ j \in Nat /\ k \in Nat /\ l = 0 /\ m = 0
      BY <2>1, NoneHeld, Counts
    <3>2. index[b].refs = i + j + k + l + m
      BY <2>1 DEF BlobInv, Counted, Owed, OwedIn
    <3>3. index[b].refs = i + j + k
      <4> HIDE DEF i, j, k, l, m
      <4> QED BY <3>1, <3>2
    <3>4. References(b) = i + j + k
      BY DEF References, RequestsOf, SnapsOf, RespsOf, Wants, Snaps, Resps
    <3> QED BY <3>3, <3>4
  <2>3. \A c \in Contents : file[c] # "none" => \E b \in Blobs : index[b].content = c
    BY <2>1 DEF BlobInv, FilesKept
  <2> QED BY <2>2, <2>3 DEF Exact
<1> QED BY <1>1, BlobInvariant, PTL
================================================================================
