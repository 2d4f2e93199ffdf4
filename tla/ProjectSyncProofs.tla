------------------------- MODULE ProjectSyncProofs -------------------------
(***************************************************************************)
(* What project sync guarantees for any number of computers, projects and  *)
(* contents: of requests in any order, what they are told and what they    *)
(* overwrite; of requests one after the other, the contents, the quota,    *)
(* the purge and the delete.                                               *)
(***************************************************************************)
EXTENDS ProjectSync, FiniteSetTheorems, TLAPS

-----------------------------------------------------------------------------
(* Sums over finite sets *)

\* Every non-empty set of subsets of a finite set has a minimal member.
LEMMA MinimalSubset ==
  ASSUME NEW S, IsFiniteSet(S), NEW T \in SUBSET (SUBSET S), T # {}
  PROVE  \E s \in T : \A t \in T : t \subseteq s => t = s
<1>1. IsWellFoundedOn(StrictSubsetOrdering(S), SUBSET S)
  BY FS_StrictSubsetOrderingWellFounded, FS_FiniteSubsetsOfFinite
<1>2. PICK s \in T : \A t \in T : ~ (<<t, s>> \in StrictSubsetOrdering(S))
  BY <1>1, WFMin
<1>. QED BY <1>2 DEF StrictSubsetOrdering

\* w[x] units of each x: a sum is the number of units.
Units(w, S) == {u \in S \X Nat : 1 <= u[2] /\ u[2] <= w[u[1]]}

LEMMA UnitsOfOne ==
  ASSUME NEW w, NEW x, w[x] \in Nat
  PROVE  IsFiniteSet(Units(w, {x})) /\ Cardinality(Units(w, {x})) = w[x]
<1>. DEFINE n == w[x]
            f == [k \in 1 .. n |-> <<x, k>>]
<1>1. f \in Bijection(1 .. n, Units(w, {x}))
  <2>1. Units(w, {x}) = {x} \X (1 .. n)
    BY DEF Units
  <2>. HIDE DEF n
  <2>2. \A k \in 1 .. n : f[k] = <<x, k>> /\ f[k] \in {x} \X (1 .. n)
    OBVIOUS
  <2>3. \A u \in {x} \X (1 .. n) : u[2] \in 1 .. n /\ u = <<x, u[2]>>
    OBVIOUS
  <2>4. f \in Injection(1 .. n, {x} \X (1 .. n))
    BY <2>2 DEF Injection, IsInjective
  <2>5. \A u \in {x} \X (1 .. n) : \E k \in 1 .. n : f[k] = u
    BY <2>2, <2>3
  <2>. QED BY <2>1, <2>4, <2>5, <2>2 DEF Bijection, Surjection, Injection
<1>2. ExistsBijection(1 .. n, Units(w, {x}))
  BY <1>1 DEF ExistsBijection
<1>3. IsFiniteSet(1 .. n) /\ Cardinality(1 .. n) = n
  <2>1. n \in Nat
    OBVIOUS
  <2>. HIDE DEF n
  <2>. QED BY <2>1, FS_Interval
<1>. HIDE DEF n, f
<1>4. IsFiniteSet(Units(w, {x})) /\ Cardinality(Units(w, {x})) = Cardinality(1 .. n)
  BY <1>2, <1>3, FS_Bijection
<1>. QED BY <1>3, <1>4 DEF n

LEMMA UnitsAreFinite ==
  ASSUME NEW S, IsFiniteSet(S), NEW w, \A x \in S : w[x] \in Nat
  PROVE  \A s \in SUBSET S : IsFiniteSet(Units(w, s))
<1>. DEFINE T == {s \in SUBSET S : ~IsFiniteSet(Units(w, s))}
<1>. SUFFICES ASSUME T # {} PROVE FALSE
  OBVIOUS
<1>1. PICK s \in T : \A t \in T : t \subseteq s => t = s
  <2>1. T \in SUBSET (SUBSET S)
    OBVIOUS
  <2>. HIDE DEF T
  <2>. QED BY <2>1, MinimalSubset
<1>2. CASE s = {}
  <2>1. Units(w, {}) = {}
    BY DEF Units
  <2>. QED BY <1>1, <1>2, <2>1, FS_EmptySet
<1>3. CASE s # {}
  <2>1. PICK x \in s : TRUE
    BY <1>3
  <2>2. s \ {x} \notin T /\ s \ {x} \in SUBSET S
    BY <1>1, <2>1
  <2>3. IsFiniteSet(Units(w, s \ {x}))
    BY <2>2
  <2>4. Units(w, s) = Units(w, s \ {x}) \cup Units(w, {x})
    BY <2>1 DEF Units
  <2>5. IsFiniteSet(Units(w, {x}))
    BY <2>1, <1>1, UnitsOfOne
  <2>6. IsFiniteSet(Units(w, s \ {x}) \cup Units(w, {x}))
    BY <2>3, <2>5, FS_Union
  <2>. QED BY <1>1, <2>4, <2>6
<1>. QED BY <1>2, <1>3

LEMMA UnitsAddUp ==
  ASSUME NEW S, IsFiniteSet(S), NEW w, \A x \in S : w[x] \in Nat, NEW x \in S
  PROVE  Cardinality(Units(w, S)) = Cardinality(Units(w, S \ {x})) + w[x]
<1>. DEFINE A == Units(w, S \ {x})
            B == Units(w, {x})
<1>1. IsFiniteSet(A)
  BY UnitsAreFinite
<1>2. IsFiniteSet(B) /\ Cardinality(B) = w[x]
  BY UnitsOfOne
<1>3. Units(w, S) = A \cup B /\ A \cap B = {}
  BY DEF Units
<1>. HIDE DEF A, B
<1>4. Cardinality(A \cup B) = Cardinality(A) + Cardinality(B) - Cardinality(A \cap B)
  BY <1>1, <1>2, FS_Union
<1>5. Cardinality({}) = 0 /\ Cardinality(A) \in Nat
  BY <1>1, FS_EmptySet, FS_CardinalityType
<1>6. w[x] \in Nat
  OBVIOUS
<1>7. Cardinality(Units(w, S)) = Cardinality(A \cup B) /\ Cardinality(A \cap B) = 0
  BY <1>3, <1>5, Zenon
<1>8. Cardinality(Units(w, S)) = Cardinality(A) + w[x]
  BY <1>2, <1>4, <1>5, <1>6, <1>7
<1>. QED BY <1>8 DEF A

-----------------------------------------------------------------------------
(* Types *)

USE NamesAssumption, SizesAssumption, LengthsAssumption


OfProject == {"tree", "blobs", "quota", "flush", "mark", "unmark"}
OfAccount == {"idle", "insert", "rows"}

\* What a request is about, by its stage; only a list deletes other projects.
WellFormed(r) ==
  /\ r.at \in OfProject => r.project # "none"
  /\ r.at \in OfAccount => r.project = "none"
  /\ r.project # "none" => r.purged = {}
  /\ \A p \in Projects \ r.purged : r.goneFiles[p] = {} /\ r.goneRevisions[p] = {}

WellTyped == TypeOK /\ \A c \in Clients : WellFormed(req[c])

\* A set of contents has a size.
LEMMA TreeHasSize == \A tree \in SUBSET Blobs : Cardinality(tree) \in Nat
  BY FS_Subset, FS_CardinalityType

\* The row, the trees and the contents that a request leaves have their types.
LEMMA AfterTypes ==
  ASSUME WellTyped, NEW c \in Clients
  PROVE  /\ FilesAfter(c) \in [Projects -> SUBSET Blobs]
         /\ RevisionsAfter(c) \in [Projects -> SUBSET Trees]
         /\ RowAfter(c) \in [Projects -> Rows]
<1>. DEFINE r == req[c]
<1>0. r \in Requests
  BY DEF WellTyped, TypeOK
<1>r. /\ r.tree \subseteq Blobs /\ r.row \in Rows
      /\ r.row.revision \in Nat
      /\ r.goneFiles \in [Projects -> SUBSET Blobs]
  BY <1>0 DEF Requests, Rows
<1>d. /\ files \in [Projects -> SUBSET Blobs]
      /\ revisions \in [Projects -> SUBSET Trees]
      /\ project \in [Projects -> Rows]
  BY DEF WellTyped, TypeOK
<1>. HIDE DEF r
<1>1. FilesAfter(c) \in [Projects -> SUBSET Blobs]
  BY <1>r, <1>d DEF FilesAfter, r
<1>2. NextRevision(c) \in Nat \ {0}
  BY <1>r DEF NextRevision, r
<1>3. [revision |-> NextRevision(c), files |-> r.tree] \in Trees
  BY <1>2, <1>r DEF Trees
<1>4. RevisionsAfter(c) \in [Projects -> SUBSET Trees]
  BY <1>3, <1>d DEF RevisionsAfter, r
<1>5. Cardinality(r.tree) \in Nat
  BY <1>r, TreeHasSize
<1>6. NoRow \in Rows
  BY DEF NoRow, Rows
<1>7. \A p \in Projects : project[p].deleted \in {"no", "recent", "old"}
  BY <1>d DEF Rows
<1>8. RowAfter(c) \in [Projects -> Rows]
  <2>. SUFFICES ASSUME NEW p \in Projects PROVE RowAfter(c)[p] \in Rows
    BY DEF RowAfter
  <2>1. CASE p = r.project
    <3>. DEFINE d == IF r.row.deleted = "no" THEN project[p].deleted ELSE "no"
    <3>1. d \in {"no", "recent", "old"}
      BY <1>7
    <3>. HIDE DEF d
    <3>2. [revision |-> NextRevision(c), size |-> Cardinality(r.tree), deleted |-> d] \in Rows
      BY <3>1, <1>2, <1>5 DEF Rows
    <3>. QED BY <3>2, <2>1 DEF RowAfter, r, d
  <2>2. CASE p # r.project
    BY <2>2, <1>6, <1>d DEF RowAfter, r
  <2>. QED BY <2>1, <2>2
<1>. QED BY <1>1, <1>4, <1>8

\* A request that goes on as r, with r of the right type and form, keeps the types.
LEMMA ReqTypes ==
  ASSUME WellTyped, NEW c \in Clients, NEW r \in Requests, WellFormed(r),
         req' = [req EXCEPT ![c] = r]
  PROVE  req' \in [Clients -> Requests] /\ \A d \in Clients : WellFormed(req[d])'
<1>1. req \in [Clients -> Requests]
  BY DEF WellTyped, TypeOK
<1>2. req' \in [Clients -> Requests]
  BY <1>1
<1>3. \A d \in Clients : req'[d] = IF d = c THEN r ELSE req[d]
  BY <1>1
<1>4. \A d \in Clients : WellFormed(req'[d])
  BY <1>3 DEF WellTyped
<1>. QED BY <1>2, <1>4 DEF WellFormed

LEMMA IdleTypes == Idle \in Requests /\ WellFormed(Idle)
  BY DEF Idle, Requests, WellFormed, NoRow, Rows, Stages, OfProject, OfAccount

\* A request that opens with a project it has read.
LEMMA OpenedTypes ==
  ASSUME NEW p \in Projects, NEW row \in Rows, NEW stage \in {"tree", "mark", "unmark"}
  PROVE  LET r == [Idle EXCEPT !.at = stage, !.project = p, !.row = row]
         IN  r \in Requests /\ WellFormed(r)
  BY DEF Idle, Requests, WellFormed, NoRow, Rows, Stages, OfProject, OfAccount

\* Only a request with a row to hold goes by a lock.
Holding == {"used", "drop", "commit"}
LocksHeld == \A p \in Projects : lock[p] # "none" => req[lock[p]].at \in Holding

\* A step of c that only moves its request, at a stage where it holds no row or
\* to a stage where it may hold one.
LEMMA MoveKeepsTypes ==
  ASSUME WellTyped, NEW c \in Clients, NEW r \in Requests, WellFormed(r),
         GoOn(c, r), UNCHANGED <<Database, lock, stamp, ages, aborts>>,
         seen' \in [Clients -> [Projects -> [etag : Nat, stamp : Nat]]],
         req[c].at \notin Holding \/ r.at \in Holding
  PROVE  WellTyped'
<1>1. req' \in [Clients -> Requests] /\ \A d \in Clients : WellFormed(req[d])'
  BY ReqTypes DEF GoOn
<1>2. \A d \in Clients : req'[d] = IF d = c THEN r ELSE req[d]
  BY DEF GoOn, WellTyped, TypeOK
<1>3. \A p \in Projects : lock[p] # "none" => lock[p] \in Clients
  BY DEF WellTyped, TypeOK
<1>4. LocksHeld'
  BY <1>2, <1>3 DEF LocksHeld, WellTyped, TypeOK, Holding
<1>. QED BY <1>1, <1>4 DEF WellTyped, TypeOK, Database, LocksHeld, Holding

LEMMA AskTypes ==
  ASSUME WellTyped, NEW c \in Clients, Ask(c)
  PROVE  WellTyped'
<1>t. /\ project \in [Projects -> Rows]
      /\ req \in [Clients -> Requests]
      /\ seen \in [Clients -> [Projects -> [etag : Nat, stamp : Nat]]]
  BY DEF WellTyped, TypeOK
<1>1. ASSUME NEW p \in Projects, GetProject(c, p) \/ CommitConflict(c, p) \/ DeleteConflict(c, p)
      PROVE  WellTyped'
  <2>. DEFINE r == [Idle EXCEPT !.at = "tree", !.project = p, !.row = project[p]]
  <2>2. r \in Requests /\ WellFormed(r)
    BY <1>t, OpenedTypes
  <2>3. /\ GoOn(c, r) /\ UNCHANGED <<Database, lock, Observed>> /\ req[c].at = "idle"
    BY <1>1 DEF GetProject, CommitConflict, DeleteConflict, AskTree, MayOpen
  <2>. HIDE DEF r
  <2>. QED BY <2>2, <2>3, <1>t, MoveKeepsTypes DEF Observed, Holding
<1>2. ASSUME NEW p \in Projects, NotFound(c, p)
      PROVE  WellTyped'
  <2>1. seen' \in [Clients -> [Projects -> [etag : Nat, stamp : Nat]]]
    BY <1>2, <1>t DEF NotFound
  <2>. QED BY <1>2, <2>1 DEF NotFound, WellTyped, TypeOK, WellFormed, Database
<1>3. ASSUME NEW p \in Projects, DeleteProject(c, p) \/ RestoreProject(c, p)
      PROVE  WellTyped'
  <2>1. PICK stage \in {"mark", "unmark"} :
          /\ GoOn(c, [Idle EXCEPT !.at = stage, !.project = p, !.row = project[p]])
          /\ UNCHANGED <<Database, lock, Observed>> /\ req[c].at = "idle"
    BY <1>3 DEF DeleteProject, RestoreProject, MayOpen
  <2>. DEFINE r == [Idle EXCEPT !.at = stage, !.project = p, !.row = project[p]]
  <2>3. r \in Requests /\ WellFormed(r)
    BY <1>t, OpenedTypes
  <2>. HIDE DEF r
  <2>4. GoOn(c, r)
    BY <2>1 DEF r
  <2>. QED BY <2>1, <2>3, <2>4, <1>t, MoveKeepsTypes DEF Observed, Holding
<1>4. ASSUME NEW p \in Projects, NEW tree \in SUBSET Blobs, Commit(c, p, tree)
      PROVE  WellTyped'
  <2>. DEFINE r == [Idle EXCEPT !.at = "blobs", !.project = p, !.tree = tree, !.row = project[p]]
  <2>1. r \in Requests /\ WellFormed(r)
    BY <1>t DEF Idle, Requests, WellFormed, NoRow, Rows, Stages, OfProject, OfAccount
  <2>2. GoOn(c, r) /\ UNCHANGED <<Database, lock, Observed>> /\ req[c].at = "idle"
    BY <1>4 DEF Commit, MayOpen
  <2>. HIDE DEF r
  <2>. QED BY <2>1, <2>2, <1>t, MoveKeepsTypes DEF Observed, Holding
<1>5. ASSUME NEW contents \in SUBSET Blobs \ {{}}, Upload(c, contents)
      PROVE  WellTyped'
  <2>. DEFINE r == [Idle EXCEPT !.at = "insert", !.tree = contents \ blobs]
  <2>1. r \in Requests /\ WellFormed(r)
    BY DEF Idle, Requests, WellFormed, NoRow, Rows, Stages, OfProject, OfAccount
  <2>2. GoOn(c, r) /\ UNCHANGED <<Database, lock, Observed>> /\ req[c].at = "idle"
    BY <1>5 DEF Upload, MayOpen
  <2>. HIDE DEF r
  <2>. QED BY <2>1, <2>2, <1>t, MoveKeepsTypes DEF Observed, Holding
<1>6. ASSUME ListProjects(c)
      PROVE  WellTyped'
  <2>. DEFINE old == {p \in Projects : project[p].deleted = "old"}
              r == [Idle EXCEPT !.purged = old, !.at = IF old = {} THEN "used" ELSE "rows"]
  <2>1. r \in Requests /\ WellFormed(r)
    BY DEF Idle, Requests, WellFormed, NoRow, Rows, Stages, OfProject, OfAccount
  <2>2. GoOn(c, r) /\ UNCHANGED <<Database, lock, Observed>> /\ req[c].at = "idle"
    BY <1>6 DEF ListProjects, MayOpen
  <2>. HIDE DEF r
  <2>. QED BY <2>1, <2>2, <1>t, MoveKeepsTypes DEF Observed, Holding
<1>. QED BY <1>1, <1>2, <1>3, <1>4, <1>5, <1>6 DEF Ask

\* A step that releases what c holds and closes its request.
LEMMA EndKeepsTypes ==
  ASSUME WellTyped, NEW c \in Clients, End(c), lock' = Released(c) \/ UNCHANGED lock,
         lock' = Released(c) \/ req[c].at \notin Holding,
         project' \in [Projects -> Rows], files' \in [Projects -> SUBSET Blobs],
         revisions' \in [Projects -> SUBSET Trees], blobs' \subseteq Blobs,
         seen' \in [Clients -> [Projects -> [etag : Nat, stamp : Nat]]],
         stamp' \in [Projects -> Nat], ages' \in Nat, aborts' \in Nat
  PROVE  WellTyped'
<1>1. req' \in [Clients -> Requests] /\ \A d \in Clients : WellFormed(req[d])'
  BY ReqTypes, IdleTypes DEF End
<1>2. \A d \in Clients \ {c} : req'[d] = req[d]
  BY DEF End, WellTyped, TypeOK
<1>3. lock' \in [Projects -> Clients \cup {"none"}]
  BY DEF Released, WellTyped, TypeOK
<1>4. \A p \in Projects : lock'[p] # "none" => lock'[p] = lock[p] /\ lock'[p] # c
  BY DEF Released, WellTyped, TypeOK, Holding
<1>5. LocksHeld'
  BY <1>2, <1>3, <1>4 DEF LocksHeld, WellTyped, TypeOK, Holding
<1>. QED BY <1>1, <1>3, <1>5 DEF WellTyped, TypeOK, LocksHeld, Holding

\* A transaction that commits.
LEMMA FinishTypes ==
  ASSUME WellTyped, NEW c \in Clients, Finish(c)
  PROVE  WellTyped'
<1>t. /\ req \in [Clients -> Requests] /\ req[c] \in Requests
      /\ seen \in [Clients -> [Projects -> [etag : Nat, stamp : Nat]]]
      /\ stamp \in [Projects -> Nat] /\ blobs \subseteq Blobs
      /\ lock \in [Projects -> Clients \cup {"none"}]
  BY DEF WellTyped, TypeOK
<1>1. /\ project' \in [Projects -> Rows]
      /\ files' \in [Projects -> SUBSET Blobs]
      /\ revisions' \in [Projects -> SUBSET Trees]
  BY AfterTypes DEF Finish
<1>2. \A d \in Clients :
        req'[d] = IF d = c THEN Idle ELSE [req[d] EXCEPT !.dropped = @ \ req[c].dropped]
  BY DEF Finish
<1>3. \A d \in Clients : req'[d] \in Requests /\ WellFormed(req'[d])
  <2>. TAKE d \in Clients
  <2>1. CASE d = c
    BY <2>1, <1>2, IdleTypes
  <2>2. CASE d # c
    <3>. DEFINE r == [req[d] EXCEPT !.dropped = @ \ req[c].dropped]
    <3>1. r \in Requests
      BY <1>t DEF Requests
    <3>2. WellFormed(r)
      BY <1>t DEF Requests, WellTyped, WellFormed
    <3>. QED BY <3>1, <3>2, <2>2, <1>2
  <2>. QED BY <2>1, <2>2
<1>4. req' = [d \in Clients |-> req'[d]]
  BY DEF Finish
<1>5. req' \in [Clients -> Requests]
  BY <1>3, <1>4
<1>6. \A d \in Clients \ {c} : req'[d].at = req[d].at
  <2>. TAKE d \in Clients \ {c}
  <2>1. req'[d] = [req[d] EXCEPT !.dropped = @ \ req[c].dropped] /\ req[d] \in Requests
    BY <1>2, <1>t
  <2>. QED BY <2>1 DEF Requests
<1>7. lock' \in [Projects -> Clients \cup {"none"}]
  BY <1>t DEF Finish, Released
<1>8. \A p \in Projects : lock'[p] # "none" => lock'[p] = lock[p] /\ lock'[p] # c
  BY <1>t DEF Finish, Released
<1>9. LocksHeld'
  BY <1>6, <1>7, <1>8 DEF LocksHeld, WellTyped, TypeOK, Holding
<1>10. /\ stamp' \in [Projects -> Nat]
       /\ seen' \in [Clients -> [Projects -> [etag : Nat, stamp : Nat]]]
  <2>1. CASE ~IsCommit(c)
    BY <2>1, <1>t DEF Finish
  <2>2. CASE IsCommit(c)
    <3>. DEFINE p == req[c].project
                answer == [etag |-> NextRevision(c), stamp |-> stamp[p] + 1]
    <3>1. p \in Projects
      BY <2>2, <1>t DEF IsCommit, Requests
    <3>2. NextRevision(c) \in Nat
      BY <1>t DEF NextRevision, Requests, Rows
    <3>3. answer \in [etag : Nat, stamp : Nat]
      BY <3>1, <3>2, <1>t
    <3>4. /\ stamp' = [stamp EXCEPT ![p] = @ + 1]
          /\ seen' \in {seen, [seen EXCEPT ![c][p] = answer]}
      BY <2>2 DEF Finish
    <3>. HIDE DEF answer, p
    <3>5. stamp' \in [Projects -> Nat]
      BY <3>1, <3>4, <1>t
    <3>6. [seen EXCEPT ![c][p] = answer] \in [Clients -> [Projects -> [etag : Nat, stamp : Nat]]]
      BY <3>1, <3>3, <1>t
    <3>. QED BY <3>4, <3>5, <3>6, <1>t
  <2>. QED BY <2>1, <2>2
<1>. QED BY <1>1, <1>3, <1>5, <1>7, <1>9, <1>10, <1>t
         DEF WellTyped, TypeOK, Finish, LocksHeld, Holding, WellFormed

\* To delete, restore or age a project changes no revision and no size.
LEMMA SetDeletedTypes ==
  ASSUME project \in [Projects -> Rows], NEW p \in Projects,
         NEW d \in {"no", "recent", "old"}
  PROVE  LET rows == [project EXCEPT ![p].deleted = d]
         IN  /\ rows \in [Projects -> Rows]
             /\ \A q \in Projects : /\ rows[q].revision = project[q].revision
                                    /\ rows[q].size = project[q].size
<1>1. project[p] \in Rows
  OBVIOUS
<1>2. /\ [project[p] EXCEPT !.deleted = d] \in Rows
      /\ [project[p] EXCEPT !.deleted = d].revision = project[p].revision
      /\ [project[p] EXCEPT !.deleted = d].size = project[p].size
  BY <1>1 DEF Rows
<1>. QED BY <1>2

LEMMA HandleTypes ==
  ASSUME WellTyped, NEW c \in Clients, Handle(c)
  PROVE  WellTyped'
<1>. DEFINE Answers == [Clients -> [Projects -> [etag : Nat, stamp : Nat]]]
<1>t. /\ req \in [Clients -> Requests] /\ req[c] \in Requests /\ WellFormed(req[c])
      /\ seen \in Answers /\ stamp \in [Projects -> Nat] /\ blobs \subseteq Blobs
      /\ lock \in [Projects -> Clients \cup {"none"}]
      /\ project \in [Projects -> Rows] /\ files \in [Projects -> SUBSET Blobs]
      /\ revisions \in [Projects -> SUBSET Trees] /\ ages \in Nat /\ aborts \in Nat
  BY DEF WellTyped, TypeOK
<1>1. ASSUME Tree(c) PROVE WellTyped'
  <2>1. req[c].project \in Projects
    BY <1>1, <1>t DEF Tree, WellFormed, OfProject, Requests
  <2>2. seen' \in Answers
    <3>. DEFINE answer == [etag |-> req[c].row.revision, stamp |-> stamp[req[c].project]]
    <3>1. answer \in [etag : Nat, stamp : Nat]
      BY <2>1, <1>t DEF Requests, Rows
    <3>2. seen' = [seen EXCEPT ![c][req[c].project] = answer]
      BY <1>1 DEF Tree
    <3>. HIDE DEF answer
    <3>. QED BY <3>1, <3>2, <2>1, <1>t
  <2>. QED BY <1>1, <2>2, <1>t, EndKeepsTypes DEF Tree, Database, Holding
<1>2. ASSUME Insert(c) PROVE WellTyped'
  <2>1. blobs' \subseteq Blobs
    BY <1>2, <1>t DEF Insert, Requests
  <2>. QED BY <1>2, <2>1, <1>t, EndKeepsTypes DEF Insert, Observed, Holding
<1>3. ASSUME CommitBlobs(c) \/ CommitQuota(c) PROVE WellTyped'
  <2>1. CASE End(c)
    BY <1>3, <2>1, <1>t, EndKeepsTypes DEF CommitBlobs, CommitQuota, Database, Observed, Holding
  <2>2. CASE ~End(c)
    <3>1. PICK stage \in {"quota", "flush"} : GoOn(c, [req[c] EXCEPT !.at = stage])
      BY <1>3, <2>2, <1>t DEF CommitBlobs, CommitQuota, Goto, GoOn
    <3>2. /\ [req[c] EXCEPT !.at = stage] \in Requests
          /\ WellFormed([req[c] EXCEPT !.at = stage])
      BY <1>3, <1>t
      DEF CommitBlobs, CommitQuota, Requests, Stages, WellFormed, OfProject, OfAccount
    <3>. QED BY <1>3, <3>1, <3>2, <1>t, MoveKeepsTypes
             DEF CommitBlobs, CommitQuota, Observed, Holding
  <2>. QED BY <2>1, <2>2
<1>4. ASSUME Used(c) PROVE WellTyped'
  <2>. DEFINE used == InUse(FilesAfter(c), RevisionsAfter(c))
              r == [req[c] EXCEPT !.used = used, !.at = "drop"]
  <2>1. used \subseteq Blobs
    <3>1. \A p \in Projects : FilesAfter(c)[p] \subseteq Blobs /\ RevisionsAfter(c)[p] \subseteq Trees
      BY AfterTypes
    <3>2. \A tree \in Trees : tree.files \subseteq Blobs
      BY DEF Trees
    <3>3. \A b \in used : \E p \in Projects :
            b \in FilesAfter(c)[p] \/ \E t \in RevisionsAfter(c)[p] : b \in t.files
      BY DEF InUse
    <3>. QED BY <3>1, <3>2, <3>3
  <2>. HIDE DEF used
  <2>2. r \in Requests /\ WellFormed(r)
    BY <1>4, <2>1, <1>t DEF Used, Requests, Stages, WellFormed, OfProject, OfAccount
  <2>. HIDE DEF r
  <2>3. GoOn(c, r)
    BY <1>4 DEF Used, r, used
  <2>4. r.at \in Holding
    BY <1>t DEF r, Requests, Holding
  <2>. QED BY <1>4, <2>2, <2>3, <2>4, <1>t, MoveKeepsTypes DEF Used, Observed
<1>5. ASSUME Drop(c) PROVE WellTyped'
  <2>. DEFINE r == [req[c] EXCEPT !.dropped = blobs \ req[c].used, !.used = {}, !.at = "commit"]
  <2>2. r \in Requests /\ WellFormed(r)
    BY <1>5, <1>t DEF Drop, Requests, Stages, WellFormed, OfProject, OfAccount
  <2>. HIDE DEF r
  <2>3. GoOn(c, r)
    BY <1>5 DEF Drop, r
  <2>4. r.at \in Holding
    BY <1>t DEF r, Requests, Holding
  <2>. QED BY <1>5, <2>2, <2>3, <2>4, <1>t, MoveKeepsTypes DEF Drop, Observed
<1>6. ASSUME PurgeRows(c) PROVE WellTyped'
  <2>. DEFINE fs == GoneFiles(req[c].purged)
              rs == GoneRevisions(req[c].purged)
              r == [req[c] EXCEPT !.goneFiles = fs, !.goneRevisions = rs, !.at = "used"]
  <2>1. /\ fs \in [Projects -> SUBSET Blobs] /\ rs \in [Projects -> SUBSET Trees]
        /\ \A p \in Projects \ req[c].purged : fs[p] = {} /\ rs[p] = {}
    BY <1>t DEF GoneFiles, GoneRevisions
  <2>. HIDE DEF fs, rs
  <2>2. r \in Requests /\ WellFormed(r)
    BY <1>6, <2>1, <1>t DEF PurgeRows, Requests, Stages, WellFormed, OfProject, OfAccount
  <2>. HIDE DEF r
  <2>3. GoOn(c, r)
    BY <1>6 DEF PurgeRows, r, fs, rs
  <2>4. r.at \in Holding
    BY <1>t DEF r, Requests, Holding
  <2>. QED BY <1>6, <2>2, <2>3, <2>4, <1>t, MoveKeepsTypes DEF PurgeRows, Observed
<1>7. ASSUME CommitFlush(c) PROVE WellTyped'
  <2>. DEFINE p == req[c].project
  <2>1. p \in Projects
    BY <1>7, <1>t DEF CommitFlush, WellFormed, OfProject, Requests
  <2>2. CASE End(c) /\ UNCHANGED lock
    BY <1>7, <2>2, <1>t, EndKeepsTypes DEF CommitFlush, Database, Observed, Holding
  <2>3. CASE Goto(c, "used") /\ lock' = [lock EXCEPT ![p] = c]
    <3>. DEFINE r == [req[c] EXCEPT !.at = "used"]
    <3>1. r \in Requests /\ WellFormed(r) /\ r.at = "used"
      BY <1>7, <1>t DEF CommitFlush, Requests, Stages, WellFormed, OfProject, OfAccount
    <3>2. req' = [req EXCEPT ![c] = r]
      BY <2>3, <1>t DEF Goto
    <3>. HIDE DEF r
    <3>3. req' \in [Clients -> Requests] /\ \A d \in Clients : WellFormed(req[d])'
      BY <3>1, <3>2, ReqTypes
    <3>4. lock' \in [Projects -> Clients \cup {"none"}]
      BY <2>1, <2>3, <1>t
    <3>5. \A d \in Clients : req'[d] = IF d = c THEN r ELSE req[d]
      BY <3>2, <1>t
    <3>6. \A q \in Projects : lock'[q] = IF q = p THEN c ELSE lock[q]
      BY <2>3, <1>t
    <3>l. LocksHeld
      BY DEF LocksHeld, Holding, WellTyped, TypeOK
    <3>7. LocksHeld'
      <4>. SUFFICES ASSUME NEW q \in Projects, lock'[q] # "none"
                    PROVE  req'[lock'[q]].at \in Holding
        BY DEF LocksHeld
      <4>1. CASE q = p
        BY <4>1, <3>1, <3>5, <3>6 DEF Holding
      <4>2. CASE q # p
        <5>1. lock'[q] = lock[q] /\ lock[q] \in Clients /\ req[lock[q]].at \in Holding
          BY <4>2, <3>l, <3>6, <1>t DEF LocksHeld
        <5>. QED BY <5>1, <3>1, <3>5 DEF Holding
      <4>. QED BY <4>1, <4>2
    <3>. QED BY <1>7, <3>3, <3>4, <3>7, <1>t
             DEF CommitFlush, Database, Observed, WellTyped, TypeOK, LocksHeld, Holding
  <2>. QED BY <1>7, <2>2, <2>3 DEF CommitFlush
<1>8. ASSUME NEW stage \in {"mark", "unmark"}, NEW deleted \in {"recent", "no"},
             SetDeleted(c, stage, deleted)
      PROVE  WellTyped'
  <2>. DEFINE p == req[c].project
  <2>1. p \in Projects
    BY <1>8, <1>t DEF SetDeleted, WellFormed, OfProject, Requests
  <2>2. project' \in [Projects -> Rows]
    BY <1>8, <2>1, <1>t, SetDeletedTypes DEF SetDeleted
  <2>. QED BY <1>8, <2>2, <1>t, EndKeepsTypes DEF SetDeleted, Observed, Holding
<1>9. ASSUME Finish(c) PROVE WellTyped'
  BY <1>9, FinishTypes
<1>. QED BY <1>1, <1>2, <1>3, <1>4, <1>5, <1>6, <1>7, <1>8, <1>9 DEF Handle, Mark, Unmark

LEMMA TypesStep == WellTyped /\ [Next]_vars => WellTyped'
<1>. SUFFICES ASSUME WellTyped, [Next]_vars PROVE WellTyped'
  OBVIOUS
<1>1. ASSUME NEW c \in Clients, Ask(c) PROVE WellTyped'
  BY <1>1, AskTypes
<1>2. ASSUME NEW c \in Clients, Handle(c) PROVE WellTyped'
  BY <1>2, HandleTypes
<1>3. ASSUME NEW c \in Clients, Abort(c) PROVE WellTyped'
  <2>1. /\ project' = project /\ files' = files /\ revisions' = revisions /\ blobs' = blobs
        /\ seen' = seen /\ stamp' = stamp /\ ages' = ages /\ aborts' = aborts + 1
        /\ End(c) /\ lock' = Released(c)
    BY <1>3 DEF Abort, Database
  <2>2. /\ project' \in [Projects -> Rows] /\ files' \in [Projects -> SUBSET Blobs]
        /\ revisions' \in [Projects -> SUBSET Trees] /\ blobs' \subseteq Blobs
        /\ seen' \in [Clients -> [Projects -> [etag : Nat, stamp : Nat]]]
        /\ stamp' \in [Projects -> Nat] /\ ages' \in Nat /\ aborts' \in Nat
    BY <2>1 DEF WellTyped, TypeOK
  <2>. QED BY <2>1, <2>2, EndKeepsTypes
<1>4. ASSUME NEW p \in Projects, Age(p) PROVE WellTyped'
  <2>1. project' = [project EXCEPT ![p].deleted = "old"] /\ ages' = ages + 1
    BY <1>4 DEF Age
  <2>2. project \in [Projects -> Rows] /\ ages \in Nat
    BY DEF WellTyped, TypeOK
  <2>4. [project EXCEPT ![p].deleted = "old"] \in [Projects -> Rows]
    BY <2>2, SetDeletedTypes
  <2>3. project' \in [Projects -> Rows] /\ ages' \in Nat
    BY <2>1, <2>2, <2>4
  <2>. QED BY <1>4, <2>3 DEF Age, WellTyped, TypeOK, WellFormed
<1>5. CASE UNCHANGED vars
  BY <1>5 DEF vars, WellTyped, TypeOK, WellFormed
<1>. QED BY <1>1, <1>2, <1>3, <1>4, <1>5 DEF Next

LEMMA TypesInit == Init => WellTyped
<1>. SUFFICES ASSUME Init PROVE WellTyped
  OBVIOUS
<1>1. req \in [Clients -> Requests] /\ \A c \in Clients : WellFormed(req[c])
  BY IdleTypes DEF Init
<1>2. project \in [Projects -> Rows]
  BY DEF Init, NoRow, Rows
<1>. QED BY <1>1, <1>2 DEF Init, WellTyped, TypeOK

LEMMA Typed == Spec => []WellTyped
  BY TypesInit, TypesStep, PTL DEF Spec

\* TypeOK: every variable keeps its type, and a row in the database is held
\* only by a request that still writes (the transaction of commit_project).
THEOREM TypeCorrect == Spec => []TypeOK
<1>1. WellTyped => TypeOK
  BY DEF WellTyped
<1>. QED BY <1>1, Typed, PTL
-----------------------------------------------------------------------------
(* What a step does to the requests and to the rows *)

OthersWait(c) == \A d \in Clients \ {c} : req'[d] = req[d]
RowsStay ==
  /\ files' = files /\ revisions' = revisions /\ stamp' = stamp
  /\ \A p \in Projects : /\ project'[p].revision = project[p].revision
                          /\ project'[p].size = project[p].size

\* The computer c gets an answer about p, and no other computer does.
Answered(c, p, etag, at) ==
  /\ seen'[c][p].etag = etag /\ seen'[c][p].stamp = at
  /\ \A d \in Clients, q \in Projects : (d # c \/ q # p) => seen'[d][q] = seen[d][q]

\* Request c opens with the row of project p as it is.
OpensWith(c, p) ==
  /\ req'[c].project = p /\ req'[c].row = project[p]
  /\ req'[c].at \in {"tree", "blobs", "mark", "unmark"}
  /\ req'[c].at = "blobs" => /\ stamp[p] < MaxCommits
                             /\ IsRow(project[p]) => Base(c, p) = project[p].revision
  /\ seen' = seen

\* Request c opens about the account: an upload, or a list and its purge.
OpensAlone(c) ==
  /\ req'[c].project = "none"
  /\ req'[c].at \in {"insert", "rows", "used"}
  /\ req'[c].at = "used" => req'[c].purged = {}
  /\ req'[c].purged \subseteq {p \in Projects : project[p].deleted = "old"}
  /\ seen' = seen

\* The project is gone: the computer starts anew.
StartsAnew(c, p) ==
  /\ ~Exists(p)
  /\ Answered(c, p, 0, 0)
  /\ req' = req

LEMMA AskSteps ==
  ASSUME WellTyped, NEW c \in Clients, Ask(c)
  PROVE  /\ MayOpen(c) /\ OthersWait(c) /\ RowsStay
         /\ project' = project /\ blobs' = blobs /\ lock' = lock
         /\ ages' = ages /\ aborts' = aborts
         /\ \/ OpensAlone(c)
            \/ \E p \in Projects : OpensWith(c, p) \/ StartsAnew(c, p)
<1>t. /\ req \in [Clients -> Requests]
      /\ seen \in [Clients -> [Projects -> [etag : Nat, stamp : Nat]]]
  BY DEF WellTyped, TypeOK
<1>. DEFINE Goal == /\ MayOpen(c) /\ OthersWait(c) /\ RowsStay
                    /\ project' = project /\ blobs' = blobs /\ lock' = lock
                    /\ ages' = ages /\ aborts' = aborts
                    /\ \/ OpensAlone(c)
                       \/ \E p \in Projects : OpensWith(c, p) \/ StartsAnew(c, p)
<1>1. ASSUME NEW p \in Projects,
             GetProject(c, p) \/ CommitConflict(c, p) \/ DeleteConflict(c, p)
      PROVE  Goal
  <2>1. /\ MayOpen(c) /\ UNCHANGED <<Database, lock, Observed>>
        /\ GoOn(c, [Idle EXCEPT !.at = "tree", !.project = p, !.row = project[p]])
    BY <1>1 DEF GetProject, CommitConflict, DeleteConflict, AskTree
  <2>2. OthersWait(c) /\ OpensWith(c, p)
    BY <2>1, <1>t DEF GoOn, OthersWait, OpensWith, Idle, Observed
  <2>. QED BY <2>1, <2>2 DEF RowsStay, Database, Observed
<1>2. ASSUME NEW p \in Projects, NotFound(c, p) PROVE Goal
  <2>1. seen' = [seen EXCEPT ![c][p] = [etag |-> 0, stamp |-> 0]]
    BY <1>2 DEF NotFound
  <2>2. Answered(c, p, 0, 0)
    BY <2>1, <1>t DEF Answered
  <2>. QED BY <1>2, <2>2 DEF NotFound, OthersWait, StartsAnew, RowsStay, Database
<1>3. ASSUME NEW p \in Projects, DeleteProject(c, p) PROVE Goal
  <2>1. OthersWait(c) /\ OpensWith(c, p)
    BY <1>3, <1>t DEF DeleteProject, GoOn, OthersWait, OpensWith, Idle, Observed
  <2>. QED BY <1>3, <2>1 DEF DeleteProject, RowsStay, Database, Observed
<1>4. ASSUME NEW p \in Projects, RestoreProject(c, p) PROVE Goal
  <2>1. /\ MayOpen(c) /\ UNCHANGED <<Database, lock, Observed>>
        /\ GoOn(c, [Idle EXCEPT !.at = "unmark", !.project = p, !.row = project[p]])
    BY <1>4 DEF RestoreProject, MayOpen
  <2>2. OthersWait(c) /\ OpensWith(c, p)
    BY <2>1, <1>t DEF GoOn, OthersWait, OpensWith, Idle, Observed
  <2>. QED BY <2>1, <2>2 DEF RowsStay, Database, Observed
<1>5. ASSUME NEW p \in Projects, NEW tree \in SUBSET Blobs, Commit(c, p, tree) PROVE Goal
  <2>1. OthersWait(c) /\ OpensWith(c, p)
    BY <1>5, <1>t DEF Commit, GoOn, OthersWait, OpensWith, Idle, Observed, IsConflict
  <2>. QED BY <1>5, <2>1 DEF Commit, RowsStay, Database, Observed
<1>6. ASSUME NEW contents \in SUBSET Blobs \ {{}}, Upload(c, contents) PROVE Goal
  <2>1. OthersWait(c) /\ OpensAlone(c)
    BY <1>6, <1>t DEF Upload, GoOn, OthersWait, OpensAlone, Idle, Observed
  <2>. QED BY <1>6, <2>1 DEF Upload, RowsStay, Database, Observed
<1>7. ASSUME ListProjects(c) PROVE Goal
  <2>1. OthersWait(c) /\ OpensAlone(c)
    BY <1>7, <1>t DEF ListProjects, GoOn, OthersWait, OpensAlone, Idle, Observed
  <2>. QED BY <1>7, <2>1 DEF ListProjects, RowsStay, Database, Observed
<1>. QED BY <1>1, <1>2, <1>3, <1>4, <1>5, <1>6, <1>7 DEF Ask

\* Request c goes on with what it read, or is over.
SameRequest(r, q) ==
  /\ r.project = q.project /\ r.tree = q.tree /\ r.row = q.row /\ r.purged = q.purged

StageBefore ==
  [quota |-> {"blobs"}, flush |-> {"quota"}, used |-> {"flush", "rows"},
   drop |-> {"used"}, commit |-> {"drop"}]
GoesOn(c) ==
  /\ SameRequest(req'[c], req[c])
  /\ req'[c].at \in DOMAIN StageBefore /\ req[c].at \in StageBefore[req'[c].at]

\* The tree reaches the computer.
TreeArrives(c) ==
  /\ req[c].at = "tree" /\ req[c].project \in Projects
  /\ Answered(c, req[c].project, req[c].row.revision, stamp[req[c].project])

LEMMA HandleSteps ==
  ASSUME WellTyped, NEW c \in Clients, Handle(c), ~Finish(c)
  PROVE  /\ OthersWait(c) /\ RowsStay /\ ages' = ages /\ aborts' = aborts
         /\ \/ GoesOn(c) /\ seen' = seen
            \/ req'[c] = Idle /\ seen' = seen
            \/ req'[c] = Idle /\ TreeArrives(c)
<1>t. /\ req \in [Clients -> Requests] /\ req[c] \in Requests /\ WellFormed(req[c])
      /\ project \in [Projects -> Rows]
      /\ seen \in [Clients -> [Projects -> [etag : Nat, stamp : Nat]]]
  BY DEF WellTyped, TypeOK
<1>. DEFINE Goal == /\ OthersWait(c) /\ RowsStay /\ ages' = ages /\ aborts' = aborts
                    /\ \/ GoesOn(c) /\ seen' = seen
                       \/ req'[c] = Idle /\ seen' = seen
                       \/ req'[c] = Idle /\ TreeArrives(c)
<1>1. CASE Tree(c)
  <2>1. OthersWait(c) /\ req'[c] = Idle
    BY <1>1, <1>t DEF Tree, End, OthersWait
  <2>2. req[c].project \in Projects
    BY <1>1, <1>t DEF Tree, WellFormed, OfProject, Requests
  <2>3. seen' = [seen EXCEPT ![c][req[c].project] =
                   [etag |-> req[c].row.revision, stamp |-> stamp[req[c].project]]]
    BY <1>1 DEF Tree
  <2>4. Answered(c, req[c].project, req[c].row.revision, stamp[req[c].project])
    BY <2>2, <2>3, <1>t DEF Answered
  <2>. QED BY <1>1, <2>1, <2>2, <2>4 DEF Tree, RowsStay, TreeArrives, Database
<1>2. CASE Insert(c)
  <2>1. OthersWait(c) /\ req'[c] = Idle
    BY <1>2, <1>t DEF Insert, End, OthersWait
  <2>. QED BY <1>2, <2>1 DEF Insert, RowsStay, Observed
<1>3. CASE CommitBlobs(c) \/ CommitQuota(c) \/ CommitFlush(c)
  <2>1. OthersWait(c)
    BY <1>3, <1>t DEF CommitBlobs, CommitQuota, CommitFlush, Goto, End, OthersWait
  <2>2. req'[c] = Idle \/ GoesOn(c)
    BY <1>3, <1>t DEF CommitBlobs, CommitQuota, CommitFlush, Goto, End, GoesOn, SameRequest,
                      StageBefore, Requests
  <2>. QED BY <1>3, <2>1, <2>2
           DEF CommitBlobs, CommitQuota, CommitFlush, RowsStay, Observed, Database
<1>4. CASE Used(c) \/ Drop(c) \/ PurgeRows(c)
  <2>1. OthersWait(c)
    BY <1>4, <1>t DEF Used, Drop, PurgeRows, GoOn, OthersWait
  <2>2. ASSUME Used(c) PROVE GoesOn(c)
    <3>. DEFINE used == InUse(FilesAfter(c), RevisionsAfter(c))
    <3>1. req[c].at = "used" /\ req'[c] = [req[c] EXCEPT !.used = used, !.at = "drop"]
      BY <2>2, <1>t DEF Used, GoOn
    <3>. HIDE DEF used
    <3>. QED BY <3>1, <1>t DEF GoesOn, SameRequest, StageBefore, Requests
  <2>3. ASSUME Drop(c) PROVE GoesOn(c)
    <3>. DEFINE dropped == blobs \ req[c].used
    <3>1. /\ req[c].at = "drop"
          /\ req'[c] = [req[c] EXCEPT !.dropped = dropped, !.used = {}, !.at = "commit"]
      BY <2>3, <1>t DEF Drop, GoOn
    <3>. HIDE DEF dropped
    <3>. QED BY <3>1, <1>t DEF GoesOn, SameRequest, StageBefore, Requests
  <2>4. ASSUME PurgeRows(c) PROVE GoesOn(c)
    <3>. DEFINE fs == GoneFiles(req[c].purged)
                rs == GoneRevisions(req[c].purged)
    <3>1. /\ req[c].at = "rows"
          /\ req'[c] = [req[c] EXCEPT !.goneFiles = fs, !.goneRevisions = rs, !.at = "used"]
      BY <2>4, <1>t DEF PurgeRows, GoOn
    <3>. HIDE DEF fs, rs
    <3>. QED BY <3>1, <1>t DEF GoesOn, SameRequest, StageBefore, Requests
  <2>. QED BY <1>4, <2>1, <2>2, <2>3, <2>4 DEF Used, Drop, PurgeRows, RowsStay, Observed, Database
<1>5. ASSUME NEW stage \in {"mark", "unmark"}, NEW deleted \in {"recent", "no"},
             SetDeleted(c, stage, deleted)
      PROVE  Goal
  <2>1. OthersWait(c) /\ req'[c] = Idle
    BY <1>5, <1>t DEF SetDeleted, End, OthersWait
  <2>2. req[c].project \in Projects
    BY <1>5, <1>t DEF SetDeleted, WellFormed, OfProject, Requests
  <2>3. \A p \in Projects : /\ project'[p].revision = project[p].revision
                            /\ project'[p].size = project[p].size
    BY <1>5, <2>2, <1>t, SetDeletedTypes DEF SetDeleted
  <2>. QED BY <1>5, <2>1, <2>3 DEF SetDeleted, RowsStay, Observed
<1>. QED BY <1>1, <1>2, <1>3, <1>4, <1>5 DEF Handle, Mark, Unmark

LEMMA AbortSteps ==
  ASSUME WellTyped, NEW c \in Clients, Abort(c)
  PROVE  OthersWait(c) /\ RowsStay /\ req'[c] = Idle /\ UNCHANGED <<Database, seen, ages>>
<1>1. OthersWait(c) /\ req'[c] = Idle
  BY DEF Abort, End, OthersWait, WellTyped, TypeOK
<1>. QED BY <1>1 DEF Abort, RowsStay, Database

LEMMA AgeSteps ==
  ASSUME WellTyped, NEW p \in Projects, Age(p)
  PROVE  RowsStay /\ UNCHANGED <<req, seen, blobs, lock>>
<1>1. /\ project' = [project EXCEPT ![p].deleted = "old"]
      /\ project \in [Projects -> Rows]
  BY DEF Age, WellTyped, TypeOK
<1>2. \A q \in Projects : /\ project'[q].revision = project[q].revision
                           /\ project'[q].size = project[q].size
  BY <1>1, SetDeletedTypes
<1>. QED BY <1>2 DEF Age, RowsStay

\* What a commit of the database does.
LEMMA FinishSteps ==
  ASSUME WellTyped, NEW c \in Clients, Finish(c)
  PROVE  /\ req[c].at = "commit" /\ req'[c] = Idle
         /\ \A d \in Clients \ {c} :
              /\ req'[d] = [req[d] EXCEPT !.dropped = @ \ req[c].dropped]
              /\ SameRequest(req'[d], req[d]) /\ req'[d].at = req[d].at
              /\ req'[d].used = req[d].used /\ req'[d].dropped = req[d].dropped \ req[c].dropped
              /\ req'[d].goneFiles = req[d].goneFiles
              /\ req'[d].goneRevisions = req[d].goneRevisions
         /\ \A p \in Projects :
              /\ p # req[c].project => stamp'[p] = stamp[p]
              /\ p = req[c].project => /\ stamp'[p] = stamp[p] + 1
                                       /\ project'[p].revision = req[c].row.revision + 1
              /\ p \in req[c].purged => project'[p] = NoRow
              /\ (p # req[c].project /\ p \notin req[c].purged) => project'[p] = project[p]
         /\ \A d \in Clients, p \in Projects :
              (d # c \/ p # req[c].project) => seen'[d][p] = seen[d][p]
         /\ \A p \in Projects : p = req[c].project =>
              \/ seen'[c][p] = seen[c][p]
              \/ /\ seen'[c][p].etag = req[c].row.revision + 1
                 /\ seen'[c][p].stamp = stamp[p] + 1
<1>t. /\ req \in [Clients -> Requests] /\ req[c] \in Requests /\ WellFormed(req[c])
      /\ seen \in [Clients -> [Projects -> [etag : Nat, stamp : Nat]]]
      /\ stamp \in [Projects -> Nat]
  BY DEF WellTyped, TypeOK
<1>1. req[c].at = "commit" /\ req'[c] = Idle
  BY DEF Finish
<1>2. ASSUME NEW d \in Clients \ {c}
      PROVE  /\ req'[d] = [req[d] EXCEPT !.dropped = @ \ req[c].dropped]
             /\ SameRequest(req'[d], req[d]) /\ req'[d].at = req[d].at
             /\ req'[d].used = req[d].used /\ req'[d].dropped = req[d].dropped \ req[c].dropped
             /\ req'[d].goneFiles = req[d].goneFiles
             /\ req'[d].goneRevisions = req[d].goneRevisions
  <2>1. req'[d] = [req[d] EXCEPT !.dropped = @ \ req[c].dropped] /\ req[d] \in Requests
    BY <1>t DEF Finish
  <2>. QED BY <2>1 DEF Requests, SameRequest
<1>3. ASSUME NEW p \in Projects
      PROVE  /\ p = req[c].project => project'[p].revision = req[c].row.revision + 1
             /\ p \in req[c].purged => project'[p] = NoRow
             /\ (p # req[c].project /\ p \notin req[c].purged) => project'[p] = project[p]
  <2>1. project'[p] = RowAfter(c)[p]
    BY DEF Finish
  <2>2. p = req[c].project => p \notin req[c].purged
    BY <1>t DEF WellFormed
  <2>. QED BY <2>1, <2>2 DEF RowAfter, NextRevision
<1>4. CASE IsCommit(c)
  <2>. DEFINE p == req[c].project
              answer == [etag |-> NextRevision(c), stamp |-> stamp[p] + 1]
  <2>1. p \in Projects
    BY <1>4, <1>t DEF IsCommit, Requests
  <2>2. /\ stamp' = [stamp EXCEPT ![p] = @ + 1]
        /\ seen' \in {seen, [seen EXCEPT ![c][p] = answer]}
    BY <1>4 DEF Finish
  <2>3. answer.etag = req[c].row.revision + 1 /\ answer.stamp = stamp[p] + 1
    BY DEF NextRevision
  <2>. HIDE DEF answer
  <2>4. \A q \in Projects : stamp'[q] = IF q = p THEN stamp[q] + 1 ELSE stamp[q]
    BY <2>1, <2>2, <1>t
  <2>5. \A d \in Clients, q \in Projects :
          (d # c \/ q # p) => seen'[d][q] = seen[d][q]
    BY <2>1, <2>2, <1>t
  <2>6. seen'[c][p] \in {seen[c][p], answer}
    BY <2>1, <2>2, <1>t
  <2>. QED BY <1>1, <1>2, <1>3, <2>1, <2>3, <2>4, <2>5, <2>6
<1>5. CASE ~IsCommit(c)
  <2>1. stamp' = stamp /\ seen' = seen
    BY <1>5 DEF Finish
  <2>2. \A p \in Projects : p # req[c].project
    BY <1>5, NamesAssumption DEF IsCommit
  <2>. QED BY <1>1, <1>2, <1>3, <2>1, <2>2
<1>. QED BY <1>4, <1>5

-----------------------------------------------------------------------------
(* An ETag never names a later revision than the tree it came with *)

Behind ==
  /\ \A p \in Projects : project[p].revision <= stamp[p]
  /\ \A c \in Clients, p \in Projects :
       req[c].project = p => req[c].row.revision <= stamp[p]
  /\ EtagIsNotNewer

\* What is left to show of a step: that revisions stay behind the counts, that a
\* request keeps its row or reads the present one, that an answer is in order.
LEMMA BehindMoves ==
  ASSUME WellTyped, WellTyped', Behind,
         \A p \in Projects : project'[p].revision <= stamp'[p] /\ stamp[p] <= stamp'[p],
         \A d \in Clients, p \in Projects : req'[d].project = p =>
           \/ req[d].project = p /\ req'[d].row = req[d].row
           \/ req'[d].row = project[p],
         \A d \in Clients, p \in Projects :
           seen'[d][p] = seen[d][p] \/ seen'[d][p].etag <= seen'[d][p].stamp
  PROVE  Behind'
<1>t. /\ \A p \in Projects : project[p].revision \in Nat /\ stamp[p] \in Nat /\ stamp'[p] \in Nat
      /\ \A c \in Clients : req[c].row.revision \in Nat
  BY DEF WellTyped, TypeOK, Rows, Requests
<1>1. \A d \in Clients, p \in Projects :
        req'[d].project = p => req'[d].row.revision <= stamp'[p]
  BY <1>t DEF Behind
<1>2. EtagIsNotNewer'
  BY DEF Behind, EtagIsNotNewer
<1>. QED BY <1>1, <1>2 DEF Behind

LEMMA BehindStep == WellTyped /\ WellTyped' /\ Behind /\ [Next]_vars => Behind'
<1>. SUFFICES ASSUME WellTyped, WellTyped', Behind, [Next]_vars PROVE Behind'
  OBVIOUS
<1>. DEFINE Rises == \A p \in Projects : project'[p].revision <= stamp'[p] /\ stamp[p] <= stamp'[p]
            Reads == \A d \in Clients, p \in Projects : req'[d].project = p =>
                       \/ req[d].project = p /\ req'[d].row = req[d].row
                       \/ req'[d].row = project[p]
            InOrder == \A d \in Clients, p \in Projects :
                         seen'[d][p] = seen[d][p] \/ seen'[d][p].etag <= seen'[d][p].stamp
<1>t. \A p \in Projects : project[p].revision \in Nat /\ stamp[p] \in Nat
  BY DEF WellTyped, TypeOK, Rows
<1>r. RowsStay => Rises
  BY <1>t DEF RowsStay, Behind
<1>i. \A p \in Projects : Idle.project # p
  BY NamesAssumption DEF Idle
<1>1. ASSUME NEW c \in Clients, Ask(c) PROVE Behind'
  <2>1. /\ OthersWait(c) /\ RowsStay
        /\ OpensAlone(c) \/ \E p \in Projects : OpensWith(c, p) \/ StartsAnew(c, p)
    BY <1>1, AskSteps
  <2>2. Reads
    BY <2>1, NamesAssumption DEF OthersWait, OpensAlone, OpensWith, StartsAnew
  <2>3. InOrder
    BY <2>1 DEF OpensAlone, OpensWith, StartsAnew, Answered
  <2>. QED BY <2>1, <2>2, <2>3, <1>r, BehindMoves
<1>2. ASSUME NEW c \in Clients, Handle(c), ~Finish(c) PROVE Behind'
  <2>1. /\ OthersWait(c) /\ RowsStay
        /\ \/ GoesOn(c) /\ seen' = seen
           \/ req'[c] = Idle /\ seen' = seen
           \/ req'[c] = Idle /\ TreeArrives(c)
    BY <1>2, HandleSteps
  <2>2. Reads
    BY <2>1, <1>i DEF OthersWait, GoesOn, SameRequest
  <2>3. InOrder
    BY <2>1 DEF TreeArrives, Answered, Behind
  <2>. QED BY <2>1, <2>2, <2>3, <1>r, BehindMoves
<1>3. ASSUME NEW c \in Clients, Finish(c) PROVE Behind'
  <2>0. req[c].row.revision \in Nat
    BY DEF WellTyped, TypeOK, Requests, Rows
  <2>4. \A p \in Projects : p = req[c].project => req[c].row.revision <= stamp[p]
    BY DEF Behind
  <2>1. Rises
    <3>. SUFFICES ASSUME NEW p \in Projects
                  PROVE  project'[p].revision <= stamp'[p] /\ stamp[p] <= stamp'[p]
      OBVIOUS
    <3>1. /\ p # req[c].project => stamp'[p] = stamp[p]
          /\ p = req[c].project => /\ stamp'[p] = stamp[p] + 1
                                   /\ project'[p].revision = req[c].row.revision + 1
          /\ p \in req[c].purged => project'[p] = NoRow
          /\ (p # req[c].project /\ p \notin req[c].purged) => project'[p] = project[p]
      BY <1>3, FinishSteps
    <3>2. NoRow.revision = 0 /\ project[p].revision <= stamp[p]
      BY DEF NoRow, Behind
    <3>. QED BY <3>1, <3>2, <2>0, <2>4, <1>t
  <2>2. req'[c] = Idle /\ \A d \in Clients \ {c} : SameRequest(req'[d], req[d])
    BY <1>3, FinishSteps
  <2>3. Reads
    BY <2>2, <1>i DEF SameRequest
  <2>5. InOrder
    <3>. SUFFICES ASSUME NEW d \in Clients, NEW p \in Projects
                  PROVE  seen'[d][p] = seen[d][p] \/ seen'[d][p].etag <= seen'[d][p].stamp
      OBVIOUS
    <3>1. (d # c \/ p # req[c].project) => seen'[d][p] = seen[d][p]
      BY <1>3, FinishSteps
    <3>2. p = req[c].project =>
            \/ seen'[c][p] = seen[c][p]
            \/ /\ seen'[c][p].etag = req[c].row.revision + 1
               /\ seen'[c][p].stamp = stamp[p] + 1
      BY <1>3, FinishSteps
    <3>. QED BY <3>1, <3>2, <2>0, <2>4, <1>t
  <2>. QED BY <2>1, <2>3, <2>5, BehindMoves
<1>4. ASSUME NEW c \in Clients, Abort(c) PROVE Behind'
  <2>1. OthersWait(c) /\ RowsStay /\ req'[c] = Idle /\ seen' = seen
    BY <1>4, AbortSteps
  <2>. QED BY <2>1, <1>r, <1>i, BehindMoves DEF OthersWait
<1>5. ASSUME NEW p \in Projects, Age(p) PROVE Behind'
  <2>1. RowsStay /\ req' = req /\ seen' = seen
    BY <1>5, AgeSteps
  <2>. QED BY <2>1, <1>r, BehindMoves
<1>6. CASE UNCHANGED vars
  BY <1>6 DEF vars, Behind, EtagIsNotNewer
<1>. QED BY <1>1, <1>2, <1>3, <1>4, <1>5, <1>6 DEF Next

\* EtagIsNotNewer, whatever is purged, overtaken or aborted in between.
\* get_project and commit_project answer with an ETag that is no newer than the
\* tree, so that a computer that has an older tree is told so.
THEOREM EtagsAreNotNewer == Spec => []EtagIsNotNewer
<1>1. Init => Behind
  BY NamesAssumption DEF Init, Behind, EtagIsNotNewer, NoRow, Idle
<1>2. Behind => EtagIsNotNewer
  BY DEF Behind
<1>. QED BY <1>1, <1>2, BehindStep, Typed, PTL DEF Spec
-----------------------------------------------------------------------------
(* Commits at the same time *)

\* What the database leaves to chance: a project that is purged starts its
\* revisions anew, and a commit whose row was read Keep commits ago finds no
\* revision in its way.
NothingPurged == \A p \in Projects : project[p].deleted # "old"
NotOvertaken ==
  \A c \in Clients, p \in Projects :
    (req[c].at = "flush" /\ req[c].project = p /\ IsRow(req[c].row))
      => project[p].revision <= req[c].row.revision + Keep

Last(n) == {m \in 1 .. n : m > n - Keep}

\* The kept revisions are the last ones, and the newest has the present tree.
KeepsLast(p) ==
  LET n == project[p].revision IN
    /\ \A r \in revisions[p] : r.revision \in Last(n)
    /\ \A m \in Last(n) : \E r \in revisions[p] : r.revision = m
    /\ Exists(p) => [revision |-> n, files |-> files[p]] \in revisions[p]

\* A commit that has written holds the row, and nobody committed since it was read.
Holds(c, p) == req[c].project = p /\ req[c].at \in Holding
HolderIsUpToDate ==
  \A c \in Clients, p \in Projects :
    /\ Holds(c, p) => lock[p] = c /\ req[c].row.revision = project[p].revision
    /\ lock[p] = c => req[c].project = p

\* A commit is about the revision its computer was told of.
Commits(c, p) == req[c].project = p /\ req[c].at \in {"blobs", "quota", "flush"} \cup Holding
CommitterHasSeen ==
  \A c \in Clients, p \in Projects :
    /\ seen[c][p].stamp <= stamp[p]
    /\ (Commits(c, p) /\ IsRow(req[c].row)) => Base(c, p) = req[c].row.revision

RevisionsGoUp ==
  /\ \A p \in Projects : project[p].revision = stamp[p]
  /\ \A c \in Clients : req[c].purged = {}

InStep ==
  /\ RevisionsGoUp
  /\ \A p \in Projects : KeepsLast(p)
  /\ HolderIsUpToDate
  /\ CommitterHasSeen

LEMMA InStepInit == Init => InStep
  BY NamesAssumption
  DEF Init, InStep, RevisionsGoUp, KeepsLast, HolderIsUpToDate, CommitterHasSeen, Holds,
      Commits, NoRow, Idle, Last, Exists, IsRow, Holding

\* A new revision pushes out the one that is Keep before it.
LEMMA NewRevision ==
  ASSUME WellTyped, InStep, NEW c \in Clients, NEW p \in Projects, Holds(c, p), Finish(c)
  PROVE  KeepsLast(p)'
<1>. DEFINE n == project[p].revision
            new == [revision |-> n + 1, files |-> req[c].tree]
<1>1. req[c].project = p /\ req[c].row.revision = n /\ n \in Nat
  BY DEF InStep, HolderIsUpToDate, Holds, WellTyped, TypeOK, Rows
<1>2. project'[p].revision = n + 1
  BY <1>1, FinishSteps
<1>3. files'[p] = req[c].tree
  BY <1>1 DEF Finish, FilesAfter
<1>4. NextRevision(c) = n + 1
  BY <1>1 DEF NextRevision
<1>5. revisions'[p] = (revisions[p] \ {r \in revisions[p] : r.revision <= n + 1 - Keep}) \cup {new}
  BY <1>1, <1>4 DEF Finish, RevisionsAfter, OutOfKept, LastGone
<1>6. /\ \A r \in revisions[p] : r.revision \in Last(n)
      /\ \A m \in Last(n) : \E r \in revisions[p] : r.revision = m
  BY DEF InStep, KeepsLast
<1>7. new.revision = n + 1
  OBVIOUS
<1>. HIDE DEF n, new
<1>8. \A r \in revisions'[p] : r.revision \in Last(n + 1)
  BY <1>1, <1>5, <1>6, <1>7 DEF Last
<1>9. \A m \in Last(n + 1) : \E r \in revisions'[p] : r.revision = m
  <2>. TAKE m \in Last(n + 1)
  <2>1. CASE m = n + 1
    BY <2>1, <1>5, <1>7
  <2>2. CASE m # n + 1
    <3>1. m \in Last(n) /\ m > n + 1 - Keep /\ m \in Int
      BY <2>2, <1>1 DEF Last
    <3>2. PICK r \in revisions[p] : r.revision = m
      BY <3>1, <1>6
    <3>3. r \in revisions'[p]
      BY <3>1, <3>2, <1>1, <1>5
    <3>. QED BY <3>2, <3>3
  <2>. QED BY <2>1, <2>2
<1>10. [revision |-> n + 1, files |-> files'[p]] \in revisions'[p]
  BY <1>3, <1>5 DEF new
<1>. QED BY <1>2, <1>8, <1>9, <1>10 DEF KeepsLast

\* A project that nothing is written of keeps its revisions.
LEMMA OldRevisions ==
  ASSUME InStep, NEW p \in Projects, files'[p] = files[p], revisions'[p] = revisions[p],
         project'[p].revision = project[p].revision
  PROVE  KeepsLast(p)'
  BY DEF InStep, KeepsLast, Exists, IsRow

\* Request c writes, and from now on holds the row of its project.
TakesRow(c) ==
  /\ req[c].at = "flush" /\ req'[c].at = "used" /\ req[c].project \in Projects
  /\ Unlocked(req[c].project) /\ ~KeysRefuse(req[c].project, req[c].row)
  /\ \A p \in Projects : lock'[p] = IF p = req[c].project THEN c ELSE lock[p]

LEMMA LockSteps ==
  ASSUME WellTyped, NEW c \in Clients, Handle(c), ~Finish(c)
  PROVE  \/ lock' = lock /\ req[c].at # "flush" /\ (req'[c] = Idle => req[c].at \notin Holding)
         \/ lock' = lock /\ req[c].at = "flush" /\ req'[c] = Idle
         \/ TakesRow(c)
<1>t. /\ req \in [Clients -> Requests] /\ req[c] \in Requests /\ WellFormed(req[c])
      /\ lock \in [Projects -> Clients \cup {"none"}]
  BY DEF WellTyped, TypeOK
<1>1. CASE Tree(c) \/ Insert(c) \/ CommitBlobs(c) \/ CommitQuota(c) \/ PurgeRows(c)
           \/ Mark(c) \/ Unmark(c)
  BY <1>1 DEF Tree, Insert, CommitBlobs, CommitQuota, PurgeRows, Mark, Unmark, SetDeleted, Holding
<1>2. CASE Used(c)
  <2>1. GoesOn(c) \/ req'[c] = Idle
    BY HandleSteps
  <2>2. lock' = lock /\ req[c].at = "used"
    BY <1>2 DEF Used
  <2>3. req'[c].at = "drop"
    <3>. DEFINE used == InUse(FilesAfter(c), RevisionsAfter(c))
    <3>1. req'[c] = [req[c] EXCEPT !.used = used, !.at = "drop"]
      BY <1>2, <1>t DEF Used, GoOn
    <3>. HIDE DEF used
    <3>. QED BY <3>1, <1>t DEF Requests
  <2>. QED BY <2>2, <2>3 DEF Idle
<1>3. CASE Drop(c)
  <2>1. lock' = lock /\ req[c].at = "drop"
    BY <1>3 DEF Drop
  <2>2. req'[c].at = "commit"
    <3>. DEFINE dropped == blobs \ req[c].used
    <3>1. req'[c] = [req[c] EXCEPT !.dropped = dropped, !.used = {}, !.at = "commit"]
      BY <1>3, <1>t DEF Drop, GoOn
    <3>. HIDE DEF dropped
    <3>. QED BY <3>1, <1>t DEF Requests
  <2>. QED BY <2>1, <2>2 DEF Idle
<1>4. CASE CommitFlush(c)
  <2>1. req[c].at = "flush" /\ req[c].project \in Projects
    BY <1>4, <1>t DEF CommitFlush, WellFormed, OfProject, Requests
  <2>2. CASE KeysRefuse(req[c].project, req[c].row)
    BY <1>4, <2>1, <2>2, <1>t DEF CommitFlush, End
  <2>3. CASE ~KeysRefuse(req[c].project, req[c].row)
    <3>1. /\ req' = [req EXCEPT ![c].at = "used"]
          /\ lock' = [lock EXCEPT ![req[c].project] = c]
          /\ Unlocked(req[c].project)
      BY <1>4, <2>3 DEF CommitFlush, Goto
    <3>2. req'[c].at = "used"
      BY <3>1, <1>t DEF Requests
    <3>. QED BY <2>1, <2>3, <3>1, <3>2, <1>t DEF TakesRow
  <2>. QED BY <2>2, <2>3
<1>. QED BY <1>1, <1>2, <1>3, <1>4 DEF Handle

\* The keys let a commit write only if nobody committed since its row was read.
LEMMA KeysShowProgress ==
  ASSUME WellTyped, Behind, InStep, NotOvertaken, NEW c \in Clients, NEW p \in Projects,
         req[c].at = "flush", req[c].project = p, ~KeysRefuse(p, req[c].row)
  PROVE  req[c].row.revision = project[p].revision
<1>. DEFINE n == project[p].revision
            m == req[c].row.revision
<1>1. n \in Nat /\ m \in Nat /\ m <= n
  <2>1. n \in Nat /\ m \in Nat
    BY DEF WellTyped, TypeOK, Rows, Requests
  <2>2. m <= stamp[p] /\ n = stamp[p]
    BY DEF Behind, InStep, RevisionsGoUp
  <2>. QED BY <2>1, <2>2
<1>2. m > 0 <=> n > 0
  BY <1>1 DEF KeysRefuse, Exists, IsRow
<1>3. CASE n = 0
  BY <1>1, <1>2, <1>3
<1>4. CASE n > 0
  <2>1. n <= m + Keep
    BY <1>2, <1>4 DEF NotOvertaken, IsRow
  <2>2. m + 1 \notin Last(n)
    <3>1. \A r \in revisions[p] : r.revision # m + 1
      BY DEF KeysRefuse
    <3>2. \A k \in Last(n) : \E r \in revisions[p] : r.revision = k
      BY DEF InStep, KeepsLast
    <3>. HIDE DEF n, m
    <3>. QED BY <3>1, <3>2
  <2>. QED BY <1>1, <1>2, <1>4, <2>1, <2>2, SizesAssumption DEF Last
<1>. QED BY <1>1, <1>3, <1>4

LEMMA InStepFinish ==
  ASSUME WellTyped, WellTyped', Behind, InStep, NEW c \in Clients, Finish(c)
  PROVE  InStep'
<1>t. /\ req \in [Clients -> Requests] /\ req[c] \in Requests /\ WellFormed(req[c])
      /\ lock \in [Projects -> Clients \cup {"none"}]
      /\ \A p \in Projects : project[p].revision \in Nat /\ stamp[p] \in Nat
      /\ \A d \in Clients, p \in Projects : seen[d][p].stamp \in Nat
  BY DEF WellTyped, TypeOK, Rows
<1>p. req[c].purged = {}
  BY DEF InStep, RevisionsGoUp
<1>h. \A p \in Projects : p = req[c].project =>
        lock[p] = c /\ req[c].row.revision = project[p].revision /\ Holds(c, p)
  BY FinishSteps DEF InStep, HolderIsUpToDate, Holds, Holding
<1>o. \A p \in Projects : p # req[c].project =>
        project'[p] = project[p] /\ stamp'[p] = stamp[p]
  BY <1>p, FinishSteps
<1>d. /\ req'[c] = Idle
      /\ \A d \in Clients \ {c} : SameRequest(req'[d], req[d]) /\ req'[d].at = req[d].at
      /\ \A d \in Clients \ {c}, p \in Projects : seen'[d][p] = seen[d][p]
  <2>1. req'[c] = Idle
    BY FinishSteps
  <2>2. \A d \in Clients \ {c} : SameRequest(req'[d], req[d]) /\ req'[d].at = req[d].at
    BY FinishSteps
  <2>3. \A d \in Clients \ {c}, p \in Projects : seen'[d][p] = seen[d][p]
    BY FinishSteps
  <2>. QED BY <2>1, <2>2, <2>3
<1>i. Idle.project = "none" /\ Idle.purged = {}
  BY DEF Idle
<1>1. RevisionsGoUp'
  <2>1. \A p \in Projects : project'[p].revision = stamp'[p]
    BY <1>h, <1>o, FinishSteps DEF InStep, RevisionsGoUp
  <2>2. \A d \in Clients : req'[d].purged = {}
    BY <1>d, <1>i DEF InStep, RevisionsGoUp, SameRequest
  <2>. QED BY <2>1, <2>2 DEF RevisionsGoUp
<1>2. ASSUME NEW p \in Projects PROVE KeepsLast(p)'
  <2>1. CASE p = req[c].project
    BY <2>1, <1>h, NewRevision
  <2>2. CASE p # req[c].project
    <3>1. req[c].goneFiles[p] = {} /\ req[c].goneRevisions[p] = {}
      BY <1>t, <1>p DEF WellFormed
    <3>2. files'[p] = files[p] /\ revisions'[p] = revisions[p]
      BY <2>2, <3>1 DEF Finish, FilesAfter, RevisionsAfter
    <3>. QED BY <2>2, <3>2, <1>o, OldRevisions
  <2>. QED BY <2>1, <2>2
<1>l. \A p \in Projects : lock'[p] = IF lock[p] = c THEN "none" ELSE lock[p]
  BY DEF Finish, Released
<1>3. HolderIsUpToDate'
  <2>1. ASSUME NEW d \in Clients, NEW p \in Projects, Holds(d, p)'
        PROVE  lock'[p] = d /\ req'[d].row.revision = project'[p].revision
    <3>1. d # c
      BY <2>1, <1>i, <1>d, NamesAssumption DEF Holds
    <3>2. Holds(d, p) /\ req'[d].row = req[d].row
      BY <2>1, <3>1, <1>d DEF Holds, SameRequest
    <3>3. lock[p] = d /\ req[d].row.revision = project[p].revision
      BY <3>2 DEF InStep, HolderIsUpToDate
    <3>4. p # req[c].project
      BY <3>1, <3>3, <1>h
    <3>. QED BY <3>1, <3>2, <3>3, <3>4, <1>l, <1>o
  <2>2. ASSUME NEW d \in Clients, NEW p \in Projects, lock'[p] = d
        PROVE  req'[d].project = p
    <3>1. d # c /\ lock[p] = d
      BY <2>2, <1>l, NamesAssumption
    <3>. QED BY <3>1, <1>d DEF InStep, HolderIsUpToDate, SameRequest
  <2>. QED BY <2>1, <2>2 DEF HolderIsUpToDate
<1>4. CommitterHasSeen'
  <2>1. ASSUME NEW d \in Clients, NEW p \in Projects
        PROVE  seen'[d][p].stamp <= stamp'[p]
    BY <1>t, FinishSteps DEF InStep, CommitterHasSeen
  <2>2. ASSUME NEW d \in Clients, NEW p \in Projects, Commits(d, p)', IsRow(req'[d].row)
        PROVE  seen'[d][p].etag = req'[d].row.revision
    <3>1. d # c
      BY <2>2, <1>i, <1>d, NamesAssumption DEF Commits
    <3>2. Commits(d, p) /\ req'[d].row = req[d].row /\ seen'[d][p] = seen[d][p]
      BY <2>2, <3>1, <1>d DEF Commits, SameRequest
    <3>. QED BY <2>2, <3>2 DEF InStep, CommitterHasSeen, Base
  <2>. QED BY <2>1, <2>2 DEF CommitterHasSeen, Base
<1>. QED BY <1>1, <1>2, <1>3, <1>4 DEF InStep

\* A step that commits nothing.
LEMMA InStepMoves ==
  ASSUME InStep, RowsStay,
         \A d \in Clients : req'[d].purged = {},
         \A d \in Clients, p \in Projects : Holds(d, p)' =>
           lock'[p] = d /\ req'[d].row.revision = project[p].revision,
         \A d \in Clients, p \in Projects : lock'[p] = d => req'[d].project = p,
         \A d \in Clients, p \in Projects : seen'[d][p].stamp <= stamp[p],
         \A d \in Clients, p \in Projects : (Commits(d, p)' /\ IsRow(req'[d].row)) =>
           seen'[d][p].etag = req'[d].row.revision
  PROVE  InStep'
<1>1. \A p \in Projects : KeepsLast(p)'
  BY OldRevisions DEF RowsStay
<1>2. RevisionsGoUp'
  BY DEF RowsStay, InStep, RevisionsGoUp
<1>3. HolderIsUpToDate'
  BY DEF RowsStay, HolderIsUpToDate
<1>4. CommitterHasSeen'
  BY DEF RowsStay, CommitterHasSeen, Base
<1>. QED BY <1>1, <1>2, <1>3, <1>4 DEF InStep

LEMMA InStepAsk ==
  ASSUME WellTyped, WellTyped', InStep, NothingPurged, NEW c \in Clients, Ask(c)
  PROVE  InStep'
<1>t. \A p \in Projects : stamp[p] \in Nat
  BY DEF WellTyped, TypeOK
<1>s. /\ OthersWait(c) /\ RowsStay /\ lock' = lock /\ req[c].at = "idle"
      /\ OpensAlone(c) \/ \E p \in Projects : OpensWith(c, p) \/ StartsAnew(c, p)
  BY AskSteps DEF MayOpen
<1>n. \A p \in Projects : lock[p] # c
  BY <1>s, NamesAssumption DEF WellTyped, TypeOK
<1>a. /\ \A d \in Clients : req[d].purged = {} /\ (req[d].project # "none" => req[d].purged = {})
      /\ req'[c].project # "none" => req'[c].purged = {}
  BY DEF InStep, RevisionsGoUp, WellTyped, WellFormed
<1>1. \A d \in Clients : req'[d].purged = {}
  <2>1. OpensAlone(c) => req'[c].purged = {}
    BY DEF OpensAlone, NothingPurged
  <2>2. \A p \in Projects : OpensWith(c, p) => req'[c].purged = {}
    BY <1>a, NamesAssumption DEF OpensWith
  <2>. QED BY <1>s, <1>a, <2>1, <2>2 DEF OthersWait, StartsAnew
<1>2. \A d \in Clients, p \in Projects : lock'[p] = d => req'[d].project = p
  BY <1>s, <1>n DEF OthersWait, InStep, HolderIsUpToDate
<1>3. ASSUME NEW d \in Clients, NEW p \in Projects, Holds(d, p)'
      PROVE  lock'[p] = d /\ req'[d].row.revision = project[p].revision
  <2>1. req'[d] = req[d]
    BY <1>3, <1>s, NamesAssumption DEF OthersWait, OpensAlone, OpensWith, StartsAnew, Holds, Holding
  <2>. QED BY <1>3, <1>s, <2>1 DEF Holds, InStep, HolderIsUpToDate
<1>4. \A d \in Clients, p \in Projects : seen'[d][p].stamp <= stamp[p]
  BY <1>s, <1>t DEF OpensAlone, OpensWith, StartsAnew, Answered, InStep, CommitterHasSeen
<1>5. ASSUME NEW d \in Clients, NEW p \in Projects, Commits(d, p)', IsRow(req'[d].row)
      PROVE  seen'[d][p].etag = req'[d].row.revision
  <2>1. CASE d # c
    <3>1. req'[d] = req[d] /\ seen'[d][p] = seen[d][p]
      BY <2>1, <1>s DEF OthersWait, OpensAlone, OpensWith, StartsAnew, Answered
    <3>. QED BY <1>5, <3>1 DEF Commits, InStep, CommitterHasSeen, Base
  <2>2. CASE d = c
    <3>1. OpensWith(c, p) /\ req'[c].at = "blobs"
      BY <2>2, <1>5, <1>s, NamesAssumption
      DEF Commits, OpensAlone, OpensWith, StartsAnew, Holding
    <3>. QED BY <2>2, <3>1, <1>5 DEF OpensWith, Base
  <2>. QED BY <2>1, <2>2
<1>. QED BY <1>s, <1>1, <1>2, <1>3, <1>4, <1>5, InStepMoves

LEMMA InStepHandle ==
  ASSUME WellTyped, WellTyped', Behind, InStep, NotOvertaken, NEW c \in Clients,
         Handle(c), ~Finish(c)
  PROVE  InStep'
<1>t. /\ \A p \in Projects : stamp[p] \in Nat /\ lock[p] \in Clients \cup {"none"}
      /\ WellFormed(req[c])
  BY DEF WellTyped, TypeOK
<1>i. Idle.project = "none" /\ Idle.purged = {} /\ Idle.at = "idle"
  BY DEF Idle
<1>s. /\ OthersWait(c) /\ RowsStay
      /\ \/ GoesOn(c) /\ seen' = seen
         \/ req'[c] = Idle /\ seen' = seen
         \/ req'[c] = Idle /\ TreeArrives(c)
  BY HandleSteps
<1>l. \/ lock' = lock /\ req[c].at # "flush" /\ (req'[c] = Idle => req[c].at \notin Holding)
      \/ lock' = lock /\ req[c].at = "flush" /\ req'[c] = Idle
      \/ TakesRow(c)
  BY LockSteps
<1>1. \A d \in Clients : req'[d].purged = {}
  BY <1>s, <1>i DEF OthersWait, GoesOn, SameRequest, InStep, RevisionsGoUp
<1>2. ASSUME NEW d \in Clients, NEW p \in Projects, lock'[p] = d
      PROVE  req'[d].project = p
  <2>1. CASE TakesRow(c)
    <3>1. GoesOn(c)
      BY <2>1, <1>s, <1>i DEF TakesRow
    <3>. QED BY <2>1, <3>1, <1>2, <1>s
             DEF TakesRow, GoesOn, SameRequest, OthersWait, InStep, HolderIsUpToDate
  <2>2. CASE ~TakesRow(c)
    <3>1. lock'[p] = lock[p] /\ req[d].project = p
      BY <2>2, <1>2, <1>l DEF InStep, HolderIsUpToDate
    <3>2. req[d].at \in Holding
      BY <1>2, <3>1, NamesAssumption DEF WellTyped, TypeOK, Holding
    <3>3. d = c => GoesOn(c)
      BY <2>2, <3>2, <1>s, <1>l DEF Holding
    <3>. QED BY <3>1, <3>3, <1>s DEF GoesOn, SameRequest, OthersWait
  <2>. QED BY <2>1, <2>2
<1>3. ASSUME NEW d \in Clients, NEW p \in Projects, Holds(d, p)'
      PROVE  lock'[p] = d /\ req'[d].row.revision = project[p].revision
  <2>1. CASE d # c
    <3>1. Holds(d, p) /\ req'[d] = req[d]
      BY <2>1, <1>3, <1>s DEF Holds, OthersWait
    <3>2. lock[p] = d /\ req[d].row.revision = project[p].revision
      BY <3>1 DEF InStep, HolderIsUpToDate
    <3>3. lock'[p] = d
      BY <3>2, <1>l, NamesAssumption DEF TakesRow, Unlocked
    <3>. QED BY <3>1, <3>2, <3>3
  <2>2. CASE d = c
    <3>1. GoesOn(c) /\ req[c].project = p /\ req'[c].row = req[c].row
      BY <2>2, <1>3, <1>s, <1>i, NamesAssumption DEF Holds, GoesOn, SameRequest
    <3>2. CASE TakesRow(c)
      <4>1. req[c].row.revision = project[p].revision
        BY <3>1, <3>2, KeysShowProgress DEF TakesRow
      <4>. QED BY <2>2, <3>1, <3>2, <4>1 DEF TakesRow
    <3>3. CASE ~TakesRow(c)
      <4>1. req[c].at \in {"used", "drop", "rows"}
        BY <2>2, <3>1, <3>3, <1>3, <1>l, <1>i DEF GoesOn, StageBefore, Holds, Holding
      <4>2. req[c].at # "rows"
        BY <3>1, <1>t, NamesAssumption DEF WellFormed, OfAccount
      <4>3. Holds(c, p)
        BY <3>1, <4>1, <4>2 DEF Holds, Holding
      <4>4. lock' = lock
        BY <3>3, <1>l
      <4>. QED BY <2>2, <3>1, <4>3, <4>4 DEF InStep, HolderIsUpToDate
    <3>. QED BY <3>2, <3>3
  <2>. QED BY <2>1, <2>2
<1>4. \A d \in Clients, p \in Projects : seen'[d][p].stamp <= stamp[p]
  BY <1>s, <1>t DEF TreeArrives, Answered, InStep, CommitterHasSeen
<1>5. ASSUME NEW d \in Clients, NEW p \in Projects, Commits(d, p)', IsRow(req'[d].row)
      PROVE  seen'[d][p].etag = req'[d].row.revision
  <2>1. CASE d # c
    <3>1. req'[d] = req[d] /\ seen'[d][p] = seen[d][p]
      BY <2>1, <1>s DEF OthersWait, TreeArrives, Answered
    <3>. QED BY <1>5, <3>1 DEF Commits, InStep, CommitterHasSeen, Base
  <2>2. CASE d = c
    <3>1. GoesOn(c) /\ seen' = seen /\ req[c].project = p /\ req'[c].row = req[c].row
      BY <2>2, <1>5, <1>s, <1>i, NamesAssumption DEF Commits, GoesOn, SameRequest
    <3>2. req[c].at \in {"blobs", "quota", "flush", "rows"} \cup Holding
      BY <3>1 DEF GoesOn, StageBefore, Holding
    <3>3. req[c].at # "rows"
      BY <3>1, <1>t, NamesAssumption DEF WellFormed, OfAccount
    <3>4. Commits(c, p)
      BY <3>1, <3>2, <3>3 DEF Commits
    <3>. QED BY <2>2, <1>5, <3>1, <3>4 DEF InStep, CommitterHasSeen, Base
  <2>. QED BY <2>1, <2>2
<1>. QED BY <1>s, <1>1, <1>2, <1>3, <1>4, <1>5, InStepMoves

LEMMA InStepAbort ==
  ASSUME WellTyped, InStep, NEW c \in Clients, Abort(c)
  PROVE  InStep'
<1>i. Idle.project = "none" /\ Idle.purged = {}
  BY DEF Idle
<1>s. OthersWait(c) /\ RowsStay /\ req'[c] = Idle /\ seen' = seen
  BY AbortSteps
<1>l. \A p \in Projects : lock'[p] = IF lock[p] = c THEN "none" ELSE lock[p]
  BY DEF Abort, Released
<1>1. \A d \in Clients : req'[d].purged = {}
  BY <1>s, <1>i DEF OthersWait, InStep, RevisionsGoUp
<1>2. \A d \in Clients, p \in Projects : lock'[p] = d => req'[d].project = p
  BY <1>s, <1>l, NamesAssumption DEF OthersWait, InStep, HolderIsUpToDate
<1>3. \A d \in Clients, p \in Projects : Holds(d, p)' =>
        lock'[p] = d /\ req'[d].row.revision = project[p].revision
  BY <1>s, <1>l, <1>i, NamesAssumption DEF OthersWait, InStep, HolderIsUpToDate, Holds
<1>4. \A d \in Clients, p \in Projects : (Commits(d, p)' /\ IsRow(req'[d].row)) =>
        seen'[d][p].etag = req'[d].row.revision
  BY <1>s, <1>i, NamesAssumption DEF OthersWait, InStep, CommitterHasSeen, Commits, Base
<1>5. \A d \in Clients, p \in Projects : seen'[d][p].stamp <= stamp[p]
  BY <1>s DEF InStep, CommitterHasSeen
<1>. QED BY <1>s, <1>1, <1>2, <1>3, <1>4, <1>5, InStepMoves

LEMMA InStepStep ==
  WellTyped /\ WellTyped' /\ Behind /\ InStep /\ NothingPurged /\ NotOvertaken /\ [Next]_vars
    => InStep'
<1>. SUFFICES ASSUME WellTyped, WellTyped', Behind, InStep, NothingPurged, NotOvertaken,
                     [Next]_vars
              PROVE  InStep'
  OBVIOUS
<1>1. ASSUME NEW c \in Clients, Ask(c) PROVE InStep'
  BY <1>1, InStepAsk
<1>2. ASSUME NEW c \in Clients, Finish(c) PROVE InStep'
  BY <1>2, InStepFinish
<1>3. ASSUME NEW c \in Clients, Handle(c), ~Finish(c) PROVE InStep'
  BY <1>3, InStepHandle
<1>4. ASSUME NEW c \in Clients, Abort(c) PROVE InStep'
  BY <1>4, InStepAbort
<1>5. ASSUME RowsStay, req' = req, seen' = seen, lock' = lock PROVE InStep'
  BY <1>5, InStepMoves
  DEF InStep, RevisionsGoUp, HolderIsUpToDate, CommitterHasSeen, Holds, Commits, Base
<1>6. ASSUME NEW p \in Projects, Age(p) PROVE InStep'
  BY <1>5, <1>6, AgeSteps
<1>7. CASE UNCHANGED vars
  BY <1>5, <1>7 DEF vars, RowsStay
<1>. QED BY <1>1, <1>2, <1>3, <1>4, <1>6, <1>7 DEF Next

LEMMA BehindHolds == Spec => []Behind
<1>1. Init => Behind
  BY NamesAssumption DEF Init, Behind, EtagIsNotNewer, NoRow, Idle
<1>. QED BY <1>1, BehindStep, Typed, PTL DEF Spec

LEMMA InStepHolds == Spec /\ []NothingPurged /\ []NotOvertaken => []InStep
  BY InStepInit, InStepStep, Typed, BehindHolds, PTL DEF Spec

LEMMA LastAreKept == InStep => KeptRevisionsAreTheLast
<1>. SUFFICES ASSUME InStep, NEW p \in Projects, Exists(p)
              PROVE  LET n == project[p].revision IN
                       /\ {r.revision : r \in revisions[p]} = {m \in 1 .. n : m > n - Keep}
                       /\ [revision |-> n, files |-> files[p]] \in revisions[p]
  BY DEF KeptRevisionsAreTheLast
<1>. DEFINE n == project[p].revision
<1>1. /\ \A r \in revisions[p] : r.revision \in Last(n)
      /\ \A m \in Last(n) : \E r \in revisions[p] : r.revision = m
      /\ [revision |-> n, files |-> files[p]] \in revisions[p]
  BY DEF InStep, KeepsLast
<1>. HIDE DEF n
<1>2. {r.revision : r \in revisions[p]} = Last(n)
  BY <1>1
<1>. QED BY <1>1, <1>2 DEF n, Last

\* Who commits over a tree has been sent that tree.
LEMMA CommitterIsUpToDate ==
  ASSUME WellTyped, Behind, InStep, NEW c \in Clients, NEW p \in Projects, Overwrites(c, p)
  PROVE  seen[c][p].stamp = stamp[p]
<1>1. Holds(c, p) /\ Commits(c, p)
  BY DEF Overwrites, Holds, Commits, Holding
<1>2. req[c].row.revision = stamp[p] /\ IsRow(req[c].row)
  BY <1>1 DEF InStep, HolderIsUpToDate, RevisionsGoUp, Overwrites, Exists, IsRow
<1>3. seen[c][p].etag = stamp[p] /\ seen[c][p].stamp <= stamp[p]
  BY <1>1, <1>2 DEF InStep, CommitterHasSeen, Base
<1>4. seen[c][p].etag <= seen[c][p].stamp
  BY DEF Behind, EtagIsNotNewer
<1>5. seen[c][p].stamp \in Nat /\ stamp[p] \in Nat
  BY DEF WellTyped, TypeOK
<1>. QED BY <1>3, <1>4, <1>5

\* KeptRevisionsAreTheLast, for requests handled at the same time that may fail
\* at any statement, as long as no project is purged and no commit is overtaken
\* by Keep others between its read and its write: commit_project keeps the last
\* KEEP_REVISIONS trees, none missing.
THEOREM LastRevisionsAreKept ==
  Spec /\ []NothingPurged /\ []NotOvertaken => []KeptRevisionsAreTheLast
  BY InStepHolds, LastAreKept, PTL

\* NothingOverwrittenUnseen under the same two conditions: "Nothing is
\* overwritten without the client seeing it."
THEOREM OverwritesAreSeen ==
  Spec /\ []NothingPurged /\ []NotOvertaken => NothingOverwrittenUnseen
<1>1. WellTyped /\ Behind /\ InStep =>
        [\A c \in Clients, p \in Projects : Overwrites(c, p) => seen[c][p].stamp = stamp[p]]_vars
  BY CommitterIsUpToDate
<1>. QED BY <1>1, InStepHolds, Typed, BehindHolds, PTL DEF NothingOverwrittenUnseen

-----------------------------------------------------------------------------
(* The two conditions hold for the first commits of a project *)

FirstCommits ==
  /\ ages = 0 /\ NothingPurged
  /\ \A p \in Projects : stamp[p] <= MaxCommits
  /\ \A c \in Clients, p \in Projects : Commits(c, p) => req[c].row.revision < MaxCommits

LEMMA FirstAreNotOvertaken ==
  ASSUME WellTyped, InStep, FirstCommits, MaxCommits <= Keep + 1
  PROVE  NotOvertaken
<1>. SUFFICES ASSUME NEW c \in Clients, NEW p \in Projects, IsRow(req[c].row)
              PROVE  project[p].revision <= req[c].row.revision + Keep
  BY DEF NotOvertaken
<1>1. project[p].revision <= MaxCommits /\ project[p].revision \in Nat
  BY DEF InStep, RevisionsGoUp, FirstCommits, WellTyped, TypeOK
<1>2. req[c].row.revision \in Nat /\ req[c].row.revision >= 1
  BY DEF IsRow, WellTyped, TypeOK, Requests, Rows
<1>. QED BY <1>1, <1>2, SizesAssumption

LEMMA FirstCommitsStep ==
  ASSUME MaxAges = 0, WellTyped, WellTyped', Behind, InStep, FirstCommits, [Next]_vars
  PROVE  FirstCommits'
<1>i. Idle.project = "none"
  BY DEF Idle
<1>t. /\ project \in [Projects -> Rows] /\ stamp \in [Projects -> Nat]
      /\ \A p \in Projects : project[p].revision \in Nat /\ stamp[p] \in Nat
      /\ \A c \in Clients : WellFormed(req[c]) /\ req[c] \in Requests
  BY DEF WellTyped, TypeOK, Rows
<1>1. ASSUME NEW c \in Clients, Ask(c) PROVE FirstCommits'
  <2>1. /\ OthersWait(c) /\ RowsStay /\ project' = project /\ ages' = ages
        /\ OpensAlone(c) \/ \E p \in Projects : OpensWith(c, p) \/ StartsAnew(c, p)
    BY <1>1, AskSteps
  <2>2. \A d \in Clients, p \in Projects : Commits(d, p)' => req'[d].row.revision < MaxCommits
    BY <2>1, NamesAssumption
    DEF OthersWait, OpensAlone, OpensWith, StartsAnew, Commits, FirstCommits, InStep,
        RevisionsGoUp, Holding
  <2>. QED BY <2>1, <2>2 DEF FirstCommits, NothingPurged, RowsStay
<1>2. ASSUME NEW c \in Clients, Finish(c) PROVE FirstCommits'
  <2>1. \A p \in Projects : project'[p].deleted # "old"
    <3>. TAKE p \in Projects
    <3>1. project'[p] = RowAfter(c)[p] /\ project[p].deleted # "old"
      BY <1>2 DEF Finish, FirstCommits, NothingPurged
    <3>. QED BY <3>1 DEF RowAfter, NoRow
  <2>2. ASSUME NEW p \in Projects PROVE stamp'[p] <= MaxCommits
    <3>1. CASE p = req[c].project
      <4>1. Holds(c, p) /\ Commits(c, p)
        BY <3>1, <1>2 DEF Finish, Holds, Commits, Holding
      <4>2. req[c].row.revision = stamp[p] /\ req[c].row.revision < MaxCommits
        BY <4>1 DEF InStep, HolderIsUpToDate, RevisionsGoUp, FirstCommits
      <4>3. stamp'[p] = stamp[p] + 1
        BY <3>1, <1>2, FinishSteps
      <4>. QED BY <4>2, <4>3, <1>t, SizesAssumption
    <3>2. CASE p # req[c].project
      BY <3>2, <1>2, FinishSteps DEF FirstCommits
    <3>. QED BY <3>1, <3>2
  <2>3. req'[c] = Idle
    BY <1>2, FinishSteps
  <2>4. \A d \in Clients \ {c} : SameRequest(req'[d], req[d]) /\ req'[d].at = req[d].at
    BY <1>2, FinishSteps
  <2>5. \A d \in Clients, p \in Projects : Commits(d, p)' => req'[d].row.revision < MaxCommits
    BY <2>3, <2>4, <1>i, NamesAssumption DEF SameRequest, Commits, FirstCommits
  <2>6. ages' = ages
    BY <1>2 DEF Finish
  <2>. QED BY <2>1, <2>2, <2>5, <2>6 DEF FirstCommits, NothingPurged
<1>3. ASSUME NEW c \in Clients, Handle(c), ~Finish(c) PROVE FirstCommits'
  <2>1. /\ OthersWait(c) /\ RowsStay /\ ages' = ages
        /\ GoesOn(c) \/ req'[c] = Idle
    BY <1>3, HandleSteps
  <2>2. \A p \in Projects : project'[p].deleted # "old"
    <3>1. project' = project \/ Mark(c) \/ Unmark(c)
      BY <1>3 DEF Handle, Tree, Insert, CommitBlobs, CommitQuota, CommitFlush, Used, Drop,
                  PurgeRows, Database
    <3>2. project' = project \/ \E p \in Projects, d \in {"recent", "no"} :
                                 project' = [project EXCEPT ![p].deleted = d]
      BY <3>1, <1>t DEF Mark, Unmark, SetDeleted, WellFormed, OfProject, Requests
    <3>. QED BY <3>2, <1>t DEF FirstCommits, NothingPurged, Rows
  <2>3. ASSUME NEW p \in Projects, Commits(c, p)' PROVE req'[c].row.revision < MaxCommits
    <3>1. GoesOn(c) /\ req[c].project = p /\ req'[c].row = req[c].row
      BY <2>3, <2>1, <1>i, NamesAssumption DEF Commits, GoesOn, SameRequest
    <3>2. req[c].at \in {"blobs", "quota", "flush", "rows"} \cup Holding
      BY <3>1 DEF GoesOn, StageBefore, Holding
    <3>3. req[c].at # "rows"
      BY <3>1, <1>t, NamesAssumption DEF WellFormed, OfAccount
    <3>. QED BY <3>1, <3>2, <3>3 DEF Commits, FirstCommits
  <2>4. \A d \in Clients \ {c}, p \in Projects :
          Commits(d, p)' => req'[d].row.revision < MaxCommits
    BY <2>1 DEF OthersWait, Commits, FirstCommits
  <2>. QED BY <2>1, <2>2, <2>3, <2>4 DEF FirstCommits, NothingPurged, RowsStay
<1>4. ASSUME NEW c \in Clients, Abort(c) PROVE FirstCommits'
  <2>1. OthersWait(c) /\ RowsStay /\ req'[c] = Idle /\ ages' = ages /\ project' = project
    BY <1>4, AbortSteps DEF Database
  <2>2. \A d \in Clients, p \in Projects : Commits(d, p)' => req'[d].row.revision < MaxCommits
    BY <2>1, <1>i, NamesAssumption DEF OthersWait, Commits, FirstCommits
  <2>. QED BY <2>1, <2>2 DEF FirstCommits, NothingPurged, RowsStay
<1>5. ASSUME NEW p \in Projects, Age(p) PROVE FALSE
  BY <1>5 DEF Age, FirstCommits
<1>6. CASE UNCHANGED vars
  BY <1>6 DEF vars, FirstCommits, NothingPurged, Commits
<1>. QED BY <1>1, <1>2, <1>3, <1>4, <1>5, <1>6 DEF Next

LEMMA FirstCommitsHold ==
  ASSUME MaxAges = 0, MaxCommits <= Keep + 1
  PROVE  Spec => [](InStep /\ FirstCommits)
<1>1. Init => InStep /\ FirstCommits
  BY InStepInit, NamesAssumption, SizesAssumption
  DEF Init, FirstCommits, NothingPurged, Commits, NoRow, Idle
<1>2. /\ WellTyped /\ WellTyped' /\ Behind /\ (InStep /\ FirstCommits) /\ [Next]_vars
      => (InStep /\ FirstCommits)'
  BY InStepStep, FirstCommitsStep, FirstAreNotOvertaken DEF FirstCommits
<1>. QED BY <1>1, <1>2, Typed, BehindHolds, PTL DEF Spec

\* Without conditions on the behaviour: up to KEEP_REVISIONS + 1 commits of a
\* project that is never purged, in any order with the others and with failures,
\* leave the last revisions and overwrite nothing unseen.
THEOREM FirstCommitsAreSafe ==
  ASSUME MaxAges = 0, MaxCommits <= Keep + 1
  PROVE  Spec => []KeptRevisionsAreTheLast /\ NothingOverwrittenUnseen
<1>1. WellTyped /\ Behind /\ InStep =>
        [\A c \in Clients, p \in Projects : Overwrites(c, p) => seen[c][p].stamp = stamp[p]]_vars
  BY CommitterIsUpToDate
<1>. QED BY <1>1, FirstCommitsHold, LastAreKept, Typed, BehindHolds, PTL
         DEF NothingOverwrittenUnseen

-----------------------------------------------------------------------------
(* One request at a time *)

Open(c) == req[c].at # "idle"
OneOpen == \A c, d \in Clients : Open(c) /\ Open(d) => c = d

\* What is in use when the transaction of c has committed.
WillUse(c, b) ==
  \E p \in Projects : \/ b \in FilesAfter(c)[p]
                      \/ \E r \in RevisionsAfter(c)[p] : b \in r.files

TreesHaveBlobs ==
  \A p \in Projects : files[p] \subseteq blobs /\ \A r \in revisions[p] : r.files \subseteq blobs

CommitHasBlobs(c) ==
  (req[c].project # "none" /\ req[c].at \in {"quota", "flush"} \cup Holding)
    => HasBlobs(req[c].tree)
UnusedGo(c) ==
  \A b \in blobs :
    /\ (req[c].at = "drop" /\ WillUse(c, b)) => b \in req[c].used
    /\ (req[c].at = "commit" /\ WillUse(c, b)) => b \notin req[c].dropped
PurgesAll(c) ==
  req[c].at \in Holding =>
    \A p \in req[c].purged :
      req[c].goneFiles[p] = files[p] /\ req[c].goneRevisions[p] = revisions[p]

InTurn(c) == CommitHasBlobs(c) /\ UnusedGo(c) /\ PurgesAll(c)
Serial == OneOpen /\ TreesHaveBlobs /\ PurgedIsGone /\ \A c \in Clients : InTurn(c)

LEMMA IdleInTurn == \A c \in Clients : ~Open(c) => InTurn(c)
  BY DEF Open, InTurn, CommitHasBlobs, UnusedGo, PurgesAll, Holding

LEMMA IdleInTurnNext == (\A c \in Clients : ~Open(c) => InTurn(c))'
  BY IdleInTurn, PTL

\* A request opens when no other is open.
LEMMA OpensAmongIdle ==
  ASSUME MaxOpen = 1, OneOpen, NEW c \in Clients, MayOpen(c)
  PROVE  \A d \in Clients : ~Open(d)
<1>. SUFFICES ASSUME NEW d \in Clients, Open(d) PROVE FALSE
  OBVIOUS
<1>. DEFINE S == {e \in Clients : req[e].at # "idle"}
<1>1. S = {d}
  BY DEF OneOpen, Open
<1>2. Cardinality(S) < 1
  BY DEF MayOpen
<1>3. Cardinality({d}) = 1
  BY FS_Singleton
<1>. HIDE DEF S
<1>. QED BY <1>1, <1>2, <1>3

\* While c is at work nobody else is, and only the present rows count.
LEMMA SerialMoves ==
  ASSUME Serial, NEW c \in Clients, Open(c), OthersWait(c), RowsStay,
         blobs \subseteq blobs', InTurn(c)'
  PROVE  Serial'
<1>1. \A d \in Clients \ {c} : ~Open(d)
  BY DEF Serial, OneOpen
<1>2. \A d \in Clients \ {c} : ~Open(d)'
  BY <1>1 DEF Open, OthersWait
<1>3. \A d \in Clients : InTurn(d)'
  BY <1>2, IdleInTurnNext
<1>4. OneOpen'
  BY <1>2 DEF OneOpen
<1>5. TreesHaveBlobs' /\ PurgedIsGone'
  BY DEF Serial, RowsStay, TreesHaveBlobs, PurgedIsGone, Exists, IsRow
<1>. QED BY <1>3, <1>4, <1>5 DEF Serial

\* What c will leave is fixed once it has written.
LEMMA AfterIsFixed ==
  ASSUME NEW c \in Clients, RowsStay, SameRequest(req'[c], req[c]),
         req'[c].goneFiles = req[c].goneFiles, req'[c].goneRevisions = req[c].goneRevisions
  PROVE  \A b : WillUse(c, b)' <=> WillUse(c, b)
<1>1. FilesAfter(c)' = FilesAfter(c)
  BY DEF FilesAfter, RowsStay, SameRequest
<1>2. RevisionsAfter(c)' = RevisionsAfter(c)
  BY DEF RevisionsAfter, OutOfKept, NextRevision, RowsStay, SameRequest
<1>. QED BY <1>1, <1>2 DEF WillUse

LEMMA SerialAsk ==
  ASSUME MaxOpen = 1, WellTyped, Serial, NEW c \in Clients, Ask(c)
  PROVE  Serial'
<1>s. /\ MayOpen(c) /\ OthersWait(c) /\ RowsStay /\ project' = project /\ blobs' = blobs
      /\ OpensAlone(c) \/ \E p \in Projects : OpensWith(c, p) \/ StartsAnew(c, p)
  BY AskSteps
<1>1. \A d \in Clients : ~Open(d)
  BY <1>s, OpensAmongIdle DEF Serial
<1>2. \A d \in Clients \ {c} : ~Open(d)'
  BY <1>1, <1>s DEF OthersWait, Open
<1>3. \A d \in Clients : ~Open(d)' => InTurn(d)'
  BY IdleInTurnNext
<1>4. InTurn(c)'
  <2>1. CASE OpensAlone(c)
    BY <2>1 DEF OpensAlone, InTurn, CommitHasBlobs, UnusedGo, PurgesAll, Holding
  <2>2. ASSUME NEW p \in Projects, OpensWith(c, p) PROVE InTurn(c)'
    BY <2>2, <1>s DEF OpensWith, InTurn, CommitHasBlobs, UnusedGo, PurgesAll,
                      Holding, Base
  <2>3. ASSUME NEW p \in Projects, StartsAnew(c, p) PROVE InTurn(c)'
    BY <2>3, <1>1, <1>3 DEF StartsAnew, Open
  <2>. QED BY <1>s, <2>1, <2>2, <2>3
<1>5. OneOpen'
  BY <1>2 DEF OneOpen
<1>6. TreesHaveBlobs' /\ PurgedIsGone'
  BY <1>s DEF Serial, RowsStay, TreesHaveBlobs, PurgedIsGone, Exists, IsRow
<1>. QED BY <1>2, <1>3, <1>4, <1>5, <1>6 DEF Serial

\* What c has of its commit or purge at the next stage.
LEMMA InTurnHandle ==
  ASSUME WellTyped, Serial, NEW c \in Clients, Handle(c), ~Finish(c)
  PROVE  InTurn(c)' /\ blobs \subseteq blobs'
<1>t. /\ req \in [Clients -> Requests] /\ req[c] \in Requests /\ WellFormed(req[c])
  BY DEF WellTyped, TypeOK
<1>s. RowsStay
  BY HandleSteps
<1>n. InTurn(c)
  BY DEF Serial
<1>e. req'[c] = Idle => InTurn(c)'
  BY IdleInTurnNext DEF Idle, Open
<1>1. CASE Tree(c) \/ Insert(c) \/ Mark(c) \/ Unmark(c)
  BY <1>1, <1>e, <1>t DEF Tree, Insert, Mark, Unmark, SetDeleted, End, Database
<1>2. CASE CommitBlobs(c) \/ CommitQuota(c) \/ CommitFlush(c)
  <2>1. blobs' = blobs
    BY <1>2 DEF CommitBlobs, CommitQuota, CommitFlush, Database
  <2>2. CASE req'[c] = Idle
    BY <2>1, <2>2, <1>e
  <2>3. CASE req'[c] # Idle
    <3>1. /\ SameRequest(req'[c], req[c]) /\ req'[c].at \in {"quota", "flush", "used"}
          /\ HasBlobs(req[c].tree) /\ req[c].project # "none"
      BY <1>2, <2>3, <1>t, <1>n
      DEF CommitBlobs, CommitQuota, CommitFlush, Goto, End, SameRequest, InTurn, CommitHasBlobs,
          WellFormed, OfProject, Requests
    <3>2. req[c].purged = {}
      BY <3>1, <1>t DEF WellFormed
    <3>. QED BY <2>1, <3>1, <3>2 DEF SameRequest, InTurn, CommitHasBlobs, UnusedGo, PurgesAll, HasBlobs
  <2>. QED BY <2>2, <2>3
<1>3. CASE Used(c)
  <2>. DEFINE used == InUse(FilesAfter(c), RevisionsAfter(c))
  <2>1. blobs' = blobs /\ req[c].at = "used"
    BY <1>3 DEF Used, Database
  <2>2. req'[c] = [req[c] EXCEPT !.used = used, !.at = "drop"]
    BY <1>3, <1>t DEF Used, GoOn
  <2>3. \A b : WillUse(c, b) => b \in used
    BY DEF WillUse, InUse
  <2>. HIDE DEF used
  <2>4. /\ SameRequest(req'[c], req[c]) /\ req'[c].at = "drop" /\ req'[c].used = used
        /\ req'[c].goneFiles = req[c].goneFiles /\ req'[c].goneRevisions = req[c].goneRevisions
    BY <2>2, <1>t DEF Requests, SameRequest
  <2>5. \A b : WillUse(c, b)' <=> WillUse(c, b)
    BY <2>4, <1>s, AfterIsFixed
  <2>6. UnusedGo(c)'
    BY <2>3, <2>4, <2>5 DEF UnusedGo
  <2>7. CommitHasBlobs(c)' /\ PurgesAll(c)'
    BY <2>1, <2>4, <1>s, <1>n
    DEF InTurn, CommitHasBlobs, PurgesAll, SameRequest, HasBlobs, Holding, RowsStay
  <2>. QED BY <2>1, <2>6, <2>7 DEF InTurn
<1>4. CASE Drop(c)
  <2>. DEFINE dropped == blobs \ req[c].used
  <2>1. blobs' = blobs /\ req[c].at = "drop"
    BY <1>4 DEF Drop, Database
  <2>2. req'[c] = [req[c] EXCEPT !.dropped = dropped, !.used = {}, !.at = "commit"]
    BY <1>4, <1>t DEF Drop, GoOn
  <2>3. \A b \in blobs : WillUse(c, b) => b \notin dropped
    BY <2>1, <1>n DEF InTurn, UnusedGo
  <2>. HIDE DEF dropped
  <2>4. /\ SameRequest(req'[c], req[c]) /\ req'[c].at = "commit" /\ req'[c].dropped = dropped
        /\ req'[c].goneFiles = req[c].goneFiles /\ req'[c].goneRevisions = req[c].goneRevisions
    BY <2>2, <1>t DEF Requests, SameRequest
  <2>5. \A b : WillUse(c, b)' <=> WillUse(c, b)
    BY <2>4, <1>s, AfterIsFixed
  <2>6. UnusedGo(c)'
    BY <2>1, <2>3, <2>4, <2>5 DEF UnusedGo
  <2>7. CommitHasBlobs(c)' /\ PurgesAll(c)'
    BY <2>1, <2>4, <1>s, <1>n
    DEF InTurn, CommitHasBlobs, PurgesAll, SameRequest, HasBlobs, Holding, RowsStay
  <2>. QED BY <2>1, <2>6, <2>7 DEF InTurn
<1>5. CASE PurgeRows(c)
  <2>. DEFINE fs == GoneFiles(req[c].purged)
              rs == GoneRevisions(req[c].purged)
  <2>1. blobs' = blobs /\ req[c].at = "rows" /\ req[c].project = "none"
    BY <1>5, <1>t DEF PurgeRows, Database, WellFormed, OfAccount
  <2>2. req'[c] = [req[c] EXCEPT !.goneFiles = fs, !.goneRevisions = rs, !.at = "used"]
    BY <1>5, <1>t DEF PurgeRows, GoOn
  <2>3. \A p \in req[c].purged : fs[p] = files[p] /\ rs[p] = revisions[p]
    BY <1>t DEF GoneFiles, GoneRevisions, Requests
  <2>. HIDE DEF fs, rs
  <2>4. /\ SameRequest(req'[c], req[c]) /\ req'[c].at = "used"
        /\ req'[c].goneFiles = fs /\ req'[c].goneRevisions = rs
    BY <2>2, <1>t DEF Requests, SameRequest
  <2>. QED BY <2>1, <2>3, <2>4, <1>s
           DEF InTurn, CommitHasBlobs, PurgesAll, UnusedGo, SameRequest, RowsStay
<1>. QED BY <1>1, <1>2, <1>3, <1>4, <1>5 DEF Handle

LEMMA SerialFinish ==
  ASSUME WellTyped, Serial, NEW c \in Clients, Finish(c)
  PROVE  Serial'
<1>t. /\ req \in [Clients -> Requests] /\ req[c] \in Requests /\ WellFormed(req[c])
      /\ blobs \subseteq Blobs
  BY DEF WellTyped, TypeOK
<1>n. InTurn(c) /\ req[c].at = "commit"
  BY DEF Serial, Finish
<1>1. \A d \in Clients : ~Open(d)'
  <2>1. \A d \in Clients \ {c} : req[d].at = "idle"
    BY <1>n DEF Serial, OneOpen, Open
  <2>2. req'[c] = Idle
    BY FinishSteps
  <2>3. \A d \in Clients \ {c} : req'[d].at = req[d].at
    BY FinishSteps
  <2>. QED BY <2>1, <2>2, <2>3 DEF Open, Idle
<1>2. OneOpen' /\ \A d \in Clients : InTurn(d)'
  BY <1>1, IdleInTurnNext DEF OneOpen
<1>a. /\ files' = FilesAfter(c) /\ revisions' = RevisionsAfter(c)
      /\ blobs' = blobs \ req[c].dropped
  BY DEF Finish
<1>3. \A b \in blobs : WillUse(c, b) => b \in blobs'
  BY <1>n, <1>a DEF InTurn, UnusedGo
<1>p. ASSUME NEW p \in Projects, p = req[c].project
      PROVE  /\ FilesAfter(c)[p] = req[c].tree
             /\ RevisionsAfter(c)[p] \subseteq
                  revisions[p] \cup {[revision |-> NextRevision(c), files |-> req[c].tree]}
             /\ req[c].tree \subseteq blobs
  <2>1. req[c].tree \subseteq blobs
    BY <1>p, <1>n, NamesAssumption DEF InTurn, CommitHasBlobs, Holding, HasBlobs
  <2>. QED BY <1>p, <2>1 DEF FilesAfter, RevisionsAfter
<1>q. ASSUME NEW p \in Projects, p # req[c].project
      PROVE  FilesAfter(c)[p] = files[p] \ req[c].goneFiles[p]
             /\ RevisionsAfter(c)[p] = revisions[p] \ req[c].goneRevisions[p]
  BY <1>q DEF FilesAfter, RevisionsAfter
<1>4. \A b : WillUse(c, b) => b \in blobs
  <2>. SUFFICES ASSUME NEW b, NEW p \in Projects,
                       b \in FilesAfter(c)[p] \/ \E r \in RevisionsAfter(c)[p] : b \in r.files
                PROVE  b \in blobs
    BY DEF WillUse
  <2>1. files[p] \subseteq blobs /\ \A r \in revisions[p] : r.files \subseteq blobs
    BY DEF Serial, TreesHaveBlobs
  <2>2. CASE p = req[c].project
    BY <2>1, <2>2, <1>p
  <2>3. CASE p # req[c].project
    BY <2>1, <2>3, <1>q
  <2>. QED BY <2>2, <2>3
<1>5. TreesHaveBlobs'
  BY <1>3, <1>4, <1>a DEF TreesHaveBlobs, WillUse
<1>6. PurgedIsGone'
  <2>. SUFFICES ASSUME NEW p \in Projects, project'[p].revision <= 0 \/ ~(project'[p].revision > 0)
                PROVE  files'[p] = {} /\ revisions'[p] = {}
    BY DEF PurgedIsGone, Exists, IsRow
  <2>1. p # req[c].project
    <3>1. req[c].row.revision \in Nat
      BY <1>t DEF Requests, Rows
    <3>2. p = req[c].project => project'[p].revision = req[c].row.revision + 1
      BY FinishSteps
    <3>. QED BY <3>1, <3>2
  <2>2. CASE p \in req[c].purged
    BY <2>1, <2>2, <1>a, <1>n, <1>q DEF InTurn, PurgesAll, Holding
  <2>3. CASE p \notin req[c].purged
    <3>1. project'[p] = project[p]
      BY <2>1, <2>3, FinishSteps
    <3>2. project[p].revision \in Nat
      BY DEF WellTyped, TypeOK, Rows
    <3>3. files[p] = {} /\ revisions[p] = {}
      BY <3>1, <3>2 DEF Serial, PurgedIsGone, Exists, IsRow
    <3>. QED BY <2>1, <3>3, <1>a, <1>q
  <2>. QED BY <2>2, <2>3
<1>. QED BY <1>2, <1>5, <1>6 DEF Serial

LEMMA SerialStep ==
  ASSUME MaxOpen = 1, WellTyped, Serial, [Next]_vars
  PROVE  Serial'
<1>1. ASSUME NEW c \in Clients, Ask(c) PROVE Serial'
  BY <1>1, SerialAsk
<1>2. ASSUME NEW c \in Clients, Finish(c) PROVE Serial'
  BY <1>2, SerialFinish
<1>3. ASSUME NEW c \in Clients, Handle(c), ~Finish(c) PROVE Serial'
  <2>1. Open(c)
    BY <1>3 DEF Handle, Tree, Insert, CommitBlobs, CommitQuota, CommitFlush, Used, Drop,
                PurgeRows, Mark, Unmark, SetDeleted, Open
  <2>. QED BY <1>3, <2>1, HandleSteps, InTurnHandle, SerialMoves
<1>4. ASSUME NEW c \in Clients, Abort(c) PROVE Serial'
  <2>1. Open(c) /\ OthersWait(c) /\ RowsStay /\ req'[c] = Idle /\ blobs' = blobs
    BY <1>4, AbortSteps DEF Abort, Open, Database
  <2>2. InTurn(c)'
    BY <2>1, IdleInTurnNext DEF Open, Idle
  <2>. QED BY <2>1, <2>2, SerialMoves
<1>5. ASSUME RowsStay, req' = req, blobs' = blobs, seen' = seen PROVE Serial'
  <2>1. ASSUME NEW c \in Clients PROVE InTurn(c)'
    <3>1. \A b : WillUse(c, b)' <=> WillUse(c, b)
      BY <1>5, AfterIsFixed DEF SameRequest
    <3>2. InTurn(c)
      BY DEF Serial
    <3>3. UnusedGo(c)'
      BY <1>5, <3>1, <3>2 DEF InTurn, UnusedGo
    <3>. QED BY <1>5, <3>2, <3>3
             DEF InTurn, CommitHasBlobs, HasBlobs, PurgesAll, RowsStay, Base
  <2>2. OneOpen' /\ TreesHaveBlobs' /\ PurgedIsGone'
    BY <1>5 DEF Serial, RowsStay, OneOpen, Open, TreesHaveBlobs, PurgedIsGone, Exists, IsRow
  <2>. QED BY <2>1, <2>2 DEF Serial
<1>6. ASSUME NEW p \in Projects, Age(p) PROVE Serial'
  BY <1>5, <1>6, AgeSteps
<1>7. CASE UNCHANGED vars
  BY <1>5, <1>7 DEF vars, RowsStay
<1>. QED BY <1>1, <1>2, <1>3, <1>4, <1>6, <1>7 DEF Next

LEMMA SerialHolds == ASSUME MaxOpen = 1 PROVE Spec => []Serial
<1>1. Init => Serial
  <2>. SUFFICES ASSUME Init PROVE Serial
    OBVIOUS
  <2>1. \A c \in Clients : ~Open(c)
    BY DEF Init, Open, Idle
  <2>2. OneOpen /\ \A c \in Clients : InTurn(c)
    BY <2>1, IdleInTurn DEF OneOpen
  <2>. QED BY <2>2 DEF Init, Serial, TreesHaveBlobs, PurgedIsGone
<1>2. WellTyped /\ Serial /\ [Next]_vars => Serial'
  BY SerialStep
<1>. QED BY <1>1, <1>2, Typed, PTL DEF Spec

\* ContentIsKept, for requests handled one after the other: commit_project
\* takes only a tree whose blobs are there, and _collect_blobs drops none that
\* a current file or a kept revision uses.
THEOREM SerialContentIsKept == ASSUME MaxOpen = 1 PROVE Spec => []ContentIsKept
<1>1. Serial => ContentIsKept
  BY DEF Serial, TreesHaveBlobs, ContentIsKept
<1>. QED BY <1>1, SerialHolds, PTL

\* PurgedIsGone, for requests handled one after the other: _purge_deleted leaves
\* no file and no revision of a project that it deletes.
THEOREM SerialPurgedIsGone == ASSUME MaxOpen = 1 PROVE Spec => []PurgedIsGone
<1>1. Serial => PurgedIsGone
  BY DEF Serial
<1>. QED BY <1>1, SerialHolds, PTL

-----------------------------------------------------------------------------
(* The quota *)

Size == [p \in Projects |-> project[p].size]

\* What the projects ps add up to.
LEMMA SizeIsUnits ==
  ASSUME WellTyped, NEW ps \in SUBSET Projects
  PROVE  SizeOf(ps) = Cardinality(Units(Size, ps))
<1>. DEFINE Sum(g) == g = [s \in SUBSET ps |->
              IF s = {} THEN 0
              ELSE project[CHOOSE x \in s : TRUE].size + g[s \ {CHOOSE x \in s : TRUE}]]
            u == [s \in SUBSET ps |-> Cardinality(Units(Size, s))]
<1>n. \A p \in Projects : project[p].size \in Nat
  BY DEF WellTyped, TypeOK, Rows
<1>f. IsFiniteSet(ps)
  BY LengthsAssumption, FS_Subset
<1>1. Sum(u)
  <2>. SUFFICES ASSUME NEW s \in SUBSET ps
                PROVE  u[s] = IF s = {} THEN 0
                              ELSE project[CHOOSE x \in s : TRUE].size + u[s \ {CHOOSE x \in s : TRUE}]
    OBVIOUS
  <2>1. CASE s = {}
    <3>1. Units(Size, {}) = {}
      BY DEF Units
    <3>. QED BY <2>1, <3>1, FS_EmptySet
  <2>2. CASE s # {}
    <3>. DEFINE x == CHOOSE x \in s : TRUE
    <3>1. x \in s
      BY <2>2
    <3>. HIDE DEF x
    <3>2. IsFiniteSet(s) /\ \A y \in s : Size[y] \in Nat
      BY <1>f, <1>n, FS_Subset DEF Size
    <3>3. Cardinality(Units(Size, s)) = Cardinality(Units(Size, s \ {x})) + Size[x]
      BY <3>1, <3>2, UnitsAddUp
    <3>4. Cardinality(Units(Size, s \ {x})) \in Nat
      BY <3>2, UnitsAreFinite, FS_CardinalityType
    <3>5. u[s] = Cardinality(Units(Size, s)) /\ u[s \ {x}] = Cardinality(Units(Size, s \ {x}))
      OBVIOUS
    <3>6. Size[x] = project[x].size /\ Size[x] \in Nat
      BY <1>n, <3>1 DEF Size
    <3>. HIDE DEF u
    <3>7. u[s] = project[x].size + u[s \ {x}]
      BY <3>3, <3>4, <3>5, <3>6
    <3>. QED BY <2>2, <3>7 DEF x
  <2>. QED BY <2>1, <2>2
<1>. DEFINE it == CHOOSE g : Sum(g)
<1>2. SizeOf(ps) = it[ps]
  BY Zenon DEF SizeOf, FoldSet, MapThenFoldSet
<1>3. Sum(it)
  BY <1>1, Zenon
<1>. HIDE DEF it
<1>4. \A s \in SUBSET ps : it[s] = u[s]
  <2>. DEFINE T == {s \in SUBSET ps : it[s] # u[s]}
  <2>. SUFFICES ASSUME T # {} PROVE FALSE
    OBVIOUS
  <2>1. PICK s \in T : \A t \in T : t \subseteq s => t = s
    <3>1. T \in SUBSET (SUBSET ps)
      OBVIOUS
    <3>. HIDE DEF T
    <3>. QED BY <3>1, <1>f, MinimalSubset
  <2>. DEFINE x == CHOOSE x \in s : TRUE
  <2>. HIDE DEF u
  <2>2. /\ s # {} => it[s] = project[x].size + it[s \ {x}] /\ u[s] = project[x].size + u[s \ {x}]
        /\ s = {} => it[s] = 0 /\ u[s] = 0
    BY <1>1, <1>3
  <2>3. s # {} => x \in s
    OBVIOUS
  <2>. HIDE DEF x
  <2>4. s # {} => s \ {x} \in SUBSET ps /\ s \ {x} \notin T
    BY <2>1, <2>3
  <2>. QED BY <2>1, <2>2, <2>4
<1>. QED BY <1>2, <1>4

LEMMA SizesAddUp ==
  WellTyped => \A p \in Projects : SizeOf(Projects) = SizeOf(Projects \ {p}) + project[p].size
<1>. SUFFICES ASSUME WellTyped, NEW p \in Projects
              PROVE  SizeOf(Projects) = SizeOf(Projects \ {p}) + project[p].size
  OBVIOUS
<1>1. Size[p] = project[p].size /\ \A q \in Projects : Size[q] \in Nat
  BY DEF Size, WellTyped, TypeOK, Rows
<1>2. Cardinality(Units(Size, Projects)) = Cardinality(Units(Size, Projects \ {p})) + Size[p]
  BY <1>1, UnitsAddUp, LengthsAssumption
<1>3. /\ SizeOf(Projects) = Cardinality(Units(Size, Projects))
      /\ SizeOf(Projects \ {p}) = Cardinality(Units(Size, Projects \ {p}))
  BY SizeIsUnits
<1>. QED BY <1>1, <1>2, <1>3

LEMMA SizesAddUpNext ==
  (WellTyped => \A p \in Projects : SizeOf(Projects) = SizeOf(Projects \ {p}) + project[p].size)'
<1>1. WellTyped => \A p \in Projects : SizeOf(Projects) = SizeOf(Projects \ {p}) + project[p].size
  BY SizesAddUp
<1>. QED BY <1>1, PTL

LEMMA SizeIsUnitsNext ==
  (WellTyped => \A ps \in SUBSET Projects : SizeOf(ps) = Cardinality(Units(Size, ps)))'
<1>1. WellTyped => \A ps \in SUBSET Projects : SizeOf(ps) = Cardinality(Units(Size, ps))
  BY SizeIsUnits
<1>. QED BY <1>1, PTL

\* Projects that do not grow do not add up to more.
LEMMA SizesShrink ==
  ASSUME WellTyped, WellTyped', NEW ps \in SUBSET Projects,
         \A p \in ps : project'[p].size <= project[p].size
  PROVE  /\ SizeOf(ps)' <= SizeOf(ps) /\ SizeOf(ps) \in Nat /\ SizeOf(ps)' \in Nat
<1>1. \A p \in Projects : /\ Size[p] \in Nat /\ Size'[p] \in Nat
                           /\ Size[p] = project[p].size /\ Size'[p] = project'[p].size
  BY DEF Size, WellTyped, TypeOK, Rows
<1>2. Units(Size', ps) \subseteq Units(Size, ps)
  BY <1>1 DEF Units
<1>3. IsFiniteSet(Units(Size, ps))
  BY <1>1, UnitsAreFinite, LengthsAssumption
<1>4. /\ Cardinality(Units(Size', ps)) <= Cardinality(Units(Size, ps))
      /\ Cardinality(Units(Size, ps)) \in Nat /\ Cardinality(Units(Size', ps)) \in Nat
  BY <1>2, <1>3, FS_Subset, FS_CardinalityType
<1>5. SizeOf(ps) = Cardinality(Units(Size, ps))
  BY SizeIsUnits
<1>6. SizeOf(ps)' = Cardinality(Units(Size', ps))
  BY SizeIsUnitsNext
<1>. QED BY <1>4, <1>5, <1>6

\* There is room for a commit that has passed the quota.
RoomFor(c) ==
  (req[c].project # "none" /\ req[c].at \in {"flush"} \cup Holding)
    => Fits(req[c].project, req[c].tree)
Roomy == WithinQuota /\ \A c \in Clients : RoomFor(c)

LEMMA RoomyIdle == \A c \in Clients : ~Open(c) => RoomFor(c)
  BY DEF Open, RoomFor, Holding
LEMMA RoomyIdleNext == (\A c \in Clients : ~Open(c) => RoomFor(c))'
  BY RoomyIdle, PTL

\* A step that keeps the sizes and brings c no nearer to its rows.
LEMMA RoomyMoves ==
  ASSUME WellTyped, WellTyped', Roomy, RowsStay,
         \A c \in Clients : \/ ~Open(c)'
                             \/ req'[c].project = "none" \/ req'[c].at \notin {"flush"} \cup Holding
                             \/ /\ Fits(req[c].project, req[c].tree) /\ req[c].project \in Projects
                                /\ req'[c].project = req[c].project /\ req'[c].tree = req[c].tree
  PROVE  Roomy'
<1>s. \A p \in Projects : project'[p].size <= project[p].size
  BY DEF RowsStay, WellTyped, TypeOK, Rows
<1>1. WithinQuota'
  <2>1. SizeOf(Projects)' <= SizeOf(Projects) /\ SizeOf(Projects)' \in Nat /\ SizeOf(Projects) \in Nat
    BY <1>s, SizesShrink
  <2>. QED BY <2>1, SizesAssumption DEF Roomy, WithinQuota
<1>2. ASSUME NEW c \in Clients PROVE RoomFor(c)'
  <2>1. CASE ~Open(c)'
    BY <2>1, RoomyIdleNext
  <2>2. CASE req'[c].project = "none" \/ req'[c].at \notin {"flush"} \cup Holding
    BY <2>2 DEF RoomFor
  <2>3. CASE /\ Fits(req[c].project, req[c].tree) /\ req[c].project \in Projects
             /\ req'[c].project = req[c].project /\ req'[c].tree = req[c].tree
    <3>1. \A p \in Projects : /\ SizeOf(Projects \ {p})' <= SizeOf(Projects \ {p})
                              /\ SizeOf(Projects \ {p})' \in Nat /\ SizeOf(Projects \ {p}) \in Nat
      <4>1. TAKE p \in Projects
      <4>2. \A q \in Projects \ {p} : project'[q].size <= project[q].size
        BY <1>s
      <4>3. Projects \ {p} \in SUBSET Projects
        OBVIOUS
      <4>. QED BY <4>2, <4>3, SizesShrink
    <3>2. Cardinality(req[c].tree) \in Nat
      BY TreeHasSize DEF WellTyped, TypeOK, Requests
    <3>3. PICK p \in Projects : p = req[c].project /\ req'[c].project = p
      BY <2>3
    <3>4. SizeOf(Projects \ {p}) + Cardinality(req[c].tree) <= Quota
      BY <2>3, <3>3, Zenon DEF Fits
    <3>5. SizeOf(Projects \ {p})' + Cardinality(req[c].tree) <= Quota
      BY <3>1, <3>2, <3>4
    <3>6. (SizeOf(Projects \ {p}) + Cardinality(req[c].tree) <= Quota)'
      BY <2>3, <3>5
    <3>7. (SizeOf(Projects \ {req[c].project}) + Cardinality(req[c].tree) <= Quota)'
      BY <3>3, <3>6
    <3>. QED BY <3>7, Zenon DEF RoomFor, Fits
  <2>. QED BY <2>1, <2>2, <2>3
<1>. QED BY <1>1, <1>2 DEF Roomy

LEMMA RoomyAsk ==
  ASSUME MaxOpen = 1, WellTyped, WellTyped', Serial, Roomy, NEW c \in Clients, Ask(c)
  PROVE  Roomy'
<1>s. /\ MayOpen(c) /\ OthersWait(c) /\ RowsStay
      /\ OpensAlone(c) \/ \E p \in Projects : OpensWith(c, p) \/ StartsAnew(c, p)
  BY AskSteps
<1>1. \A d \in Clients : ~Open(d)
  BY <1>s, OpensAmongIdle DEF Serial
<1>2. \A d \in Clients \ {c} : ~Open(d)'
  BY <1>1, <1>s DEF OthersWait, Open
<1>3. \/ ~Open(c)'
      \/ req'[c].project = "none" \/ req'[c].at \notin {"flush"} \cup Holding
  BY <1>1, <1>s DEF OpensAlone, OpensWith, StartsAnew, Open, Holding
<1>. QED BY <1>2, <1>3, <1>s, RoomyMoves

LEMMA RoomyHandle ==
  ASSUME WellTyped, WellTyped', Serial, Roomy, NEW c \in Clients, Handle(c), ~Finish(c)
  PROVE  Roomy'
<1>t. req \in [Clients -> Requests] /\ req[c] \in Requests /\ WellFormed(req[c])
  BY DEF WellTyped, TypeOK
<1>s. OthersWait(c) /\ RowsStay /\ (GoesOn(c) \/ req'[c] = Idle)
  BY HandleSteps
<1>0. Open(c)
  BY DEF Open, Handle, Tree, Insert, CommitBlobs, CommitQuota, CommitFlush, Used, Drop, Finish,
         PurgeRows, Mark, Unmark, SetDeleted
<1>1. \A d \in Clients \ {c} : ~Open(d)'
  BY <1>0, <1>s DEF Serial, OneOpen, OthersWait, Open
<1>2. CASE req'[c] = Idle
  <2>1. ~Open(c)'
    BY <1>2 DEF Open, Idle
  <2>. QED BY <2>1, <1>1, <1>s, RoomyMoves
<1>3. CASE /\ GoesOn(c) /\ req'[c].project # "none" /\ req'[c].at \in {"flush"} \cup Holding
  <2>1. /\ req'[c].project = req[c].project /\ req'[c].tree = req[c].tree
        /\ req[c].project \in Projects
        /\ req[c].at \in {"quota", "flush", "used", "drop"}
    BY <1>3, <1>t DEF GoesOn, SameRequest, StageBefore, Holding, Requests, WellFormed, OfAccount
  <2>2. Fits(req[c].project, req[c].tree)
    <3>1. CASE req[c].at = "quota"
      <4>1. CommitQuota(c)
        BY <3>1 DEF Handle, Tree, Insert, CommitBlobs, CommitFlush, Used, Drop, Finish,
                    PurgeRows, Mark, Unmark, SetDeleted
      <4>2. req'[c] # Idle
        BY <1>3 DEF Idle
      <4>. QED BY <4>1, <4>2, <1>t DEF CommitQuota, End
    <3>2. CASE req[c].at # "quota"
      BY <3>2, <2>1 DEF Roomy, RoomFor, Holding
    <3>. QED BY <3>1, <3>2
  <2>. QED BY <2>1, <2>2, <1>1, <1>s, RoomyMoves
<1>4. CASE req'[c].project = "none" \/ req'[c].at \notin {"flush"} \cup Holding
  BY <1>4, <1>1, <1>s, RoomyMoves
<1>. QED BY <1>2, <1>3, <1>4, <1>s

\* The sizes that the others have are those that the quota was asked about.
LEMMA RoomyFinish ==
  ASSUME WellTyped, WellTyped', Serial, Serial', Roomy, NEW c \in Clients, Finish(c)
  PROVE  Roomy'
<1>t. req \in [Clients -> Requests] /\ req[c] \in Requests /\ req[c].at = "commit"
  BY DEF WellTyped, TypeOK, Finish
<1>1. \A d \in Clients : ~Open(d)'
  <2>1. \A d \in Clients \ {c} : req[d].at = "idle"
    BY <1>t DEF Serial, OneOpen, Open
  <2>2. req'[c] = Idle
    BY FinishSteps
  <2>3. \A d \in Clients \ {c} : req'[d].at = req[d].at
    BY FinishSteps
  <2>. QED BY <2>1, <2>2, <2>3 DEF Open, Idle
<1>2. ASSUME NEW q \in Projects, q # req[c].project
      PROVE  project'[q].size <= project[q].size
  <2>1. project'[q] = NoRow \/ project'[q] = project[q]
    BY <1>2, FinishSteps
  <2>. QED BY <2>1 DEF NoRow, WellTyped, TypeOK, Rows
<1>3. CASE req[c].project = "none"
  <2>1. \A q \in Projects : project'[q].size <= project[q].size
    BY <1>2, <1>3, NamesAssumption
  <2>2. /\ SizeOf(Projects)' <= SizeOf(Projects)
        /\ SizeOf(Projects)' \in Nat /\ SizeOf(Projects) \in Nat
    BY <2>1, SizesShrink
  <2>. QED BY <2>2, <1>1, RoomyIdleNext, SizesAssumption DEF Roomy, WithinQuota
<1>4. ASSUME NEW p \in Projects, p = req[c].project PROVE Roomy'
  <2>1. \A q \in Projects \ {p} : project'[q].size <= project[q].size
    BY <1>2, <1>4
  <2>2. /\ SizeOf(Projects \ {p})' <= SizeOf(Projects \ {p})
        /\ SizeOf(Projects \ {p})' \in Nat /\ SizeOf(Projects \ {p}) \in Nat
    <3>1. Projects \ {p} \in SUBSET Projects
      OBVIOUS
    <3>. QED BY <3>1, <2>1, SizesShrink
  <2>3. project'[p].size = Cardinality(req[c].tree)
    <3>1. project'[p] = RowAfter(c)[p]
      BY DEF Finish
    <3>. QED BY <3>1, <1>4 DEF RowAfter
  <2>4. SizeOf(Projects)' = SizeOf(Projects \ {p})' + project'[p].size
    BY SizesAddUpNext
  <2>5. SizeOf(Projects \ {p}) + Cardinality(req[c].tree) <= Quota
    <3>1. Fits(req[c].project, req[c].tree)
      BY <1>4, <1>t, NamesAssumption DEF Roomy, RoomFor, Holding
    <3>. QED BY <3>1, <1>4, Zenon DEF Fits
  <2>6. Cardinality(req[c].tree) \in Nat
    BY <1>t, TreeHasSize DEF Requests
  <2>7. SizeOf(Projects)' <= Quota
    BY <2>2, <2>3, <2>4, <2>5, <2>6, SizesAssumption
  <2>. QED BY <2>7, <1>1, RoomyIdleNext DEF Roomy, WithinQuota
<1>. QED BY <1>3, <1>4, <1>t DEF Requests

LEMMA RoomyStep ==
  ASSUME MaxOpen = 1, WellTyped, WellTyped', Serial, Serial', Roomy, [Next]_vars
  PROVE  Roomy'
<1>1. ASSUME NEW c \in Clients, Abort(c) PROVE Roomy'
  <2>1. OthersWait(c) /\ RowsStay /\ req'[c] = Idle
    BY <1>1, AbortSteps
  <2>2. \A d \in Clients : ~Open(d)'
    BY <1>1, <2>1 DEF Abort, Serial, OneOpen, Open, OthersWait, Idle
  <2>. QED BY <2>1, <2>2, RoomyMoves
<1>2. ASSUME RowsStay, req' = req PROVE Roomy'
  <2>1. ASSUME NEW d \in Clients
        PROVE  \/ req'[d].project = "none" \/ req'[d].at \notin {"flush"} \cup Holding
               \/ /\ Fits(req[d].project, req[d].tree) /\ req[d].project \in Projects
                  /\ req'[d].project = req[d].project /\ req'[d].tree = req[d].tree
    BY <1>2 DEF Roomy, RoomFor, WellTyped, TypeOK, Requests
  <2>. QED BY <1>2, <2>1, RoomyMoves
<1>3. ASSUME NEW p \in Projects, Age(p) PROVE Roomy'
  BY <1>2, <1>3, AgeSteps
<1>4. CASE UNCHANGED vars
  BY <1>2, <1>4 DEF vars, RowsStay
<1>. QED BY <1>1, <1>3, <1>4, RoomyAsk, RoomyHandle, RoomyFinish DEF Next

LEMMA RoomyInit == Init => Roomy
<1>. SUFFICES ASSUME Init PROVE Roomy
  OBVIOUS
<1>t. WellTyped
  BY TypesInit
<1>1. \A c \in Clients : RoomFor(c)
  BY RoomyIdle DEF Init, Open, Idle
<1>2. Units(Size, Projects) = {}
  BY DEF Units, Size, Init, NoRow
<1>3. SizeOf(Projects) = 0
  <2>1. SizeOf(Projects) = Cardinality(Units(Size, Projects))
    BY <1>t, SizeIsUnits
  <2>. QED BY <2>1, <1>2, FS_EmptySet, Zenon
<1>. QED BY <1>1, <1>3, SizesAssumption DEF Roomy, WithinQuota

\* WithinQuota, for requests handled one after the other: what the projects of an
\* account add up to never passes QUOTA, whichever computers commit to which of
\* them and whatever is deleted, restored and purged in between.
THEOREM SerialWithinQuota == ASSUME MaxOpen = 1 PROVE Spec => []WithinQuota
<1>1. Roomy => WithinQuota
  BY DEF Roomy
<1>2. WellTyped /\ WellTyped' /\ Serial /\ Serial' /\ Roomy /\ [Next]_vars => Roomy'
  BY RoomyStep
<1>. QED BY <1>1, <1>2, RoomyInit, Typed, SerialHolds, PTL DEF Spec
=============================================================================
