---------------------------- MODULE ProjectSync ----------------------------
(***************************************************************************)
(* Project sync: api/routes/projects_sync.py, for the projects of one      *)
(* account and the computers they are on.                                  *)
(*                                                                         *)
(* A request is handled by a thread of its own, in one database            *)
(* transaction.  The database is external: PostgreSQL at its default       *)
(* isolation, READ COMMITTED, where a statement sees what was committed    *)
(* before it and what its own transaction wrote, a write waits for the     *)
(* transaction that wrote the row before, and a primary key refuses a      *)
(* second row.  So each statement of a handler is a step, and between two  *)
(* of them the other requests go on.  What a transaction wrote and has not *)
(* committed is in its request.                                            *)
(*                                                                         *)
(* The computer is external too (docs/sync-api.md): it names the revision  *)
(* of the last answer it got, and an answer may be lost.                   *)
(*                                                                         *)
(* A file is known by its content, and every content has size 1.           *)
(***************************************************************************)
EXTENDS Integers, FiniteSets, FiniteSetsExt

CONSTANTS
  Clients,            \* the computers, each with at most one request open
  Projects,           \* project ids
  Blobs,              \* file contents, by their SHA-256
  Quota,              \* QUOTA
  MaxProject,         \* MAX_PROJECT
  Keep,               \* KEEP_REVISIONS
  MaxOpen,            \* bound: requests open at a time
  MaxCommits,         \* bound: accepted commits of a project
  MaxAges,            \* bound: how often a project stays deleted for 30 days
  MaxAborts           \* bound: transactions that fail for a reason outside the code

ASSUME NamesAssumption == "none" \notin Clients \cup Projects
\* A SHA-256 and a project id have a bounded length.
ASSUME LengthsAssumption == IsFiniteSet(Blobs) /\ IsFiniteSet(Projects)
ASSUME SizesAssumption ==
  /\ Quota \in Nat /\ MaxProject \in Nat /\ Keep \in Nat \ {0}
  /\ MaxOpen \in Nat \ {0} /\ MaxCommits \in Nat /\ MaxAges \in Nat /\ MaxAborts \in Nat

VARIABLES
  \* committed
  project,            \* SyncedProject
  files,              \* SyncedFile: the content of the current tree
  revisions,          \* ProjectRevision: the kept trees
  blobs,              \* FileBlob
  \* of the transactions under way
  req,                \* what each client's request has read and written
  lock,               \* the request with an uncommitted row for a project
  \* on the computers
  seen,               \* the last answer about a project: its ETag, the tree it held
  \* for the properties and the bounds
  stamp,              \* how many commits a project has had, over all its lives
  ages,
  aborts

vars == <<project, files, revisions, blobs, req, lock, seen, stamp, ages, aborts>>

Rows == [revision : Nat, deleted : {"no", "recent", "old"}, size : Nat]
NoRow == [revision |-> 0, deleted |-> "no", size |-> 0]
IsRow(row) == row.revision > 0
Exists(p) == IsRow(project[p])

Trees == [revision : Nat \ {0}, files : SUBSET Blobs]

Stages == {"idle", "tree", "insert", "blobs", "quota", "flush", "rows", "used",
           "drop", "commit", "mark", "unmark"}

\* The request of a client.  For one about a project: project and, of a commit,
\* tree, what it asks; row, what it read of the project.  For the collection of
\* blobs: purged, the projects it deletes, with the rows it deleted of theirs;
\* used, the blobs it found in use; dropped, those it deleted.  An upload holds
\* what it is about to insert in tree.
Requests ==
  [at : Stages, project : Projects \cup {"none"}, tree : SUBSET Blobs, row : Rows,
   purged : SUBSET Projects, goneFiles : [Projects -> SUBSET Blobs],
   goneRevisions : [Projects -> SUBSET Trees], used : SUBSET Blobs,
   dropped : SUBSET Blobs]
Idle ==
  [at |-> "idle", project |-> "none", tree |-> {}, row |-> NoRow, purged |-> {},
   goneFiles |-> [p \in Projects |-> {}], goneRevisions |-> [p \in Projects |-> {}],
   used |-> {}, dropped |-> {}]

IsCommit(c) == req[c].project # "none"
MayOpen(c) ==
  req[c].at = "idle" /\ Cardinality({d \in Clients : req[d].at # "idle"}) < MaxOpen

Unlocked(p) == lock[p] = "none"

Released(c) == [p \in Projects |-> IF lock[p] = c THEN "none" ELSE lock[p]]

SizeOf(ps) == FoldSet(LAMBDA p, n : project[p].size + n, 0, ps)

Database == <<project, files, revisions, blobs>>
Observed == <<seen, stamp, ages, aborts>>

Init ==
  /\ project = [p \in Projects |-> NoRow]
  /\ files = [p \in Projects |-> {}]
  /\ revisions = [p \in Projects |-> {}]
  /\ blobs = {}
  /\ req = [c \in Clients |-> Idle]
  /\ lock = [p \in Projects |-> "none"]
  /\ seen = [c \in Clients |-> [p \in Projects |-> [etag |-> 0, stamp |-> 0]]]
  /\ stamp = [p \in Projects |-> 0]
  /\ ages = 0
  /\ aborts = 0

GoOn(c, r) == req' = [req EXCEPT ![c] = r]
Goto(c, stage) == req' = [req EXCEPT ![c].at = stage]
End(c) == req' = [req EXCEPT ![c] = Idle]

\* What the If-Match header names; 0 stands for "*".
Base(c, p) == seen[c][p].etag

-----------------------------------------------------------------------------
(* get_project, and the tree in the body of a 409 *)

AskTree(c, p, row) ==
  GoOn(c, [Idle EXCEPT !.at = "tree", !.project = p, !.row = row])

GetProject(c, p) ==
  /\ MayOpen(c)
  /\ Exists(p)
  /\ AskTree(c, p, project[p])
  /\ UNCHANGED <<Database, lock, Observed>>

\* 404, here or from a commit that named a revision: "Sync it again to put it
\* back", and the computer starts anew.
NotFound(c, p) ==
  /\ MayOpen(c)
  /\ ~Exists(p)
  /\ seen' = [seen EXCEPT ![c][p] = [etag |-> 0, stamp |-> 0]]
  /\ UNCHANGED <<Database, req, lock, stamp, ages, aborts>>

\* The files are read by a statement of their own.
Tree(c) ==
  /\ req[c].at = "tree"
  /\ LET p == req[c].project IN
       seen' = [seen EXCEPT ![c][p] = [etag |-> req[c].row.revision, stamp |-> stamp[p]]]
  /\ End(c)
  /\ UNCHANGED <<Database, lock, stamp, ages, aborts>>

-----------------------------------------------------------------------------
(* upload_blobs *)

\* What is there already and how much room there is.
Upload(c, contents) ==
  /\ MayOpen(c)
  /\ Cardinality(blobs \cup contents) <= Quota + MaxProject
  /\ GoOn(c, [Idle EXCEPT !.at = "insert", !.tree = contents \ blobs])
  /\ UNCHANGED <<Database, lock, Observed>>

\* All of it is stored, or none where another upload was first.
Insert(c) ==
  /\ req[c].at = "insert"
  /\ blobs' = IF req[c].tree \cap blobs = {} THEN blobs \cup req[c].tree ELSE blobs
  /\ End(c)
  /\ UNCHANGED <<project, files, revisions, lock, Observed>>

-----------------------------------------------------------------------------
(* commit_project *)

IsConflict(row, base) == IsRow(row) /\ base # row.revision

Commit(c, p, tree) ==
  /\ MayOpen(c)
  /\ stamp[p] < MaxCommits
  /\ ~IsConflict(project[p], Base(c, p))
  /\ IsRow(project[p]) \/ Base(c, p) = 0
  /\ GoOn(c, [Idle EXCEPT !.at = "blobs", !.project = p, !.tree = tree, !.row = project[p]])
  /\ UNCHANGED <<Database, lock, Observed>>

CommitConflict(c, p) ==
  /\ MayOpen(c)
  /\ IsConflict(project[p], Base(c, p))
  /\ AskTree(c, p, project[p])
  /\ UNCHANGED <<Database, lock, Observed>>

\* The blobs of the tree.
HasBlobs(tree) == tree \subseteq blobs

CommitBlobs(c) ==
  /\ req[c].at = "blobs"
  /\ IF HasBlobs(req[c].tree) /\ Cardinality(req[c].tree) <= MaxProject
       THEN Goto(c, "quota")
       ELSE End(c)
  /\ UNCHANGED <<Database, lock, Observed>>

\* Mutant: the project itself is left out of its account.
FitsOthers(p, tree) == SizeOf(Projects \ {p}) <= Quota
Fits(p, tree) == SizeOf(Projects \ {p}) + Cardinality(tree) <= Quota

CommitQuota(c) ==
  /\ req[c].at = "quota"
  /\ IF Fits(req[c].project, req[c].tree) THEN Goto(c, "flush") ELSE End(c)
  /\ UNCHANGED <<Database, lock, Observed>>

\* The key of a project, of a revision; the row an update expects.
\* Mutant: project_revisions has a key of its own.
KeysRefuseProjects(p, row) == IsRow(row) # Exists(p)
KeysRefuse(p, row) ==
  \/ IsRow(row) # Exists(p)
  \/ row.revision + 1 \in {r.revision : r \in revisions[p]}

\* The last revision that goes when n is new.
\* Mutant: one revision fewer is kept than the limit says.
LastGoneLater(n) == n - Keep + 1
LastGone(n) == n - Keep

\* Mutant: a new revision is counted twice.
NextRevisionTwice(c) == req[c].row.revision + 2
NextRevision(c) == req[c].row.revision + 1

\* The rows that a commit deletes.
OutOfTree(c) == files[req[c].project] \ req[c].tree
OutOfKept(c) == {r \in revisions[req[c].project] : r.revision <= LastGone(NextRevision(c))}

\* session.flush, once no other transaction has one of its rows.
CommitFlush(c) ==
  /\ req[c].at = "flush"
  /\ LET p == req[c].project IN
       /\ Unlocked(p)
       /\ \A d \in Clients : OutOfTree(c) \cap req[d].goneFiles[p] = {}
       /\ IF KeysRefuse(p, req[c].row)
            THEN End(c) /\ UNCHANGED lock
            ELSE Goto(c, "used") /\ lock' = [lock EXCEPT ![p] = c]
  /\ UNCHANGED <<Database, Observed>>

-----------------------------------------------------------------------------
(* What a transaction sees, and leaves when it commits *)

FilesAfter(c) ==
  [p \in Projects |->
     IF p = req[c].project THEN req[c].tree ELSE files[p] \ req[c].goneFiles[p]]

RevisionsAfter(c) ==
  [p \in Projects |->
     IF p = req[c].project
       THEN (revisions[p] \ OutOfKept(c)) \cup {[revision |-> NextRevision(c), files |-> req[c].tree]}
       ELSE revisions[p] \ req[c].goneRevisions[p]]

\* deleted_at is part of the update only if it was set when the row was read.
RowAfter(c) ==
  [p \in Projects |->
     IF p = req[c].project
       THEN [revision |-> NextRevision(c), size |-> Cardinality(req[c].tree),
             deleted |-> IF req[c].row.deleted = "no" THEN project[p].deleted ELSE "no"]
       ELSE IF p \in req[c].purged THEN NoRow ELSE project[p]]

-----------------------------------------------------------------------------
(* _collect_blobs, at the end of a commit and of list_projects *)

\* Mutant: the kept revisions are not looked at.
InUseByTrees(fs, rs) == UNION {fs[p] : p \in Projects}
InUse(fs, rs) ==
  (UNION {fs[p] : p \in Projects}) \cup (UNION {r.files : r \in UNION {rs[p] : p \in Projects}})

\* The trees and the kept revisions are read one after the other; a tree that
\* changes in between is among the revisions, so one step stands for both.
Used(c) ==
  /\ req[c].at = "used"
  /\ GoOn(c, [req[c] EXCEPT !.used = InUse(FilesAfter(c), RevisionsAfter(c)), !.at = "drop"])
  /\ UNCHANGED <<Database, lock, Observed>>

Drop(c) ==
  /\ req[c].at = "drop"
  /\ GoOn(c, [req[c] EXCEPT !.dropped = blobs \ req[c].used, !.used = {}, !.at = "commit"])
  /\ UNCHANGED <<Database, lock, Observed>>

\* session.commit.  The computer gets its answer, or does not.  Of two
\* transactions that delete a blob, the second finds it gone.
Finish(c) ==
  /\ req[c].at = "commit"
  /\ \A p \in req[c].purged : Unlocked(p)
  /\ project' = RowAfter(c)
  /\ files' = FilesAfter(c)
  /\ revisions' = RevisionsAfter(c)
  /\ blobs' = blobs \ req[c].dropped
  /\ lock' = Released(c)
  /\ req' = [d \in Clients |->
               IF d = c THEN Idle ELSE [req[d] EXCEPT !.dropped = @ \ req[c].dropped]]
  /\ IF IsCommit(c)
       THEN LET p == req[c].project
                answer == [etag |-> NextRevision(c), stamp |-> stamp[p] + 1]
            IN  /\ stamp' = [stamp EXCEPT ![p] = @ + 1]
                /\ seen' \in {seen, [seen EXCEPT ![c][p] = answer]}
       ELSE UNCHANGED <<stamp, seen>>
  /\ UNCHANGED <<ages, aborts>>

-----------------------------------------------------------------------------
(* list_projects, with _purge_deleted; the list itself is left out *)

ListProjects(c) ==
  /\ MayOpen(c)
  /\ LET old == {p \in Projects : project[p].deleted = "old"} IN
       GoOn(c, [Idle EXCEPT !.purged = old, !.at = IF old = {} THEN "used" ELSE "rows"])
  /\ UNCHANGED <<Database, lock, Observed>>

\* Mutant: the revisions are forgotten.
GoneRevisionsForgotten(ps) == [p \in Projects |-> {}]
GoneRevisions(ps) == [p \in Projects |-> IF p \in ps THEN revisions[p] ELSE {}]
GoneFiles(ps) == [p \in Projects |-> IF p \in ps THEN files[p] ELSE {}]

\* The rows of the old projects there are now.  The projects themselves go with
\* the commit: sessions do not flush on their own (api/db/init_db.py:68).
PurgeRows(c) ==
  /\ req[c].at = "rows"
  /\ \A p \in req[c].purged, d \in Clients :
       lock[p] = d => OutOfTree(d) = {} /\ OutOfKept(d) = {}
  /\ GoOn(c, [req[c] EXCEPT
       !.goneFiles = GoneFiles(req[c].purged),
       !.goneRevisions = GoneRevisions(req[c].purged),
       !.at = "used"])
  /\ UNCHANGED <<Database, lock, Observed>>

-----------------------------------------------------------------------------
(* delete_project, restore_project *)

Names(base, row) == base \in {0, row.revision}

DeleteProject(c, p) ==
  /\ MayOpen(c)
  /\ Exists(p)
  /\ Names(Base(c, p), project[p])
  /\ project[p].deleted = "no"
  /\ GoOn(c, [Idle EXCEPT !.at = "mark", !.project = p, !.row = project[p]])
  /\ UNCHANGED <<Database, lock, Observed>>

DeleteConflict(c, p) ==
  /\ MayOpen(c)
  /\ Exists(p)
  /\ ~Names(Base(c, p), project[p])
  /\ AskTree(c, p, project[p])
  /\ UNCHANGED <<Database, lock, Observed>>

RestoreProject(c, p) ==
  /\ MayOpen(c)
  /\ project[p].deleted # "no"
  /\ GoOn(c, [Idle EXCEPT !.at = "unmark", !.project = p, !.row = project[p]])
  /\ UNCHANGED <<Database, lock, Observed>>

\* The update of deleted_at, and the commit: it names the row by its key, and
\* fails if the row is gone.
SetDeleted(c, stage, deleted) ==
  /\ req[c].at = stage
  /\ LET p == req[c].project IN
       /\ Unlocked(p)
       /\ project' = IF Exists(p) THEN [project EXCEPT ![p].deleted = deleted] ELSE project
  /\ End(c)
  /\ UNCHANGED <<files, revisions, blobs, lock, Observed>>

Mark(c) == SetDeleted(c, "mark", "recent")
Unmark(c) == SetDeleted(c, "unmark", "no")

-----------------------------------------------------------------------------
(* Around the code *)

\* DELETED_KEPT goes by.
Age(p) ==
  /\ project[p].deleted = "recent"
  /\ ages < MaxAges
  /\ ages' = ages + 1
  /\ project' = [project EXCEPT ![p].deleted = "old"]
  /\ UNCHANGED <<files, revisions, blobs, req, lock, seen, stamp, aborts>>

\* The server stops, the database is out of reach or ends a deadlock.
Abort(c) ==
  /\ req[c].at # "idle"
  /\ aborts < MaxAborts
  /\ aborts' = aborts + 1
  /\ lock' = Released(c)
  /\ End(c)
  /\ UNCHANGED <<Database, seen, stamp, ages>>

-----------------------------------------------------------------------------

Ask(c) ==
  \/ \E p \in Projects :
       \/ GetProject(c, p) \/ NotFound(c, p) \/ CommitConflict(c, p)
       \/ DeleteProject(c, p) \/ DeleteConflict(c, p) \/ RestoreProject(c, p)
       \/ \E tree \in SUBSET Blobs : Commit(c, p, tree)
  \/ \E contents \in SUBSET Blobs \ {{}} : Upload(c, contents)
  \/ ListProjects(c)

Handle(c) ==
  \/ Tree(c) \/ Insert(c) \/ CommitBlobs(c) \/ CommitQuota(c) \/ CommitFlush(c)
  \/ Used(c) \/ Drop(c) \/ Finish(c) \/ PurgeRows(c) \/ Mark(c) \/ Unmark(c)

Next ==
  \/ \E c \in Clients : Ask(c) \/ Handle(c) \/ Abort(c)
  \/ \E p \in Projects : Age(p)

Spec == Init /\ [][Next]_vars

-----------------------------------------------------------------------------

\* Every variable has its type, and a row is held only by a request that goes on.
TypeOK ==
  /\ project \in [Projects -> Rows]
  /\ files \in [Projects -> SUBSET Blobs]
  /\ revisions \in [Projects -> SUBSET Trees]
  /\ blobs \subseteq Blobs
  /\ req \in [Clients -> Requests]
  /\ lock \in [Projects -> Clients \cup {"none"}]
  /\ seen \in [Clients -> [Projects -> [etag : Nat, stamp : Nat]]]
  /\ stamp \in [Projects -> Nat]
  /\ ages \in Nat /\ aborts \in Nat
  /\ \A p \in Projects : lock[p] # "none" => req[lock[p]].at \in {"used", "drop", "commit"}

\* "Nothing is overwritten without the client seeing it": a tree takes the place
\* of another only from a computer that got the other in an answer.
Overwrites(c, p) ==
  /\ req[c].at = "commit" /\ req[c].project = p
  /\ stamp'[p] # stamp[p] /\ Exists(p)

NothingOverwrittenUnseen ==
  [][\A c \in Clients, p \in Projects : Overwrites(c, p) => seen[c][p].stamp = stamp[p]]_vars

\* "Keeps the last 20 revisions per project": the trees kept of a project are
\* those of its last revisions, none missing, and the newest is the current one.
KeptRevisionsAreTheLast ==
  \A p \in Projects :
    Exists(p) =>
      LET n == project[p].revision IN
        /\ {r.revision : r \in revisions[p]} = {m \in 1 .. n : m > n - Keep}
        /\ [revision |-> n, files |-> files[p]] \in revisions[p]

\* An answer never holds an older tree than the revision it names: a computer
\* that has not got the newest tree is told so when it commits.
EtagIsNotNewer ==
  \A c \in Clients, p \in Projects : seen[c][p].etag <= seen[c][p].stamp

\* Every file of a project, as it is and as it was in a kept revision, can be
\* fetched: "Drop blobs that no current file and no kept revision uses."
ContentIsKept ==
  \A p \in Projects :
    files[p] \cup UNION {r.files : r \in revisions[p]} \subseteq blobs

\* "413 over quota": what the projects of an account add up to.
WithinQuota == SizeOf(Projects) <= Quota

\* "Deleted projects are purged": a project that is gone leaves no rows behind.
PurgedIsGone ==
  \A p \in Projects : ~Exists(p) => files[p] = {} /\ revisions[p] = {}
=============================================================================
