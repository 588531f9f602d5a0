------------------------------ MODULE VendorPin ------------------------------
(***************************************************************************)
(* The pinned vendor sources: scripts/initialize.py clones each repository *)
(* of upstream.lock.json, or takes an older clone to the new pin, and      *)
(* scripts/prepare_shell.py then applies the reviewed patches.  A run may  *)
(* fail or be killed at any command, in the middle of a checkout or of a   *)
(* patch, and the next run starts from what it finds.  Between runs the    *)
(* lock and the patches change with a pull, and somebody may edit a clone. *)
(*                                                                         *)
(* git checkout replaces the index and HEAD together at its end, after the *)
(* files; git apply --index writes the files, then the index.  A lock file *)
(* left by a killed git is not modelled.                                   *)
(***************************************************************************)
EXTENDS Naturals, Sequences, Functions

CONSTANTS
  Repo,        \* names in upstream.lock.json
  Order,       \* sequence of all of Repo: the order of the lock file
  Patched,     \* sequence of the repositories that prepare patches
  Core,        \* idax-core-runtime
  Patch,       \* revisions of patch files
  File,        \* [Patch -> the name of the file it is a revision of]
  Adds,        \* patches that add files to the repository
  Hand,        \* not a patch: an edit of a file that no patch touches
  MaxRelease,  \* bound: commits of this repository that are pulled
  MaxCommit,   \* bound: commits of a vendor repository
  Pin,         \* [release -> [Repo -> commit of upstream.lock.json]]
  Patches      \* [release -> [Repo -> sequence of patches]]

Release == 1 .. MaxRelease
ASSUME OrderAssumption ==
  /\ Order \in Seq(Repo) /\ Range(Order) = Repo
  /\ Patched \in Seq(Repo) \ {<<>>} /\ Core \in Repo \ Range(Patched)
ASSUME BoundAssumption == MaxRelease \in Nat \ {0} /\ MaxCommit \in Nat
ASSUME PatchAssumption ==
  /\ Hand \notin Patch /\ DOMAIN File = Patch /\ Adds \subseteq Patch
  /\ Patches \in [Release -> [Repo -> Seq(Patch)]]
  /\ \A n \in Release, r \in Range(Patched) : Patches[n][r] # <<>>
\* The patches of a release are revisions of different files, and no patch
\* file goes away as long as the pin stays.
ASSUME FileAssumption ==
  \A n \in Release, r \in Repo :
    /\ \A p, q \in Range(Patches[n][r]) : File[p] = File[q] => p = q
    /\ \A m \in 1 .. n : Pin[m][r] = Pin[n][r] =>
         \A p \in Range(Patches[m][r]) :
           \E q \in Range(Patches[n][r]) : File[p] = File[q]
\* A pin never goes back to an earlier commit.
ASSUME PinAssumption ==
  /\ Pin \in [Release -> [Repo -> 1 .. MaxCommit]]
  /\ \A m, n \in Release, r \in Repo : m <= n => Pin[m][r] <= Pin[n][r]

VARIABLES
  release,  \* the release of this repository that is checked out
  clone,    \* [Repo -> vendor/<name>]
  pc,       \* the next command of a run, or how it has just ended
  todo,     \* repositories the current loop has still to visit
  left,     \* patches of Head(todo) still to apply
  fresh     \* ghost: repositories cloned or taken to a new pin by this run

vars == <<release, clone, pc, todo, left, fresh>>

\* Commit 0 in the index: nothing was ever checked out.  Commit 0 in the tree:
\* none of the files, or files of several commits.  half: patches of which
\* only a part was written.
Clone == [dir : BOOLEAN, head : 0 .. MaxCommit, untracked : BOOLEAN,
          index : [commit : 0 .. MaxCommit, patches : SUBSET Patch],
          tree : [commit : 0 .. MaxCommit, patches : SUBSET (Patch \cup {Hand}),
                  half : SUBSET Patch]]
NoFiles == [index |-> [commit |-> 0, patches |-> {}],
            tree |-> [commit |-> 0, patches |-> {}, half |-> {}]]

Ended == pc \in {"idle", "done", "failed", "rejected"}

repo == Head(todo)
here == clone[repo]
pin == Pin[release][repo]

Init ==
  /\ release = 1
  /\ clone = [r \in Repo |-> [dir |-> FALSE, head |-> 0, untracked |-> FALSE,
                              index |-> NoFiles.index, tree |-> NoFiles.tree]]
  /\ pc = "idle"
  /\ todo = <<>> /\ left = <<>> /\ fresh = {}
-----------------------------------------------------------------------------
(***************************************************************************)
(* Between runs                                                            *)
(***************************************************************************)
\* update.py: git pull --ff-only of this repository.
Pull ==
  /\ Ended /\ release < MaxRelease
  /\ release' = release + 1
  /\ pc' = "idle"
  /\ UNCHANGED <<clone, todo, left, fresh>>

\* External: somebody edits a tracked file, or leaves a new one.
Edit(r) ==
  /\ Ended
  /\ clone[r].tree.commit # 0
  /\ \/ clone' = [clone EXCEPT ![r].tree.patches = @ \cup {Hand}]
     \/ clone' = [clone EXCEPT ![r].untracked = TRUE]
  /\ pc' = "idle"
  /\ UNCHANGED <<release, todo, left, fresh>>

Start ==
  /\ Ended
  /\ pc' = "pin" /\ todo' = Order /\ left' = <<>> /\ fresh' = {}
  /\ UNCHANGED <<release, clone>>
-----------------------------------------------------------------------------
(***************************************************************************)
(* initialize.py: the loop over the lock file                              *)
(***************************************************************************)
\* To the next repository, or to prepare.
PinNext ==
  IF Len(todo) > 1
  THEN pc' = "pin" /\ todo' = Tail(todo) /\ left' = <<>>
  ELSE /\ pc' = "untracked" /\ todo' = Patched
       /\ left' = Patches[release][Head(Patched)]

\* git clone --no-checkout: HEAD is the remote's, at the pin or ahead of it.
CloneRepo ==
  /\ pc = "pin" /\ ~here.dir
  /\ \E h \in pin .. MaxCommit :
       clone' = [clone EXCEPT ![repo] =
         [dir |-> TRUE, head |-> h, untracked |-> FALSE,
          index |-> NoFiles.index, tree |-> NoFiles.tree]]
  /\ pc' = "checkout" /\ fresh' = fresh \cup {repo}
  /\ UNCHANGED <<release, todo, left>>

KeepPinned ==
  /\ pc = "pin" /\ here.dir /\ here.head = pin
  /\ PinNext
  /\ UNCHANGED <<release, clone, fresh>>

\* Mutant: every clone is healed, whatever its commit.
BugForceHead ==
  /\ pc = "pin" /\ here.dir
  /\ clone' = [clone EXCEPT ![repo].index = [commit |-> here.head, patches |-> {}],
       ![repo].tree = [commit |-> here.head, patches |-> {}, half |-> {}]]
  /\ pc' = "clean" /\ fresh' = fresh \cup {repo}
  /\ UNCHANGED <<release, todo, left>>

\* git checkout --force actual: the patches and edits of tracked files go.
ForceHead ==
  /\ pc = "pin" /\ here.dir /\ here.head # pin
  /\ clone' = [clone EXCEPT ![repo].index = [commit |-> here.head, patches |-> {}],
       ![repo].tree = [commit |-> here.head, patches |-> {}, half |-> {}]]
  /\ pc' = "clean" /\ fresh' = fresh \cup {repo}
  /\ UNCHANGED <<release, todo, left>>

\* Mutant: no clean.
BugClean ==
  /\ pc = "clean"
  /\ pc' = "checkout"
  /\ UNCHANGED <<release, clone, todo, left, fresh>>

\* git clean -fd; the fetch that follows brings commits and no files.
Clean ==
  /\ pc = "clean"
  /\ clone' = [clone EXCEPT ![repo].untracked = FALSE]
  /\ pc' = "checkout"
  /\ UNCHANGED <<release, todo, left, fresh>>

\* git checkout --detach <pin>, of a new clone or of an older one.  Changes of
\* the index and the files would be carried along.
CheckoutPin ==
  /\ pc = "checkout"
  /\ clone' = [clone EXCEPT ![repo].head = pin, ![repo].index.commit = pin,
                            ![repo].tree.commit = pin]
  /\ PinNext
  /\ UNCHANGED <<release, fresh>>
-----------------------------------------------------------------------------
(***************************************************************************)
(* prepare_shell.py: prepare                                               *)
(***************************************************************************)
\* git apply --check --reverse looks at the files only.
AlreadyApplied(p) == here.tree.commit # 0 /\ p \in here.tree.patches

\* git apply --check --index: the files p touches are as in the index, and no
\* revision of p is in either.
Applies(p) ==
  /\ here.tree.commit # 0 /\ here.index.commit = here.tree.commit
  /\ \A q \in (here.tree.patches \ {Hand}) \cup here.tree.half
              \cup here.index.patches : File[q] # File[p]

Reject ==
  /\ \/ /\ pc = "untracked" /\ here.untracked
     \/ /\ pc = "patch" /\ ~AlreadyApplied(Head(left)) /\ ~Applies(Head(left))
  /\ pc' = "rejected"
  /\ UNCHANGED <<release, clone, todo, left, fresh>>

NoneUntracked ==
  /\ pc = "untracked" /\ ~here.untracked
  /\ pc' = "patch"
  /\ UNCHANGED <<release, clone, todo, left, fresh>>

\* Mutant: the loop over the patches goes one step too far.
BugPatchNext ==
  \/ /\ left # <<>>
     /\ left' = Tail(left) /\ UNCHANGED <<pc, todo>>
  \/ /\ left = <<>>
     /\ pc' = "status" /\ todo' = <<Core>> /\ left' = <<>>

\* To the next patch, the next repository, or back to initialize.py.
PatchNext ==
  \/ /\ Len(left) > 1
     /\ left' = Tail(left) /\ UNCHANGED <<pc, todo>>
  \/ /\ Len(left) = 1 /\ Len(todo) > 1
     /\ pc' = "untracked" /\ todo' = Tail(todo)
     /\ left' = Patches[release][todo[2]]
  \/ /\ Len(left) = 1 /\ Len(todo) = 1
     /\ pc' = "status" /\ todo' = <<Core>> /\ left' = <<>>

\* Mutant: a patch that does not apply cleanly is taken for an applied one.
BugSkip ==
  /\ pc = "patch" /\ ~Applies(Head(left))
  /\ PatchNext
  /\ UNCHANGED <<release, clone, fresh>>

Skip ==
  /\ pc = "patch" /\ AlreadyApplied(Head(left))
  /\ PatchNext
  /\ UNCHANGED <<release, clone, fresh>>

Apply ==
  /\ pc = "patch" /\ ~AlreadyApplied(Head(left)) /\ Applies(Head(left))
  /\ clone' = [clone EXCEPT ![repo].tree.patches = @ \cup {Head(left)},
                            ![repo].index.patches = @ \cup {Head(left)}]
  /\ PatchNext
  /\ UNCHANGED <<release, fresh>>

\* initialize.py again: git status --porcelain of the Core is empty, or not.
CoreIsClean ==
  /\ ~here.untracked
  /\ here.index = [commit |-> here.head, patches |-> {}]
  /\ here.tree = [commit |-> here.head, patches |-> {}, half |-> {}]

CoreStatus ==
  /\ pc = "status"
  /\ pc' = IF CoreIsClean THEN "done" ELSE "rejected"
  /\ UNCHANGED <<release, clone, todo, left, fresh>>
-----------------------------------------------------------------------------
(***************************************************************************)
(* A command fails (run: check=True) or the run is killed.                 *)
(***************************************************************************)
Fail ==
  /\ ~Ended
  /\ pc' = "failed"
  /\ UNCHANGED <<release, clone, todo, left, fresh>>

\* In the middle of a checkout: some files are there, the index is the old one.
CheckoutCut ==
  /\ \/ pc = "checkout"
     \/ pc = "pin" /\ here.dir /\ here.head # pin
  /\ \E u \in {here.untracked, TRUE} :
       clone' = [clone EXCEPT ![repo].tree = NoFiles.tree, ![repo].untracked = u]
  /\ pc' = "failed"
  /\ UNCHANGED <<release, todo, left, fresh>>

\* In the middle of git apply, or before it writes the index: files the patch
\* adds are untracked.
ApplyCut ==
  /\ pc = "patch" /\ ~AlreadyApplied(Head(left)) /\ Applies(Head(left))
  /\ \E u \in {here.untracked, Head(left) \in Adds} :
       \/ clone' = [clone EXCEPT ![repo].tree.half = @ \cup {Head(left)},
                                 ![repo].untracked = u]
       \/ clone' = [clone EXCEPT ![repo].tree.patches = @ \cup {Head(left)},
                                 ![repo].untracked = Head(left) \in Adds]
  /\ pc' = "failed"
  /\ UNCHANGED <<release, todo, left, fresh>>

Next ==
  \/ Pull \/ (\E r \in Repo : Edit(r)) \/ Start
  \/ CloneRepo \/ KeepPinned \/ ForceHead \/ Clean \/ CheckoutPin
  \/ Reject \/ NoneUntracked \/ Skip \/ Apply \/ CoreStatus
  \/ Fail \/ CheckoutCut \/ ApplyCut

Spec == Init /\ [][Next]_vars
-----------------------------------------------------------------------------
(***************************************************************************)
(* Properties                                                              *)
(***************************************************************************)
Wanted(r) == IF r \in Range(Patched) THEN Range(Patches[release][r]) ELSE {}

\* Types; a loop in progress has a repository to visit.
TypeOK ==
  /\ release \in Release
  /\ clone \in [Repo -> Clone]
  /\ pc \in {"idle", "done", "failed", "rejected", "pin", "clean", "checkout",
             "untracked", "patch", "status"}
  /\ todo \in Seq(Repo) /\ left \in Seq(Patch) /\ fresh \subseteq Repo
  /\ ~Ended => todo # <<>>
  /\ pc = "patch" => left # <<>>

\* "Public inputs pinned": after a run that succeeds, whatever runs before it
\* were cut short, each patched repository holds the files of its pin with
\* every patch whole, and the Core nothing but the files of its pin.
SuccessIsPinned ==
  pc = "done" =>
    /\ \A r \in Range(Patched) :
         /\ clone[r].tree.commit = Pin[release][r]
         /\ Wanted(r) \subseteq clone[r].tree.patches
         /\ clone[r].tree.half = {}
    /\ clone[Core].tree =
         [commit |-> Pin[release][Core], patches |-> {}, half |-> {}]

\* "Self-heal to the newly pinned commit": a repository that this run cloned
\* or took to a new pin is never rejected afterwards, whatever was left in it.
HealedIsAccepted == pc = "rejected" => repo \notin fresh

\* "Every step is idempotent": a run does not touch a clone that is as the
\* lock and the patches want it.
Right(r) ==
  /\ clone[r].dir /\ clone[r].head = Pin[release][r] /\ ~clone[r].untracked
  /\ clone[r].index = [commit |-> clone[r].head, patches |-> Wanted(r)]
  /\ clone[r].tree =
       [commit |-> clone[r].head, patches |-> Wanted(r), half |-> {}]
RerunTouchesNothing ==
  [][~Ended => \A r \in Repo : Right(r) => clone'[r] = clone[r]]_vars

\* "Rejects unexpected tracked or untracked source": a run succeeds only when
\* the patched repositories hold nothing but the pin and its patches.
UnexpectedIsRejected ==
  pc = "done" => \A r \in Range(Patched) : clone[r].tree.patches = Wanted(r)
=============================================================================
