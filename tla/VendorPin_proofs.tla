-------------------------- MODULE VendorPin_proofs --------------------------
(***************************************************************************)
(* Proofs about VendorPin, for any repositories, lock files, patches and   *)
(* number of interrupted runs.                                             *)
(*                                                                         *)
(* Two things carry the result.  What an interrupted run leaves in a clone *)
(* is bounded: files of no commit or of HEAD, and parts of patches only    *)
(* that were wanted for that HEAD (Sound).  And each loop keeps what it    *)
(* has established of the repositories and patches behind it (LoopInv).    *)
(***************************************************************************)
EXTENDS VendorPin, SequenceTheorems, TLAPS

\* What holds of a clone at any moment, whatever was cut off.
Sound(r) ==
  /\ clone[r].tree.commit \in {0, clone[r].head}
  /\ \A p \in clone[r].tree.half, q \in clone[r].tree.patches \ {Hand} :
       File[p] # File[q]
  /\ \A p \in clone[r].tree.half :
       \E m \in 1 .. release : /\ Pin[m][r] = clone[r].head
                               /\ p \in Range(Patches[m][r])
ClonesAreSound == \A r \in Repo : Sound(r)

AtPin(r) == clone[r].dir /\ clone[r].head = Pin[release][r]
Applied(r) ==
  clone[r].tree.commit # 0 /\ Wanted(r) \subseteq clone[r].tree.patches
Healing == pc \in {"clean", "checkout"}
Preparing == pc \in {"untracked", "patch"}

\* What the loops have established of what is behind them.
LoopInv ==
  /\ pc = "clean" => here.head # pin
  /\ pc = "checkout" =>
       (here.head # pin \/ here.index.commit = 0) /\ ~here.untracked
  /\ Healing => /\ here.dir /\ here.index.patches = {}
                /\ here.tree.patches = {} /\ here.tree.half = {}
  /\ (pc = "pin" \/ Healing) => \A r \in Repo : r \in Range(todo) \/ AtPin(r)
  /\ (Preparing \/ pc \in {"status", "done"}) => \A r \in Repo : AtPin(r)
  /\ Preparing => /\ Range(todo) \subseteq Range(Patched)
                  /\ left # <<>> /\ Range(left) \subseteq Wanted(repo)
                  /\ Wanted(repo) \subseteq Range(left) \cup here.tree.patches
                  /\ \A r \in Range(Patched) : r \in Range(todo) \/ Applied(r)
  /\ pc \in {"status", "done"} => \A r \in Range(Patched) : Applied(r)
  /\ pc = "status" => todo = <<Core>>
  /\ pc = "done" => clone[Core].tree =
       [commit |-> Pin[release][Core], patches |-> {}, half |-> {}]

\* A repository that this run healed holds its pin and patches of this release.
Fine(r) ==
  /\ ~clone[r].untracked
  /\ clone[r].head = Pin[release][r]
  /\ clone[r].index.commit = clone[r].head /\ clone[r].tree.commit = clone[r].head
  /\ clone[r].index.patches = clone[r].tree.patches
  /\ clone[r].tree.patches \subseteq Wanted(r)
  /\ clone[r].tree.half = {}
FreshInv ==
  /\ ~Ended => \A r \in fresh : (Healing /\ r = repo) \/ Fine(r)
  /\ HealedIsAccepted

IInv == TypeOK /\ ClonesAreSound /\ LoopInv /\ FreshInv
-----------------------------------------------------------------------------
(***************************************************************************)
(* Sequences, and the constants                                            *)
(***************************************************************************)
\* The head of a loop's sequence and what is behind it.
LEMMA Heads ==
  ASSUME NEW S, NEW s \in Seq(S), s # <<>>
  PROVE  /\ Head(s) \in S /\ Head(s) \in Range(s)
         /\ Len(s) = 1 <=> ~(Len(s) > 1)
         /\ Tail(s) \in Seq(S) /\ Range(Tail(s)) \subseteq Range(s)
         /\ \A x \in Range(s) : x = Head(s) \/ x \in Range(Tail(s))
         /\ Len(s) > 1 => Tail(s) # <<>> /\ s[2] = Head(Tail(s))
         /\ Len(s) = 1 => Range(s) = {Head(s)}
<1>1. Len(s) \in Nat \ {0} /\ DOMAIN s = 1 .. Len(s)
  OBVIOUS
<1>8. Len(s) = 1 <=> ~(Len(s) > 1)
  <2>1. \A n \in Nat \ {0} : n = 1 <=> ~(n > 1)
    OBVIOUS
  <2> QED
    BY <1>1, <2>1
<1>2. Head(s) = s[1] /\ s[1] \in S /\ Head(s) \in Range(s)
  BY <1>1 DEF Range
<1>3. /\ Tail(s) \in Seq(S) /\ Len(Tail(s)) = Len(s) - 1
      /\ DOMAIN Tail(s) = 1 .. Len(Tail(s))
      /\ \A i \in 1 .. Len(Tail(s)) : Tail(s)[i] = s[i + 1]
  BY <1>1
<1>4. Range(Tail(s)) \subseteq Range(s)
  BY <1>1, <1>3 DEF Range
<1>5. ASSUME NEW x \in Range(s), x # Head(s)
      PROVE  x \in Range(Tail(s))
  <2>1. PICK i \in 1 .. Len(s) : x = s[i]
    BY <1>1 DEF Range
  <2>2. i - 1 \in 1 .. Len(Tail(s)) /\ Tail(s)[i - 1] = x
    BY <1>1, <1>2, <1>3, <1>5, <2>1
  <2> QED
    BY <1>3, <2>2 DEF Range
<1>6. ASSUME Len(s) > 1
      PROVE  Tail(s) # <<>> /\ s[2] = Head(Tail(s))
  <2>1. Len(Tail(s)) # 0 /\ 1 \in 1 .. Len(Tail(s))
    BY <1>1, <1>3, <1>6
  <2>2. Tail(s) # <<>>
    <3> SUFFICES ASSUME Tail(s) = <<>> PROVE FALSE
      OBVIOUS
    <3>1. Len(Tail(s)) = Len(<<>>)
      BY Zenon
    <3>2. Len(<<>>) = 0
      BY EmptySeq
    <3> QED
      BY <2>1, <3>1, <3>2
  <2>3. Head(Tail(s)) = Tail(s)[1]
    BY <1>3, <2>2
  <2> QED
    BY <1>3, <2>1, <2>2, <2>3
<1>7. Len(s) = 1 => Range(s) = {Head(s)}
  BY <1>1, <1>2 DEF Range
<1> QED
  BY <1>2, <1>3, <1>4, <1>5, <1>6, <1>7, <1>8

\* The repository a run is at, its pin and its patches.
LEMMA Constants ==
  ASSUME TypeOK
  PROVE  /\ \A r \in Repo : /\ Pin[release][r] \in 1 .. MaxCommit
                            /\ Patches[release][r] \in Seq(Patch)
                            /\ Wanted(r) \subseteq Patch
         /\ \A r \in Range(Patched) : /\ r \in Repo
                                      /\ Patches[release][r] # <<>>
                                      /\ Wanted(r) = Range(Patches[release][r])
         /\ Core \in Repo /\ Wanted(Core) = {}
         /\ ~Ended => repo \in Repo /\ here \in Clone /\ pin \in 1 .. MaxCommit
<1>1. release \in Release
  BY DEF TypeOK
<1>2. \A r \in Repo : /\ Pin[release][r] \in 1 .. MaxCommit
                      /\ Patches[release][r] \in Seq(Patch)
  BY <1>1, PinAssumption, PatchAssumption
<1>3. \A r \in Repo : Range(Patches[release][r]) \subseteq Patch
  BY <1>2 DEF Range
<1>4. \A r \in Range(Patched) : r \in Repo /\ Patches[release][r] # <<>>
  BY <1>1, PatchAssumption, OrderAssumption DEF Range
<1>5. ~Ended => repo \in Repo
  BY Heads DEF TypeOK, repo
<1> QED
  BY <1>2, <1>3, <1>4, <1>5, OrderAssumption DEF Wanted, TypeOK, here, pin

\* Beginning with its first repository, or patch, a loop is as long as it is.
LEMMA Loops ==
  /\ Order \in Seq(Repo) \ {<<>>} /\ Range(Order) = Repo
  /\ Patched \in Seq(Repo) \ {<<>>} /\ Head(Patched) \in Range(Patched)
  /\ <<Core>> \in Seq(Repo) \ {<<>>} /\ Head(<<Core>>) = Core
<1>1. Order # <<>>
  BY OrderAssumption DEF Range
<1> QED
  BY <1>1, Heads, OrderAssumption
-----------------------------------------------------------------------------
(***************************************************************************)
(* The two ways on: to the next repository, to the next patch              *)
(***************************************************************************)
LoopTypes ==
  /\ todo \in Seq(Repo) /\ left \in Seq(Patch)
  /\ pc \in {"idle", "done", "failed", "rejected", "pin", "clean", "checkout",
             "untracked", "patch", "status"}
  /\ ~Ended => todo # <<>>
  /\ pc = "patch" => left # <<>>

\* A repository that is at its pin may be left behind.
LEMMA PinNextLoop ==
  ASSUME IInv, pc \in {"pin", "checkout"}, PinNext, release' = release,
         NEW x \in Repo, x = repo, AtPin(x)',
         \A r \in Repo : AtPin(r) => AtPin(r)'
  PROVE  /\ LoopTypes' /\ LoopInv'
         /\ pc' \in {"pin", "untracked"}
<1>1. /\ TypeOK /\ todo \in Seq(Repo) /\ todo # <<>>
      /\ \A r \in Repo : r \in Range(todo) \/ AtPin(r)
  BY DEF IInv, TypeOK, Ended, LoopInv, Healing
<1>2. \A r \in Range(todo) : r = x \/ r \in Range(Tail(todo))
  BY <1>1, Heads DEF repo
<1>3. CASE Len(todo) > 1
  <2>1. /\ pc' = "pin" /\ todo' = Tail(todo) /\ left' = <<>>
        /\ Tail(todo) \in Seq(Repo) /\ Tail(todo) # <<>> /\ <<>> \in Seq(Patch)
    BY <1>1, <1>3, Heads DEF PinNext
  <2>2. \A r \in Repo : r \in Range(todo') \/ AtPin(r)'
    BY <1>1, <1>2, <2>1
  <2> QED
    BY <2>1, <2>2 DEF LoopTypes, LoopInv, Ended, Healing, Preparing
<1>4. CASE ~(Len(todo) > 1)
  <2>1. Range(todo) = {x}
    <3>1. Len(todo) = 1
      BY <1>1, <1>4, Heads
    <3> QED
      BY <1>1, <3>1, Heads DEF repo
  <2>2. /\ pc' = "untracked" /\ todo' = Patched
        /\ left' = Patches[release][Head(Patched)]
    BY <1>4 DEF PinNext
  <2>3. /\ left' \in Seq(Patch) /\ left' # <<>>
        /\ \A r \in Range(Patched) : Range(Patches[release][r]) = Wanted(r)
    BY <1>1, <2>2, Constants, Loops
  <2>4. \A r \in Repo : AtPin(r)'
    BY <1>1, <2>1
  <2>5. Wanted(Head(todo))' = Range(left')
    BY <2>2, <2>3, Loops DEF Wanted
  <2> QED
    BY <2>2, <2>3, <2>4, <2>5, Loops
       DEF LoopTypes, LoopInv, Ended, Healing, Preparing, repo
<1> QED
  BY <1>3, <1>4

\* A patch that is in the files may be left behind, and with the last one of
\* a repository the repository.
LEMMA PatchNextLoop ==
  ASSUME IInv, pc = "patch", PatchNext, release' = release,
         NEW x \in Repo, x = repo, here.tree.commit # 0,
         Head(left) \in clone'[x].tree.patches,
         \A r \in Repo : /\ AtPin(r) => AtPin(r)'
                         /\ clone'[r].tree.commit = clone[r].tree.commit
                         /\ clone[r].tree.patches \subseteq clone'[r].tree.patches
  PROVE  /\ LoopTypes' /\ LoopInv'
         /\ pc' \in {"patch", "untracked", "status"}
         /\ pc' = "patch" => todo' = todo
<1>1. /\ TypeOK /\ todo \in Seq(Repo) /\ todo # <<>>
      /\ left \in Seq(Patch) /\ left # <<>>
      /\ Range(todo) \subseteq Range(Patched)
      /\ Range(left) \subseteq Wanted(x)
      /\ Wanted(x) \subseteq Range(left) \cup clone[x].tree.patches
      /\ \A r \in Range(Patched) : r \in Range(todo) \/ Applied(r)
      /\ \A r \in Repo : AtPin(r)
  BY DEF IInv, TypeOK, Ended, LoopInv, Preparing, here
<1>2. \A r \in Range(Patched) : r \in Repo /\ (Applied(r) => Applied(r)')
  BY <1>1, Constants DEF Applied, Wanted
<1>3. \A r \in Repo : AtPin(r)'
  BY <1>1
<1>L. /\ Len(left) = 1 <=> ~(Len(left) > 1)
      /\ Len(todo) = 1 <=> ~(Len(todo) > 1)
  BY <1>1, Heads
<1>4. /\ \A p \in Range(left) : p = Head(left) \/ p \in Range(Tail(left))
      /\ \A r \in Range(todo) : r = x \/ r \in Range(Tail(todo))
  BY <1>1, Heads DEF repo
<1>5. CASE Len(left) > 1
  <2>1. /\ pc' = "patch" /\ todo' = todo /\ left' = Tail(left)
    BY <1>L, <1>5 DEF PatchNext
  <2>2. /\ Tail(left) \in Seq(Patch) /\ Tail(left) # <<>>
        /\ Range(Tail(left)) \subseteq Range(left)
    BY <1>1, <1>5, Heads
  <2>3. Wanted(x)' = Wanted(x) /\ repo' = x
    BY <2>1 DEF Wanted, repo
  <2>4. Wanted(x) \subseteq Range(left') \cup clone'[x].tree.patches
    BY <1>1, <1>4, <2>1
  <2> QED
    BY <1>1, <1>2, <1>3, <2>1, <2>2, <2>3, <2>4
       DEF LoopTypes, LoopInv, Ended, Healing, Preparing, here
<1>6. CASE Len(left) = 1
  <2>1. Wanted(x) \subseteq clone'[x].tree.patches
    BY <1>1, <1>6, Heads
  <2>2. Applied(x)'
    BY <2>1 DEF Applied, Wanted, here
  <2>3. CASE Len(todo) > 1
    <3>1. /\ pc' = "untracked" /\ todo' = Tail(todo)
          /\ left' = Patches[release][todo[2]]
      BY <1>L, <1>6, <2>3 DEF PatchNext
    <3>2. /\ Tail(todo) \in Seq(Repo) /\ Tail(todo) # <<>>
          /\ Range(Tail(todo)) \subseteq Range(todo) /\ todo[2] = Head(Tail(todo))
      BY <1>1, <2>3, Heads
    <3>3. Head(Tail(todo)) \in Range(Patched)
      BY <1>1, <3>2, Heads
    <3>4. /\ left' \in Seq(Patch) /\ left' # <<>>
          /\ Range(left') = Wanted(Head(Tail(todo)))
      BY <1>1, <3>1, <3>2, <3>3, Constants
    <3>5. Wanted(Head(todo))' = Range(left')
      BY <3>1, <3>4 DEF Wanted
    <3>6. \A r \in Range(Patched) : r \in Range(todo') \/ Applied(r)'
      BY <1>1, <1>2, <1>4, <2>2, <3>1
    <3> QED
      BY <1>1, <1>3, <3>1, <3>2, <3>4, <3>5, <3>6
         DEF LoopTypes, LoopInv, Ended, Healing, Preparing, repo
  <2>4. CASE Len(todo) = 1
    <3>1. pc' = "status" /\ todo' = <<Core>> /\ left' = <<>>
      BY <1>6, <2>4 DEF PatchNext
    <3>2. Range(todo) = {x} /\ <<>> \in Seq(Patch)
      BY <1>1, <2>4, Heads DEF repo
    <3>3. \A r \in Range(Patched) : Applied(r)'
      BY <1>1, <1>2, <2>2, <3>2
    <3> QED
      BY <1>3, <3>1, <3>2, <3>3, Loops
         DEF LoopTypes, LoopInv, Ended, Healing, Preparing
  <2> QED
    BY <1>6, <2>3, <2>4 DEF PatchNext
<1> QED
  BY <1>5, <1>6 DEF PatchNext
-----------------------------------------------------------------------------
(***************************************************************************)
(* The invariant is inductive: one lemma per action                        *)
(***************************************************************************)
LEMMA InitIInv == Init => IInv
<1> SUFFICES ASSUME Init PROVE IInv
  OBVIOUS
<1>1. TypeOK
  BY BoundAssumption DEF Init, TypeOK, Release, Clone, NoFiles, Ended
<1>2. ClonesAreSound /\ LoopInv /\ FreshInv
  BY DEF Init, ClonesAreSound, Sound, NoFiles, LoopInv, Healing, Preparing,
     FreshInv, Ended, HealedIsAccepted
<1> QED
  BY <1>1, <1>2 DEF IInv

\* Only the clone a run is at changes, so only that has to be looked at.
LEMMA OneClone ==
  ASSUME IInv, release' = release, NEW x \in Repo, clone'[x] \in Clone,
         clone' \in [Repo -> Clone], Sound(x)',
         \A r \in Repo \ {x} : clone'[r] = clone[r],
         LoopTypes', fresh' \subseteq Repo
  PROVE  TypeOK' /\ ClonesAreSound'
<1>1. TypeOK'
  BY DEF IInv, TypeOK, LoopTypes
<1>2. ASSUME NEW r \in Repo \ {x} PROVE Sound(r)'
  BY DEF IInv, ClonesAreSound, Sound
<1> QED
  BY <1>1, <1>2 DEF ClonesAreSound

\* Nothing changes on disk.
LEMMA NoClone ==
  ASSUME IInv, UNCHANGED <<release, clone>>, LoopTypes', fresh' \subseteq Repo
  PROVE  TypeOK' /\ ClonesAreSound'
  BY DEF IInv, TypeOK, LoopTypes, ClonesAreSound, Sound

\* A run that has ended, however, leaves nothing to show.
LEMMA EndedLoop ==
  ASSUME IInv, pc' \in {"idle", "failed"}, UNCHANGED <<todo, left>>
  PROVE  LoopTypes' /\ LoopInv' /\ FreshInv'
  BY DEF IInv, TypeOK, LoopTypes, LoopInv, FreshInv, Ended, Healing, Preparing,
     HealedIsAccepted

LEMMA CloneRepoIInv == ASSUME IInv, CloneRepo PROVE IInv'
<1>1. PICK x \in Repo : x = repo /\ x \in Range(todo)
  BY Constants, Heads DEF IInv, TypeOK, CloneRepo, Ended, repo
<1>2. PICK h \in pin .. MaxCommit :
        clone' = [clone EXCEPT ![x] =
          [dir |-> TRUE, head |-> h, untracked |-> FALSE,
           index |-> NoFiles.index, tree |-> NoFiles.tree]]
  BY <1>1 DEF CloneRepo
<1>3. /\ pc = "pin" /\ pc' = "checkout" /\ fresh' = fresh \cup {x}
      /\ UNCHANGED <<release, todo, left>>
  BY <1>1 DEF CloneRepo
<1>4. pin \in 1 .. MaxCommit /\ h \in 0 .. MaxCommit
  BY <1>3, Constants, BoundAssumption DEF IInv, Ended
<1>5. /\ clone \in [Repo -> Clone]
      /\ clone'[x] = [dir |-> TRUE, head |-> h, untracked |-> FALSE,
                      index |-> NoFiles.index, tree |-> NoFiles.tree]
      /\ \A r \in Repo \ {x} : clone'[r] = clone[r]
  BY <1>2 DEF IInv, TypeOK
<1>6. clone'[x] \in Clone
  BY <1>4, <1>5, BoundAssumption DEF Clone, NoFiles
<1>7. clone' \in [Repo -> Clone]
  BY <1>2, <1>5, <1>6
<1>8. Sound(x)'
  BY <1>5 DEF Sound, NoFiles
<1>9. LoopTypes' /\ fresh' \subseteq Repo
  BY <1>3 DEF IInv, TypeOK, LoopTypes, Ended
<1>10. LoopInv'
  <2>1. \A r \in Repo : r \in Range(todo) \/ AtPin(r)'
    BY <1>1, <1>3, <1>5 DEF IInv, LoopInv, AtPin
  <2>2. here' = clone'[x]
    BY <1>1, <1>3 DEF here, repo
  <2> QED
    BY <1>3, <1>5, <2>1, <2>2 DEF LoopInv, Healing, Preparing, NoFiles
<1>11. FreshInv'
  <2>1. ASSUME NEW r \in fresh \ {x} PROVE Fine(r)'
    <3>1. Fine(r) /\ r \in Repo
      BY <1>3 DEF IInv, TypeOK, FreshInv, Ended, Healing
    <3> QED
      BY <1>3, <1>5, <3>1 DEF Fine, Wanted
  <2> QED
    BY <1>1, <1>3, <2>1 DEF FreshInv, Healing, repo, HealedIsAccepted
<1> QED
  BY <1>3, <1>5, <1>6, <1>7, <1>8, <1>9, <1>10, <1>11, OneClone DEF IInv

LEMMA KeepPinnedIInv == ASSUME IInv, KeepPinned PROVE IInv'
<1>1. PICK x \in Repo : x = repo
  BY Constants DEF IInv, KeepPinned, Ended
<1>2. /\ pc = "pin" /\ PinNext /\ UNCHANGED <<release, clone, fresh>>
      /\ AtPin(x)'
  BY <1>1 DEF KeepPinned, AtPin, here, pin
<1>3. \A r \in Repo : AtPin(r) => AtPin(r)'
  BY <1>2 DEF AtPin
<1>4. LoopTypes' /\ LoopInv' /\ pc' \in {"pin", "untracked"}
  BY <1>1, <1>2, <1>3, PinNextLoop
<1>5. FreshInv'
  BY <1>2, <1>4 DEF IInv, FreshInv, Ended, Healing, Fine, Wanted,
     HealedIsAccepted
<1>6. fresh' \subseteq Repo
  BY <1>2 DEF IInv, TypeOK
<1> QED
  BY <1>2, <1>4, <1>5, <1>6, NoClone DEF IInv

LEMMA ForceHeadIInv == ASSUME IInv, ForceHead PROVE IInv'
<1>1. PICK x \in Repo : x = repo /\ x \in Range(todo)
  BY Constants, Heads DEF IInv, TypeOK, ForceHead, Ended, repo
<1>2. /\ pc = "pin" /\ pc' = "clean" /\ fresh' = fresh \cup {x}
      /\ UNCHANGED <<release, todo, left>>
      /\ here = clone[x] /\ clone[x].dir /\ clone[x].head # pin
      /\ clone[x] \in Clone /\ clone \in [Repo -> Clone]
  BY <1>1 DEF ForceHead, here, IInv, TypeOK
<1>3. /\ clone'[x] = [clone[x] EXCEPT
           !.index = [commit |-> clone[x].head, patches |-> {}],
           !.tree = [commit |-> clone[x].head, patches |-> {}, half |-> {}]]
      /\ \A r \in Repo \ {x} : clone'[r] = clone[r]
      /\ clone' = [clone EXCEPT ![x] = clone'[x]]
  BY <1>1, <1>2 DEF ForceHead
<1>4. /\ clone'[x] \in Clone
      /\ clone'[x].dir = clone[x].dir /\ clone'[x].head = clone[x].head
      /\ clone'[x].index = [commit |-> clone[x].head, patches |-> {}]
      /\ clone'[x].tree =
           [commit |-> clone[x].head, patches |-> {}, half |-> {}]
  <2>1. /\ clone[x].head \in 0 .. MaxCommit
        /\ [commit |-> clone[x].head, patches |-> {}]
             \in [commit : 0 .. MaxCommit, patches : SUBSET Patch]
        /\ [commit |-> clone[x].head, patches |-> {}, half |-> {}]
             \in [commit : 0 .. MaxCommit, patches : SUBSET (Patch \cup {Hand}),
                 half : SUBSET Patch]
    BY <1>2 DEF Clone
  <2>2. clone'[x] =
          [dir |-> clone[x].dir, head |-> clone[x].head,
           untracked |-> clone[x].untracked,
           index |-> [commit |-> clone[x].head, patches |-> {}],
           tree |-> [commit |-> clone[x].head, patches |-> {}, half |-> {}]]
    BY <1>2, <1>3 DEF Clone
  <2>3. clone'[x] \in Clone
    BY <1>2, <2>1, <2>2 DEF Clone
  <2> QED
    BY <2>2, <2>3
<1>5. clone' \in [Repo -> Clone]
  BY <1>2, <1>3, <1>4
<1>6. Sound(x)'
  BY <1>4 DEF Sound
<1>7. LoopTypes' /\ fresh' \subseteq Repo
  BY <1>2 DEF IInv, TypeOK, LoopTypes, Ended
<1>8. LoopInv'
  <2>1. \A r \in Repo : r \in Range(todo) \/ AtPin(r)'
    BY <1>1, <1>2, <1>3 DEF IInv, LoopInv, AtPin
  <2>2. here' = clone'[x] /\ pin' = pin
    BY <1>1, <1>2 DEF here, repo, pin
  <2>3. /\ here'.head # pin' /\ here'.dir /\ here'.index.patches = {}
        /\ here'.tree.patches = {} /\ here'.tree.half = {}
    <3>1. here'.dir
      BY <1>2, <1>4, <2>2
    <3>2. here'.head # pin'
      BY <1>2, <1>4, <2>2
    <3>3. here'.index.patches = {}
      BY <1>4, <2>2
    <3>4. here'.tree.patches = {} /\ here'.tree.half = {}
      BY <1>4, <2>2
    <3> QED
      BY <3>1, <3>2, <3>3, <3>4
  <2> QED
    BY <1>2, <2>1, <2>3 DEF LoopInv, Healing, Preparing
<1>9. FreshInv'
  <2>1. ASSUME NEW r \in fresh \ {x} PROVE Fine(r)'
    <3>1. Fine(r) /\ r \in Repo
      BY <1>2 DEF IInv, TypeOK, FreshInv, Ended, Healing
    <3> QED
      BY <1>2, <1>3, <3>1 DEF Fine, Wanted
  <2> QED
    BY <1>1, <1>2, <2>1 DEF FreshInv, Healing, repo, HealedIsAccepted
<1> QED
  BY <1>2, <1>3, <1>4, <1>5, <1>6, <1>7, <1>8, <1>9, OneClone DEF IInv

LEMMA CleanIInv == ASSUME IInv, Clean PROVE IInv'
<1>1. PICK x \in Repo : x = repo /\ x \in Range(todo)
  BY Constants, Heads DEF IInv, TypeOK, Clean, Ended, repo
<1>2. /\ pc = "clean" /\ pc' = "checkout" /\ UNCHANGED <<release, todo, left, fresh>>
      /\ clone[x] \in Clone /\ clone \in [Repo -> Clone]
      /\ clone' = [clone EXCEPT ![x].untracked = FALSE]
  BY <1>1 DEF Clean, IInv, TypeOK
<1>3. /\ clone'[x] = [clone[x] EXCEPT !.untracked = FALSE]
      /\ \A r \in Repo \ {x} : clone'[r] = clone[r]
  BY <1>2
<1>4. /\ clone'[x] \in Clone /\ ~clone'[x].untracked
      /\ clone'[x].dir = clone[x].dir /\ clone'[x].head = clone[x].head
      /\ clone'[x].index = clone[x].index /\ clone'[x].tree = clone[x].tree
  BY <1>2, <1>3 DEF Clone
<1>5. clone' \in [Repo -> Clone]
  BY <1>2, <1>3, <1>4
<1>6. Sound(x)'
  BY <1>2, <1>4 DEF Sound, IInv, ClonesAreSound
<1>7. LoopTypes' /\ fresh' \subseteq Repo
  BY <1>2 DEF IInv, TypeOK, LoopTypes, Ended
<1>8. LoopInv'
  <2>1. \A r \in Repo : r \in Range(todo) \/ AtPin(r)'
    BY <1>1, <1>2, <1>3, <1>4 DEF IInv, LoopInv, Healing, AtPin
  <2>2. here = clone[x] /\ here' = clone'[x] /\ pin' = pin
    BY <1>1, <1>2 DEF here, repo, pin
  <2> QED
    BY <1>2, <1>4, <2>1, <2>2 DEF IInv, LoopInv, Healing, Preparing
<1>9. FreshInv'
  BY <1>1, <1>2, <1>3 DEF IInv, FreshInv, Ended, Healing, Fine, Wanted, repo,
     HealedIsAccepted
<1> QED
  BY <1>2, <1>3, <1>4, <1>5, <1>6, <1>7, <1>8, <1>9, OneClone DEF IInv

LEMMA CheckoutPinIInv == ASSUME IInv, CheckoutPin PROVE IInv'
<1>1. PICK x \in Repo : x = repo
  BY Constants DEF IInv, CheckoutPin, Ended
<1>2. /\ pc = "checkout" /\ PinNext /\ UNCHANGED <<release, fresh>>
      /\ clone[x] \in Clone /\ clone \in [Repo -> Clone]
      /\ pin = Pin[release][x] /\ pin \in 1 .. MaxCommit
      /\ clone' = [clone EXCEPT ![x].head = pin, ![x].index.commit = pin,
                                ![x].tree.commit = pin]
  BY <1>1, Constants DEF CheckoutPin, IInv, TypeOK, pin, Ended
<1>3. /\ clone[x].dir /\ ~clone[x].untracked /\ clone[x].index.patches = {}
      /\ clone[x].tree.patches = {} /\ clone[x].tree.half = {}
  BY <1>1, <1>2 DEF IInv, LoopInv, Healing, here
<1>4. /\ clone'[x] = [clone[x] EXCEPT !.head = pin, !.index.commit = pin,
                                      !.tree.commit = pin]
      /\ \A r \in Repo \ {x} : clone'[r] = clone[r]
  BY <1>2
<1>5. /\ clone'[x] \in Clone
      /\ clone'[x].dir /\ ~clone'[x].untracked /\ clone'[x].head = pin
      /\ clone'[x].index.commit = pin /\ clone'[x].tree.commit = pin
      /\ clone'[x].index.patches = {} /\ clone'[x].tree.patches = {}
      /\ clone'[x].tree.half = {}
  <2>1. pin \in 0 .. MaxCommit
    BY <1>2, BoundAssumption
  <2>2. /\ clone[x].index \in [commit : 0 .. MaxCommit, patches : SUBSET Patch]
        /\ clone[x].tree \in [commit : 0 .. MaxCommit,
             patches : SUBSET (Patch \cup {Hand}), half : SUBSET Patch]
    BY <1>2 DEF Clone
  <2>3. /\ [clone[x].index EXCEPT !.commit = pin]
             \in [commit : 0 .. MaxCommit, patches : SUBSET Patch]
        /\ [clone[x].tree EXCEPT !.commit = pin]
             \in [commit : 0 .. MaxCommit, patches : SUBSET (Patch \cup {Hand}),
                 half : SUBSET Patch]
    BY <2>1, <2>2
  <2>4. /\ clone'[x].dir = clone[x].dir /\ clone'[x].head = pin
        /\ clone'[x].untracked = clone[x].untracked
        /\ clone'[x].index = [clone[x].index EXCEPT !.commit = pin]
        /\ clone'[x].tree = [clone[x].tree EXCEPT !.commit = pin]
    BY <1>2, <1>4 DEF Clone
  <2>5. clone'[x] \in Clone
    BY <1>2, <1>4, <2>1, <2>3 DEF Clone
  <2> QED
    BY <1>3, <2>2, <2>4, <2>5
<1>6. clone' \in [Repo -> Clone]
  BY <1>2, <1>4, <1>5
<1>7. Sound(x)'
  BY <1>5 DEF Sound
<1>8. AtPin(x)' /\ \A r \in Repo : AtPin(r) => AtPin(r)'
  BY <1>2, <1>4, <1>5 DEF AtPin
<1>9. LoopTypes' /\ LoopInv' /\ pc' \in {"pin", "untracked"}
  BY <1>1, <1>2, <1>8, PinNextLoop
<1>10. FreshInv'
  <2>1. Fine(x)'
    BY <1>2, <1>5 DEF Fine
  <2>2. ASSUME NEW r \in fresh \ {x} PROVE Fine(r)'
    <3>1. Fine(r) /\ r \in Repo
      BY <1>1, <1>2 DEF IInv, TypeOK, FreshInv, Ended
    <3> QED
      BY <1>2, <1>4, <3>1 DEF Fine, Wanted
  <2> QED
    BY <1>2, <1>9, <2>1, <2>2 DEF FreshInv, HealedIsAccepted
<1>11. fresh' \subseteq Repo
  BY <1>2 DEF IInv, TypeOK
<1> QED
  BY <1>2, <1>4, <1>5, <1>6, <1>7, <1>9, <1>10, <1>11, OneClone DEF IInv

\* A rejected clone was not healed by this run.
LEMMA RejectIInv == ASSUME IInv, Reject PROVE IInv'
<1>1. /\ pc \in {"untracked", "patch"} /\ pc' = "rejected"
      /\ UNCHANGED <<release, clone, todo, left, fresh>>
  BY DEF Reject
<1>2. PICK x \in Repo : x = repo /\ here = clone[x]
  BY <1>1, Constants DEF IInv, Ended, here
<1>3. x \notin fresh
  <2> SUFFICES ASSUME x \in fresh PROVE FALSE
    OBVIOUS
  <2>1. Fine(x)
    BY <1>1 DEF IInv, FreshInv, Ended, Healing
  <2>2. /\ pc = "patch" /\ ~AlreadyApplied(Head(left)) /\ ~Applies(Head(left))
    BY <1>2, <2>1 DEF Reject, Fine
  <2>3. PICK p \in Range(left) : p = Head(left)
    BY <2>2, Heads DEF IInv, TypeOK
  <2>4. p \in Wanted(x) /\ Wanted(x) \subseteq Patch /\ AtPin(x)
    BY <1>2, <2>2, Constants DEF IInv, LoopInv, Preparing
  <2>5. Pin[release][x] \in 1 .. MaxCommit
    BY Constants DEF IInv
  <2>6. /\ here.tree.commit # 0 /\ here.index.commit = here.tree.commit
        /\ here.tree.half = {} /\ here.index.patches = here.tree.patches
        /\ here.tree.patches \subseteq Wanted(x)
    BY <1>2, <2>1, <2>5 DEF Fine
  <2>7. p \notin here.tree.patches
    BY <2>2, <2>3, <2>6 DEF AlreadyApplied
  <2>8. PICK q \in Wanted(x) : File[q] = File[p] /\ q # p
    BY <2>2, <2>3, <2>6, <2>7 DEF Applies
  <2>9. release \in Release /\ Wanted(x) \subseteq Range(Patches[release][x])
    BY DEF IInv, TypeOK, Wanted
  <2> QED
    BY <2>4, <2>8, <2>9, FileAssumption
<1>4. LoopTypes' /\ fresh' \subseteq Repo
  BY <1>1 DEF IInv, TypeOK, LoopTypes, Ended
<1>5. LoopInv'
  BY <1>1 DEF LoopInv, Healing, Preparing
<1>6. FreshInv'
  BY <1>1, <1>2, <1>3 DEF FreshInv, Ended, HealedIsAccepted, repo
<1> QED
  BY <1>1, <1>4, <1>5, <1>6, NoClone DEF IInv

LEMMA NoneUntrackedIInv == ASSUME IInv, NoneUntracked PROVE IInv'
<1>1. /\ pc = "untracked" /\ pc' = "patch"
      /\ UNCHANGED <<release, clone, todo, left, fresh>>
  BY DEF NoneUntracked
<1>2. LoopTypes' /\ fresh' \subseteq Repo
  BY <1>1 DEF IInv, TypeOK, LoopTypes, LoopInv, Ended, Preparing
<1>3. LoopInv'
  BY <1>1 DEF IInv, LoopInv, Healing, Preparing, AtPin, Applied, Wanted, here,
     repo
<1>4. FreshInv'
  BY <1>1 DEF IInv, FreshInv, Ended, Healing, Fine, Wanted, HealedIsAccepted
<1> QED
  BY <1>1, <1>2, <1>3, <1>4, NoClone DEF IInv

LEMMA SkipIInv == ASSUME IInv, Skip PROVE IInv'
<1>1. /\ pc = "patch" /\ PatchNext /\ UNCHANGED <<release, clone, fresh>>
      /\ here.tree.commit # 0 /\ Head(left) \in here.tree.patches
  BY DEF Skip, AlreadyApplied
<1>2. PICK x \in Repo : x = repo /\ here = clone[x]
  BY <1>1, Constants DEF IInv, Ended, here
<1>3. \A r \in Repo : AtPin(r) => AtPin(r)'
  BY <1>1 DEF AtPin
<1>4. /\ LoopTypes' /\ LoopInv'
      /\ pc' \in {"patch", "untracked", "status"}
  BY <1>1, <1>2, <1>3, PatchNextLoop
<1>5. FreshInv'
  BY <1>1, <1>4 DEF IInv, FreshInv, Ended, Healing, Fine, Wanted,
     HealedIsAccepted
<1>6. fresh' \subseteq Repo
  BY <1>1 DEF IInv, TypeOK
<1> QED
  BY <1>1, <1>4, <1>5, <1>6, NoClone DEF IInv

LEMMA CoreStatusIInv == ASSUME IInv, CoreStatus PROVE IInv'
<1>1. /\ pc = "status" /\ UNCHANGED <<release, clone, todo, left, fresh>>
      /\ pc' = IF CoreIsClean THEN "done" ELSE "rejected"
  BY DEF CoreStatus
<1>2. todo = <<Core>> /\ repo = Core /\ here = clone[Core] /\ Core \in Repo
  BY <1>1, Loops, OrderAssumption DEF IInv, LoopInv, repo, here
<1>3. LoopTypes' /\ fresh' \subseteq Repo
  BY <1>1 DEF IInv, TypeOK, LoopTypes, Ended
<1>4. AtPin(Core)
  BY <1>1, <1>2 DEF IInv, LoopInv
<1>5. CASE CoreIsClean
  <2>1. pc' = "done"
    BY <1>1, <1>5
  <2>2. clone[Core].tree =
          [commit |-> Pin[release][Core], patches |-> {}, half |-> {}]
    BY <1>2, <1>4, <1>5 DEF CoreIsClean, AtPin
  <2>3. /\ \A r \in Repo : AtPin(r)'
        /\ \A r \in Range(Patched) : Applied(r)'
    BY <1>1 DEF IInv, LoopInv, AtPin, Applied, Wanted
  <2>4. LoopInv'
    BY <1>1, <2>1, <2>2, <2>3 DEF LoopInv, Healing, Preparing
  <2>5. FreshInv'
    BY <2>1 DEF FreshInv, Ended, HealedIsAccepted
  <2> QED
    BY <1>1, <1>3, <2>4, <2>5, NoClone DEF IInv
<1>6. CASE ~CoreIsClean
  <2>1. pc' = "rejected"
    BY <1>1, <1>6
  <2>2. Core \notin fresh
    <3> SUFFICES ASSUME Core \in fresh PROVE FALSE
      OBVIOUS
    <3>1. Fine(Core)
      BY <1>1 DEF IInv, FreshInv, Ended, Healing
    <3>2. Wanted(Core) = {} /\ clone[Core] \in Clone
      BY <1>2, Constants DEF IInv, TypeOK
    <3>3. /\ ~clone[Core].untracked
          /\ clone[Core].index.commit = clone[Core].head
          /\ clone[Core].tree.commit = clone[Core].head
          /\ clone[Core].index.patches = {}
          /\ clone[Core].tree.patches = {} /\ clone[Core].tree.half = {}
      BY <3>1, <3>2 DEF Fine
    <3>4. clone[Core].index = [commit |-> clone[Core].head, patches |-> {}]
      BY <3>2, <3>3 DEF Clone
    <3>5. clone[Core].tree =
            [commit |-> clone[Core].head, patches |-> {}, half |-> {}]
      BY <3>2, <3>3 DEF Clone
    <3> QED
      BY <1>2, <1>6, <3>3, <3>4, <3>5 DEF CoreIsClean
  <2>3. LoopInv'
    BY <2>1 DEF LoopInv, Healing, Preparing
  <2>4. FreshInv'
    BY <1>1, <1>2, <2>1, <2>2 DEF FreshInv, Ended, HealedIsAccepted, repo
  <2> QED
    BY <1>1, <1>3, <2>3, <2>4, NoClone DEF IInv
<1> QED
  BY <1>5, <1>6

LEMMA FailIInv == ASSUME IInv, Fail PROVE IInv'
<1>1. pc' = "failed" /\ UNCHANGED <<release, clone, todo, left, fresh>>
  BY DEF Fail
<1> QED
  BY <1>1, EndedLoop, NoClone DEF IInv, TypeOK

\* A run starts with nothing behind it.
LEMMA StartIInv == ASSUME IInv, Start PROVE IInv'
<1>1. /\ pc' = "pin" /\ todo' = Order /\ left' = <<>> /\ fresh' = {}
      /\ UNCHANGED <<release, clone>>
  BY DEF Start
<1>2. LoopTypes' /\ fresh' \subseteq Repo
  BY <1>1, Loops DEF LoopTypes
<1>3. LoopInv' /\ FreshInv'
  BY <1>1, Loops DEF LoopInv, FreshInv, Healing, Preparing, HealedIsAccepted
<1> QED
  BY <1>1, <1>2, <1>3, NoClone DEF IInv

\* What was wanted of an earlier release stays so.
LEMMA PullIInv == ASSUME IInv, Pull PROVE IInv'
<1>1. /\ release \in Release /\ release < MaxRelease /\ release' = release + 1
      /\ pc' = "idle" /\ UNCHANGED <<clone, todo, left, fresh>>
  BY DEF Pull, IInv, TypeOK
<1>2. release' \in Release /\ 1 .. release \subseteq 1 .. release'
  BY <1>1, BoundAssumption DEF Release
<1>3. LoopTypes' /\ LoopInv' /\ FreshInv'
  BY <1>1, EndedLoop
<1>4. TypeOK'
  BY <1>1, <1>2, <1>3 DEF IInv, TypeOK, LoopTypes
<1>5. ClonesAreSound'
  BY <1>1, <1>2 DEF IInv, ClonesAreSound, Sound
<1> QED
  BY <1>3, <1>4, <1>5 DEF IInv

\* The patch at the head of the loop is wanted, and clashes with nothing.
LEMMA Applicable ==
  ASSUME IInv, pc = "patch", ~AlreadyApplied(Head(left)), Applies(Head(left)),
         NEW x \in Repo, x = repo
  PROVE  /\ x \in Range(Patched)
         /\ Head(left) \in Patch /\ Head(left) \in Wanted(x)
         /\ Head(left) \in Range(Patches[release][x])
         /\ Head(left) \notin clone[x].tree.patches
         /\ here = clone[x] /\ clone[x] \in Clone /\ AtPin(x)
         /\ clone[x].tree.commit # 0
         /\ clone[x].index.commit = clone[x].tree.commit
         /\ \A q \in (clone[x].tree.patches \ {Hand}) \cup clone[x].tree.half :
              File[q] # File[Head(left)]
<1>1. /\ todo \in Seq(Repo) /\ todo # <<>> /\ left \in Seq(Patch) /\ left # <<>>
      /\ Range(todo) \subseteq Range(Patched)
      /\ Range(left) \subseteq Wanted(x) /\ AtPin(x)
      /\ clone[x] \in Clone
  BY DEF IInv, TypeOK, LoopInv, Ended, Preparing
<1>2. Head(left) \in Patch /\ Head(left) \in Range(left) /\ x \in Range(todo)
  BY <1>1, Heads DEF repo
<1>3. x \in Range(Patched) /\ Head(left) \in Wanted(x)
  BY <1>1, <1>2
<1>4. Head(left) \in Range(Patches[release][x])
  BY <1>3 DEF Wanted
<1>5. here = clone[x]
  BY DEF here
<1> QED
  BY <1>1, <1>2, <1>3, <1>4, <1>5 DEF Applies, AlreadyApplied

\* One more patch in a clone, whole in the files and the index.
LEMMA ApplyIInv == ASSUME IInv, Apply PROVE IInv'
<1>1. PICK x \in Repo : x = repo
  BY Constants DEF IInv, Apply, Ended
<1>2. PICK p : p = Head(left)
  OBVIOUS
<1>3. /\ pc = "patch" /\ PatchNext /\ UNCHANGED <<release, fresh>>
      /\ ~AlreadyApplied(p) /\ Applies(p)
      /\ clone' = [clone EXCEPT ![x].tree.patches = @ \cup {p},
                                ![x].index.patches = @ \cup {p}]
      /\ clone \in [Repo -> Clone]
  BY <1>1, <1>2 DEF Apply, IInv, TypeOK
<1>4. /\ p \in Patch /\ p \in Wanted(x) /\ here = clone[x] /\ clone[x] \in Clone
      /\ clone[x].tree.commit # 0
      /\ \A q \in (clone[x].tree.patches \ {Hand}) \cup clone[x].tree.half :
           File[q] # File[p]
  BY <1>1, <1>2, <1>3, Applicable
<1>5. /\ clone'[x] = [clone[x] EXCEPT !.tree.patches = @ \cup {p},
                                      !.index.patches = @ \cup {p}]
      /\ \A r \in Repo \ {x} : clone'[r] = clone[r]
  BY <1>3
<1>6. /\ clone'[x].dir = clone[x].dir /\ clone'[x].head = clone[x].head
      /\ clone'[x].untracked = clone[x].untracked
      /\ clone'[x].index = [clone[x].index EXCEPT !.patches = @ \cup {p}]
      /\ clone'[x].tree = [clone[x].tree EXCEPT !.patches = @ \cup {p}]
  BY <1>4, <1>5 DEF Clone
<1>7. /\ clone[x].index \in [commit : 0 .. MaxCommit, patches : SUBSET Patch]
      /\ clone[x].tree \in [commit : 0 .. MaxCommit,
           patches : SUBSET (Patch \cup {Hand}), half : SUBSET Patch]
  BY <1>4 DEF Clone
<1>8. /\ clone'[x].index \in [commit : 0 .. MaxCommit, patches : SUBSET Patch]
      /\ clone'[x].tree \in [commit : 0 .. MaxCommit,
           patches : SUBSET (Patch \cup {Hand}), half : SUBSET Patch]
      /\ clone'[x].index.commit = clone[x].index.commit
      /\ clone'[x].tree.commit = clone[x].tree.commit
      /\ clone'[x].tree.half = clone[x].tree.half
      /\ clone'[x].index.patches = clone[x].index.patches \cup {p}
      /\ clone'[x].tree.patches = clone[x].tree.patches \cup {p}
  BY <1>4, <1>6, <1>7
<1>9. clone'[x] \in Clone
  <2>1. [clone[x].index EXCEPT !.patches = @ \cup {p}]
          \in [commit : 0 .. MaxCommit, patches : SUBSET Patch]
    BY <1>4, <1>7
  <2>2. [clone[x].tree EXCEPT !.patches = @ \cup {p}]
          \in [commit : 0 .. MaxCommit, patches : SUBSET (Patch \cup {Hand}),
               half : SUBSET Patch]
    BY <1>4, <1>7
  <2> QED
    BY <1>4, <1>5, <2>1, <2>2 DEF Clone
<1>10. clone' \in [Repo -> Clone]
  BY <1>3, <1>5, <1>9
<1>11. Sound(x)'
  <2>1. Sound(x)
    BY DEF IInv, ClonesAreSound
  <2> QED
    BY <1>3, <1>4, <1>6, <1>8, <2>1 DEF Sound
<1>12. \A r \in Repo : /\ AtPin(r) => AtPin(r)'
                       /\ clone'[r].tree.commit = clone[r].tree.commit
                       /\ clone[r].tree.patches \subseteq clone'[r].tree.patches
  BY <1>3, <1>5, <1>6, <1>8 DEF AtPin
<1>13. /\ LoopTypes' /\ LoopInv'
       /\ pc' \in {"patch", "untracked", "status"}
  BY <1>1, <1>2, <1>3, <1>4, <1>8, <1>12, PatchNextLoop
<1>14. FreshInv'
  <2>1. ASSUME NEW r \in fresh PROVE Fine(r)'
    <3>1. Fine(r) /\ r \in Repo
      BY <1>3 DEF IInv, TypeOK, FreshInv, Ended, Healing
    <3>2. CASE r = x
      BY <1>3, <1>4, <1>6, <1>8, <3>1, <3>2 DEF Fine, Wanted
    <3>3. CASE r # x
      BY <1>3, <1>5, <3>1, <3>3 DEF Fine, Wanted
    <3> QED
      BY <3>2, <3>3
  <2> QED
    BY <1>3, <1>13, <2>1 DEF FreshInv, HealedIsAccepted
<1>15. fresh' \subseteq Repo
  BY <1>3 DEF IInv, TypeOK
<1> QED
  BY <1>3, <1>5, <1>9, <1>10, <1>11, <1>13, <1>14, <1>15, OneClone DEF IInv

\* What ends a run, or happens between two, only has to leave sound clones.
LEMMA CutIInv ==
  ASSUME IInv, UNCHANGED <<release, todo, left, fresh>>,
         pc' \in {"idle", "failed"},
         NEW x \in Repo, clone' = [clone EXCEPT ![x] = clone'[x]],
         clone'[x].dir = clone[x].dir, clone'[x].head = clone[x].head,
         clone'[x].index = clone[x].index, clone'[x] \in Clone, Sound(x)'
  PROVE  IInv'
<1>1. LoopTypes' /\ LoopInv' /\ FreshInv'
  BY EndedLoop
<1>2. /\ \A r \in Repo \ {x} : clone'[r] = clone[r]
      /\ clone' \in [Repo -> Clone] /\ fresh' \subseteq Repo
  BY DEF IInv, TypeOK
<1> QED
  BY <1>1, <1>2, OneClone DEF IInv

\* A clone whose files and marks are replaced is still a clone.
LEMMA Replaced ==
  ASSUME NEW c \in Clone, NEW u \in BOOLEAN,
         NEW t \in [commit : 0 .. MaxCommit,
                    patches : SUBSET (Patch \cup {Hand}), half : SUBSET Patch]
  PROVE  [dir |-> c.dir, head |-> c.head, untracked |-> u, index |-> c.index,
          tree |-> t] \in Clone
<1>1. /\ c.dir \in BOOLEAN /\ c.head \in 0 .. MaxCommit
      /\ c.index \in [commit : 0 .. MaxCommit, patches : SUBSET Patch]
  BY DEF Clone
<1> QED
  BY <1>1 DEF Clone

LEMMA CheckoutCutIInv == ASSUME IInv, CheckoutCut PROVE IInv'
<1>1. PICK x \in Repo : x = repo /\ here = clone[x]
  BY Constants DEF IInv, CheckoutCut, Ended, here
<1>2. PICK u \in {here.untracked, TRUE} :
        clone' = [clone EXCEPT ![x].tree = NoFiles.tree, ![x].untracked = u]
  BY <1>1 DEF CheckoutCut
<1>3. /\ pc' = "failed" /\ UNCHANGED <<release, todo, left, fresh>>
      /\ clone \in [Repo -> Clone] /\ clone[x] \in Clone
  BY DEF CheckoutCut, IInv, TypeOK
<1>4. /\ clone'[x] = [clone[x] EXCEPT !.tree = NoFiles.tree, !.untracked = u]
      /\ clone' = [clone EXCEPT ![x] = clone'[x]]
  BY <1>2, <1>3
<1>5. u \in BOOLEAN /\ NoFiles.tree \in
        [commit : 0 .. MaxCommit, patches : SUBSET (Patch \cup {Hand}),
         half : SUBSET Patch]
  <2>1. here.untracked \in BOOLEAN
    BY <1>1, <1>3 DEF Clone
  <2>2. u \in BOOLEAN
    BY <1>2, <2>1
  <2> QED
    BY <2>2, BoundAssumption DEF NoFiles
<1>6. clone'[x] = [dir |-> clone[x].dir, head |-> clone[x].head,
                   untracked |-> u, index |-> clone[x].index,
                   tree |-> NoFiles.tree]
  BY <1>3, <1>4 DEF Clone
<1>7. clone'[x] \in Clone
  BY <1>3, <1>5, <1>6, Replaced
<1>8. Sound(x)'
  BY <1>6 DEF Sound, NoFiles
<1> QED
  BY <1>3, <1>4, <1>6, <1>7, <1>8, CutIInv

\* A part of a patch, or all of it but not in the index.
LEMMA ApplyCutIInv == ASSUME IInv, ApplyCut PROVE IInv'
<1>1. PICK x \in Repo : x = repo
  BY Constants DEF IInv, ApplyCut, Ended
<1>2. PICK p : p = Head(left)
  OBVIOUS
<1>3. /\ pc = "patch" /\ pc' = "failed" /\ UNCHANGED <<release, todo, left, fresh>>
      /\ ~AlreadyApplied(p) /\ Applies(p)
      /\ clone \in [Repo -> Clone] /\ release \in Release
  BY <1>2 DEF ApplyCut, IInv, TypeOK
<1>4. /\ p \in Patch /\ p \in Range(Patches[release][x]) /\ AtPin(x)
      /\ here = clone[x] /\ clone[x] \in Clone
      /\ \A q \in (clone[x].tree.patches \ {Hand}) \cup clone[x].tree.half :
           File[q] # File[p]
  BY <1>1, <1>2, <1>3, Applicable
<1>5. clone[x].tree \in [commit : 0 .. MaxCommit,
        patches : SUBSET (Patch \cup {Hand}), half : SUBSET Patch]
  BY <1>4 DEF Clone
<1>6. Sound(x) /\ release \in 1 .. release
  BY <1>3 DEF IInv, ClonesAreSound, Release
<1>7. ASSUME NEW u \in BOOLEAN,
             clone' = [clone EXCEPT ![x].tree.half = @ \cup {p},
                                    ![x].untracked = u]
      PROVE  IInv'
  <2>1. /\ clone'[x] = [clone[x] EXCEPT !.tree.half = @ \cup {p}, !.untracked = u]
        /\ clone' = [clone EXCEPT ![x] = clone'[x]]
    BY <1>3, <1>7
  <2>2. PICK t : t = [clone[x].tree EXCEPT !.half = @ \cup {p}]
    OBVIOUS
  <2>3. /\ t \in [commit : 0 .. MaxCommit,
             patches : SUBSET (Patch \cup {Hand}), half : SUBSET Patch]
        /\ t.commit = clone[x].tree.commit /\ t.patches = clone[x].tree.patches
        /\ t.half = clone[x].tree.half \cup {p}
    BY <1>4, <1>5, <2>2
  <2>4. clone'[x] = [dir |-> clone[x].dir, head |-> clone[x].head,
                     untracked |-> u, index |-> clone[x].index, tree |-> t]
    BY <1>4, <2>1, <2>2 DEF Clone
  <2>5. clone'[x] \in Clone
    BY <1>4, <1>7, <2>3, <2>4, Replaced
  <2>6. Sound(x)'
    BY <1>3, <1>4, <1>6, <2>3, <2>4 DEF Sound, AtPin
  <2> QED
    BY <1>3, <2>1, <2>4, <2>5, <2>6, CutIInv
<1>8. ASSUME NEW u \in BOOLEAN,
             clone' = [clone EXCEPT ![x].tree.patches = @ \cup {p},
                                    ![x].untracked = u]
      PROVE  IInv'
  <2>1. /\ clone'[x] = [clone[x] EXCEPT !.tree.patches = @ \cup {p},
                                        !.untracked = u]
        /\ clone' = [clone EXCEPT ![x] = clone'[x]]
    BY <1>3, <1>8
  <2>2. PICK t : t = [clone[x].tree EXCEPT !.patches = @ \cup {p}]
    OBVIOUS
  <2>3. /\ t \in [commit : 0 .. MaxCommit,
             patches : SUBSET (Patch \cup {Hand}), half : SUBSET Patch]
        /\ t.commit = clone[x].tree.commit /\ t.half = clone[x].tree.half
        /\ t.patches = clone[x].tree.patches \cup {p}
    BY <1>4, <1>5, <2>2
  <2>4. clone'[x] = [dir |-> clone[x].dir, head |-> clone[x].head,
                     untracked |-> u, index |-> clone[x].index, tree |-> t]
    BY <1>4, <2>1, <2>2 DEF Clone
  <2>5. clone'[x] \in Clone
    BY <1>4, <1>8, <2>3, <2>4, Replaced
  <2>6. Sound(x)'
    BY <1>3, <1>4, <1>6, <2>3, <2>4 DEF Sound
  <2> QED
    BY <1>3, <2>1, <2>4, <2>5, <2>6, CutIInv
<1>9. PICK u \in {here.untracked, p \in Adds} :
        \/ clone' = [clone EXCEPT ![x].tree.half = @ \cup {p},
                                  ![x].untracked = u]
        \/ clone' = [clone EXCEPT ![x].tree.patches = @ \cup {p},
                                  ![x].untracked = p \in Adds]
  BY <1>1, <1>2 DEF ApplyCut
<1>10. u \in BOOLEAN /\ (p \in Adds) \in BOOLEAN
  <2>1. here.untracked \in BOOLEAN
    BY <1>4 DEF Clone
  <2>2. (p \in Adds) \in BOOLEAN
    OBVIOUS
  <2> QED
    BY <1>9, <2>1, <2>2
<1> QED
  BY <1>7, <1>8, <1>9, <1>10

\* Nobody is modelled to edit the index, so an edit is like a patch by hand.
LEMMA EditIInv == ASSUME IInv, NEW x \in Repo, Edit(x) PROVE IInv'
<1>1. /\ pc' = "idle" /\ UNCHANGED <<release, todo, left, fresh>>
      /\ clone \in [Repo -> Clone] /\ clone[x] \in Clone /\ Sound(x)
  BY DEF Edit, IInv, TypeOK, ClonesAreSound
<1>2. CASE clone' = [clone EXCEPT ![x].tree.patches = @ \cup {Hand}]
  <2>1. /\ clone'[x] = [clone[x] EXCEPT !.tree.patches = @ \cup {Hand}]
        /\ clone' = [clone EXCEPT ![x] = clone'[x]]
    BY <1>1, <1>2
  <2>2. PICK t : t = [clone[x].tree EXCEPT !.patches = @ \cup {Hand}]
    OBVIOUS
  <2>3. clone[x].tree \in [commit : 0 .. MaxCommit,
          patches : SUBSET (Patch \cup {Hand}), half : SUBSET Patch]
    BY <1>1 DEF Clone
  <2>4. /\ t \in [commit : 0 .. MaxCommit,
             patches : SUBSET (Patch \cup {Hand}), half : SUBSET Patch]
        /\ t.commit = clone[x].tree.commit /\ t.half = clone[x].tree.half
        /\ t.patches = clone[x].tree.patches \cup {Hand}
    BY <2>2, <2>3
  <2>5. clone'[x] = [dir |-> clone[x].dir, head |-> clone[x].head,
                     untracked |-> clone[x].untracked,
                     index |-> clone[x].index, tree |-> t]
    BY <1>1, <2>1, <2>2 DEF Clone
  <2>6. clone'[x] \in Clone
    BY <1>1, <2>4, <2>5 DEF Clone
  <2>7. Sound(x)'
    BY <1>1, <2>4, <2>5 DEF Sound
  <2> QED
    BY <1>1, <2>1, <2>5, <2>6, <2>7, CutIInv
<1>3. CASE clone' = [clone EXCEPT ![x].untracked = TRUE]
  <2>1. /\ clone'[x] = [clone[x] EXCEPT !.untracked = TRUE]
        /\ clone' = [clone EXCEPT ![x] = clone'[x]]
    BY <1>1, <1>3
  <2>2. clone'[x] = [dir |-> clone[x].dir, head |-> clone[x].head,
                     untracked |-> TRUE, index |-> clone[x].index,
                     tree |-> clone[x].tree]
    BY <1>1, <2>1 DEF Clone
  <2>3. clone'[x] \in Clone
    BY <1>1, <2>2 DEF Clone
  <2>4. Sound(x)'
    BY <1>1, <2>2 DEF Sound
  <2> QED
    BY <1>1, <2>1, <2>2, <2>3, <2>4, CutIInv
<1> QED
  BY <1>2, <1>3 DEF Edit

LEMMA NextIInv == IInv /\ [Next]_vars => IInv'
<1> SUFFICES ASSUME IInv, [Next]_vars PROVE IInv'
  OBVIOUS
<1>1. CASE Pull \/ (\E r \in Repo : Edit(r)) \/ Start
  BY <1>1, PullIInv, EditIInv, StartIInv
<1>2. CASE CloneRepo \/ KeepPinned \/ ForceHead \/ Clean \/ CheckoutPin
  BY <1>2, CloneRepoIInv, KeepPinnedIInv, ForceHeadIInv, CleanIInv,
     CheckoutPinIInv
<1>3. CASE Reject \/ NoneUntracked \/ Skip \/ Apply \/ CoreStatus
  BY <1>3, RejectIInv, NoneUntrackedIInv, SkipIInv, ApplyIInv, CoreStatusIInv
<1>4. CASE Fail \/ CheckoutCut \/ ApplyCut
  BY <1>4, FailIInv, CheckoutCutIInv, ApplyCutIInv
<1>5. CASE UNCHANGED vars
  BY <1>5 DEF vars, IInv, TypeOK, Ended, ClonesAreSound, Sound, LoopInv,
     Healing, Preparing, AtPin, Applied, Wanted, here, repo, pin, FreshInv,
     Fine, HealedIsAccepted
<1> QED
  BY <1>1, <1>2, <1>3, <1>4, <1>5 DEF Next

LEMMA Invariance == Spec => []IInv
<1> QED
  BY InitIInv, NextIInv, PTL DEF Spec

-----------------------------------------------------------------------------
(***************************************************************************)
(* The theorems                                                            *)
(***************************************************************************)
\* The types hold whatever initialize.py is interrupted in, and a loop of it
\* or of prepare_shell.py in progress has an element to visit.
THEOREM TypeCorrect == Spec => []TypeOK
<1>1. IInv => TypeOK
  BY DEF IInv
<1> QED
  BY Invariance, <1>1, PTL

\* initialize.py: a run that succeeds leaves each patched repository at its
\* pin with every patch whole, and the Core as its pin has it, for any number
\* of earlier runs that were cut off anywhere.
THEOREM SuccessfulRunsPin == Spec => []SuccessIsPinned
<1>1. ASSUME IInv, pc = "done", NEW r \in Range(Patched)
      PROVE  /\ clone[r].tree.commit = Pin[release][r]
             /\ Wanted(r) \subseteq clone[r].tree.patches
             /\ clone[r].tree.half = {}
  <2>1. /\ r \in Repo /\ Wanted(r) = Range(Patches[release][r])
        /\ Wanted(r) \subseteq Patch
    BY <1>1, Constants DEF IInv
  <2>2. AtPin(r) /\ Applied(r) /\ Sound(r)
    BY <1>1, <2>1 DEF IInv, LoopInv, ClonesAreSound
  <2>3. /\ clone[r].tree.commit = Pin[release][r]
        /\ Wanted(r) \subseteq clone[r].tree.patches
    BY <2>2 DEF AtPin, Applied, Sound
  <2>4. ASSUME NEW p \in clone[r].tree.half
        PROVE  FALSE
    <3>1. PICK m \in 1 .. release : /\ Pin[m][r] = Pin[release][r]
                                    /\ p \in Range(Patches[m][r])
      BY <2>2 DEF Sound, AtPin
    <3>2. release \in Release
      BY <1>1 DEF IInv, TypeOK
    <3>3. PICK q \in Wanted(r) : File[p] = File[q]
      BY <2>1, <3>1, <3>2, FileAssumption
    <3>4. q \in clone[r].tree.patches \ {Hand}
      BY <2>1, <2>3, <3>3, PatchAssumption
    <3> QED
      BY <2>2, <3>3, <3>4 DEF Sound
  <2> QED
    BY <2>3, <2>4
<1>2. IInv => SuccessIsPinned
  BY <1>1 DEF IInv, LoopInv, SuccessIsPinned
<1> QED
  BY Invariance, <1>2, PTL

\* initialize.py heals: a clone that this run made or took to a new pin is
\* accepted by all that follows, whatever an earlier run left in it.
THEOREM HealedClonesAccepted == Spec => []HealedIsAccepted
<1>1. IInv => HealedIsAccepted
  BY DEF IInv, FreshInv
<1> QED
  BY Invariance, <1>1, PTL

\* initialize.py is idempotent: no run, not even one that is cut off, touches
\* a clone that is as the lock and the patches want it.
THEOREM RightClonesStay == Spec => RerunTouchesNothing
<1>1. ASSUME IInv, [Next]_vars, ~Ended, NEW r \in Repo, Right(r)
      PROVE  clone'[r] = clone[r]
  <2>1. PICK x \in Repo : x = repo /\ here = clone[x] /\ pin = Pin[release][x]
    BY <1>1, Constants DEF IInv, here, pin
  <2>2. /\ clone \in [Repo -> Clone] /\ Pin[release][r] # 0
        /\ clone[r].dir /\ clone[r].head = Pin[release][r]
        /\ clone[r].index.commit = clone[r].head
        /\ clone[r].tree.commit = clone[r].head
        /\ clone[r].tree.patches = Wanted(r)
    <3>1. Pin[release][r] \in 1 .. MaxCommit
      BY <1>1, Constants DEF IInv
    <3> QED
      BY <1>1, <3>1 DEF IInv, TypeOK, Right
  <2>3. r # x => clone'[r] = clone[r]
    BY <1>1, <2>1, <2>2 DEF Next, vars, Pull, Edit, Start, Ended, CloneRepo,
       KeepPinned, ForceHead, Clean, CheckoutPin, Reject, NoneUntracked, Skip,
       Apply, CoreStatus, Fail, CheckoutCut, ApplyCut
  <2>4. CASE r = x
    <3>1. ~CloneRepo /\ ~ForceHead
      BY <2>1, <2>2, <2>4 DEF CloneRepo, ForceHead
    <3>2. ~Clean /\ ~CheckoutPin /\ ~CheckoutCut
      BY <1>1, <2>1, <2>2, <2>4 DEF Clean, CheckoutPin, CheckoutCut, IInv,
         LoopInv
    <3>3. ~Apply /\ ~ApplyCut
      BY <1>1, <2>1, <2>2, <2>4, Applicable DEF Apply, ApplyCut
    <3> QED
      BY <1>1, <3>1, <3>2, <3>3 DEF Next, vars, Pull, Edit, Start, Ended,
         KeepPinned, Reject, NoneUntracked, Skip, CoreStatus, Fail
  <2> QED
    BY <2>3, <2>4
<1>2. IInv /\ [Next]_vars =>
        [~Ended => \A r \in Repo : Right(r) => clone'[r] = clone[r]]_vars
  BY <1>1
<1> QED
  BY Invariance, <1>2, PTL DEF Spec, RerunTouchesNothing
=============================================================================
