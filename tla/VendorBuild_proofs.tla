---------------------------- MODULE VendorBuild_proofs ---------------------------
(****************************************************************************)
(* Proofs about the vendor tree and the libraries, for any jobs and any      *)
(* sources: what the lock ensures until an update ends with half a tree, and *)
(* that a library that was built is what its sources are.                    *)
(****************************************************************************)
EXTENDS VendorBuild, TLAPS

\* The part of the script that runs under the lock.
Locked == {"recheck", "clone", "cloning", "update", "checkout"}

TypeInv == /\ pc \in [Job -> {"idle", "look", "fast", "flock", "glob", "compile", "archive",
                              "done", "failed"} \cup Locked]
           /\ tree \subseteq Parts /\ lock \in Job \cup {Free}
           /\ todo \in [Job -> SUBSET Sources] /\ running \in [Job -> SUBSET Sources]
           /\ object \in [Job -> SUBSET Sources] /\ library \in [Job -> SUBSET Sources]
           /\ compiled \in [Job -> BOOLEAN] /\ exists \in [Job -> BOOLEAN]
           /\ whole \in [Job -> BOOLEAN] /\ locked \in [Job -> BOOLEAN]
           /\ torn \in BOOLEAN

LockInv == \A j \in Job : pc[j] \in Locked <=> lock = j

\* The marker is there without the rest only while a checkout is under way, or after one
\* that ended early.
TreeInv == ~torn =>
    /\ Half => \E j \in Job : pc[j] = "checkout"
    /\ \A j \in Job : /\ pc[j] \in {"look", "fast", "flock"} => ~locked[j]
                      /\ pc[j] = "glob" /\ locked[j] => tree = Parts

\* Compilations run in a run of the script or are left by one that failed.
RunningInv(j) == /\ pc[j] \notin {"compile", "failed"} => running[j] = {}
                 /\ pc[j] = "compile" /\ ~compiled[j] => running[j] = {}
                 /\ todo[j] \cup running[j] \subseteq tree
                 /\ running[j] \cap object[j] = {}

\* A library is older than some object only if the next run will compile something,
\* and so make it anew.
Pending(j) == \E s \in (Sources \cap tree) \ (object[j] \cup running[j]) : TRUE
SoundInv(j) == exists[j] =>
    /\ pc[j] \notin {"compile", "archive"} =>
           object[j] \cup running[j] \subseteq library[j] \/ Pending(j)
    /\ pc[j] = "compile" /\ ~compiled[j] =>
           object[j] \subseteq library[j] \/ todo[j] \ object[j] # {}

\* A run that found all sources has looked at each of them.
WholeInv(j) == whole[j] =>
    /\ pc[j] = "compile" => Sources \subseteq todo[j] \cup running[j] \cup object[j]
    /\ pc[j] = "archive" => Sources \subseteq object[j]
    /\ pc[j] = "done" => library[j] = Sources

ArchiveInv(j) == pc[j] = "archive" => ~exists[j]

JobInv(j) == RunningInv(j) /\ SoundInv(j) /\ WholeInv(j) /\ ArchiveInv(j)

IInv == TypeInv /\ LockInv /\ TreeInv /\ (~killed => \A j \in Job : JobInv(j))

\* An empty tree and a free lock satisfy IInv.
LEMMA InitInv == Init => IInv
<1> SUFFICES ASSUME Init PROVE IInv
    OBVIOUS
<1>1. TypeInv /\ LockInv
      BY NamesAssumption DEF Init, TypeInv, LockInv, Locked
<1>2. TreeInv
      BY DEF Init, TreeInv, Half
<1>3. \A j \in Job : JobInv(j)
      BY DEF Init, JobInv, RunningInv, SoundInv, WholeInv, ArchiveInv, Pending
<1>4. QED
      BY <1>1, <1>2, <1>3 DEF IInv

----------------------------------------------------------------------------
(* The lock and the tree: one step of the scripts at a time.                *)

\* Every step keeps the types.
LEMMA TypeStep == TypeInv /\ [Next]_vars => TypeInv'
<1> SUFFICES ASSUME TypeInv, [Next]_vars PROVE TypeInv'
    OBVIOUS
<1> USE DEF TypeInv, Locked, Goto, Sources, Parts, fetch, build
<1>1. ASSUME NEW j \in Job, Start(j) \/ JobNext(j) \/ Kill(j) PROVE TypeInv'
  <2>1. CASE Start(j)
        BY <2>1 DEF Start
  <2>2. CASE Look(j)
        BY <2>2 DEF Look
  <2>3. CASE FastPath(j)
        BY <2>3 DEF FastPath
  <2>4. CASE Flock(j)
        BY <2>4 DEF Flock
  <2>5. CASE Recheck(j)
        BY <2>5 DEF Recheck
  <2>6. CASE StartClone(j)
        BY <2>6 DEF StartClone
  <2>7. CASE EndClone(j)
        BY <2>7 DEF EndClone
  <2>8. CASE StartUpdate(j)
        BY <2>8 DEF StartUpdate
  <2>9. CASE Checkout(j)
        BY <2>9 DEF Checkout
  <2>10. CASE Glob(j)
        BY <2>10 DEF Glob
  <2>11. CASE Compile(j)
    <3>1. PICK s \in todo[j] :
            /\ todo' = [todo EXCEPT ![j] = @ \ {s}]
            /\ IF s \in object[j]
               THEN UNCHANGED <<running, compiled>>
               ELSE /\ running' = [running EXCEPT ![j] = @ \cup {s}]
                    /\ compiled' = [compiled EXCEPT ![j] = TRUE]
          BY <2>11 DEF Compile
    <3>2. s \in Sources
          OBVIOUS
    <3>3. running' \in [Job -> SUBSET Sources] /\ todo' \in [Job -> SUBSET Sources]
          BY <3>1, <3>2
    <3>4. QED
          BY <2>11, <3>1, <3>3 DEF Compile
  <2>12. CASE Wait(j)
        BY <2>12 DEF Wait
  <2>13. CASE Remove(j)
        BY <2>13 DEF Remove
  <2>14. CASE Archive(j)
        BY <2>14 DEF Archive
  <2>15. CASE Kill(j)
        BY <2>15 DEF Kill
  <2>16. QED
        BY <1>1, <2>1, <2>2, <2>3, <2>4, <2>5, <2>6, <2>7, <2>8, <2>9, <2>10,
           <2>11, <2>12, <2>13, <2>14, <2>15 DEF JobNext
<1>2. CASE Edit
      BY <1>2 DEF Edit
<1>3. CASE UNCHANGED vars
      BY <1>3 DEF vars
<1>4. QED
      BY <1>1, <1>2, <1>3 DEF Next

\* The lock goes with the locked part of the script.
LEMMA LockStep == TypeInv /\ LockInv /\ [Next]_vars => LockInv'
<1> SUFFICES ASSUME TypeInv, LockInv, [Next]_vars PROVE LockInv'
    OBVIOUS
<1> USE NamesAssumption DEF TypeInv, LockInv, Locked, Goto, Ended, fetch, build
<1>1. ASSUME NEW j \in Job, Start(j) \/ JobNext(j) \/ Kill(j) PROVE LockInv'
  <2>1. CASE Start(j)
        BY <2>1 DEF Start
  <2>2. CASE Look(j)
        BY <2>2 DEF Look
  <2>3. CASE FastPath(j)
        BY <2>3 DEF FastPath
  <2>4. CASE Flock(j)
        BY <2>4 DEF Flock
  <2>5. CASE Recheck(j)
        BY <2>5 DEF Recheck
  <2>6. CASE StartClone(j)
        BY <2>6 DEF StartClone
  <2>7. CASE EndClone(j)
        BY <2>7 DEF EndClone
  <2>8. CASE StartUpdate(j)
        BY <2>8 DEF StartUpdate
  <2>9. CASE Checkout(j)
        BY <2>9 DEF Checkout
  <2>10. CASE Glob(j)
        BY <2>10 DEF Glob
  <2>11. CASE Compile(j)
        BY <2>11 DEF Compile
  <2>12. CASE Wait(j)
        BY <2>12 DEF Wait
  <2>13. CASE Remove(j)
        BY <2>13 DEF Remove
  <2>14. CASE Archive(j)
        BY <2>14 DEF Archive
  <2>15. CASE Kill(j)
        BY <2>15 DEF Kill
  <2>16. QED
        BY <1>1, <2>1, <2>2, <2>3, <2>4, <2>5, <2>6, <2>7, <2>8, <2>9, <2>10,
           <2>11, <2>12, <2>13, <2>14, <2>15 DEF JobNext
<1>2. CASE Edit
      BY <1>2 DEF Edit
<1>3. CASE UNCHANGED vars
      BY <1>3 DEF vars
<1>4. QED
      BY <1>1, <1>2, <1>3 DEF Next

\* Who finds the marker under the lock finds everything: nobody else is in the middle of
\* a checkout.
LEMMA TreeStep == TypeInv /\ LockInv /\ TreeInv /\ [Next]_vars => TreeInv'
<1> SUFFICES ASSUME TypeInv, LockInv, TreeInv, [Next]_vars, ~torn' PROVE TreeInv'
    BY DEF TreeInv
<1> USE DEF TypeInv, TreeInv, Half, Goto, Ended, fetch, build
<1>1. ASSUME NEW j \in Job, Start(j) \/ JobNext(j) PROVE TreeInv'
  <2>1. CASE Start(j)
        BY <2>1 DEF Start
  <2>2. CASE Look(j)
        BY <2>2 DEF Look
  <2>3. CASE FastPath(j)
        BY <2>3 DEF FastPath
  <2>4. CASE Flock(j)
        BY <2>4 DEF Flock
  <2>5. CASE Recheck(j)
        BY <2>5 DEF Recheck, LockInv, Locked, Parts, Sources
  <2>6. CASE StartClone(j)
        BY <2>6 DEF StartClone
  <2>7. CASE EndClone(j)
        BY <2>7 DEF EndClone
  <2>8. CASE StartUpdate(j)
        BY <2>8 DEF StartUpdate
  <2>9. CASE Checkout(j)
        BY <2>9 DEF Checkout, Parts
  <2>10. CASE Glob(j)
        BY <2>10 DEF Glob
  <2>11. CASE Compile(j)
        BY <2>11 DEF Compile
  <2>12. CASE Wait(j)
        BY <2>12 DEF Wait
  <2>13. CASE Remove(j)
        BY <2>13 DEF Remove
  <2>14. CASE Archive(j)
        BY <2>14 DEF Archive
  <2>15. QED
        BY <1>1, <2>1, <2>2, <2>3, <2>4, <2>5, <2>6, <2>7, <2>8, <2>9, <2>10,
           <2>11, <2>12, <2>13, <2>14 DEF JobNext
<1>2. ASSUME NEW j \in Job, Kill(j) PROVE TreeInv'
      BY <1>2 DEF Kill
<1>3. CASE Edit
      BY <1>3 DEF Edit
<1>4. CASE UNCHANGED vars
      BY <1>4 DEF vars
<1>5. QED
      BY <1>1, <1>2, <1>3, <1>4 DEF Next

----------------------------------------------------------------------------
(* One job's run, from the glob to the archive.                             *)

\* What the other jobs do, or this one before its glob, only lets the tree grow.
LEMMA FramedStep ==
    ASSUME TypeInv, NEW j \in Job, JobInv(j), tree \subseteq tree',
           pc'[j] = pc[j] \/ {pc[j], pc'[j]} \cap {"compile", "archive", "done"} = {},
           pc[j] = "failed" => pc'[j] = "failed" \/ running[j] = {},
           todo'[j] = todo[j], running'[j] = running[j],
           pc'[j] = "compile" => compiled'[j] = compiled[j],
           object'[j] = object[j], library'[j] = library[j], exists'[j] = exists[j],
           whole'[j] = whole[j]
    PROVE  JobInv(j)'
<1> USE DEF TypeInv, JobInv
<1>1. RunningInv(j)'
      BY DEF RunningInv
<1>2. SoundInv(j)'
      BY DEF SoundInv, Pending
<1>3. WholeInv(j)' /\ ArchiveInv(j)'
      BY DEF WholeInv, ArchiveInv
<1>4. QED
      BY <1>1, <1>2, <1>3

\* A step of another job takes nothing away from this one's build.
LEMMA OtherStep ==
    ASSUME TypeInv, NEW j \in Job, NEW k \in Job \ {j}, Start(k) \/ JobNext(k), JobInv(j)
    PROVE  JobInv(j)'
<1> DEFINE Same == /\ tree \subseteq tree' /\ pc'[j] = pc[j] /\ todo'[j] = todo[j]
                   /\ running'[j] = running[j] /\ compiled'[j] = compiled[j]
                   /\ object'[j] = object[j] /\ library'[j] = library[j]
                   /\ exists'[j] = exists[j] /\ whole'[j] = whole[j]
<1>1. Same
  <2> USE DEF TypeInv, Goto, fetch, build
  <2>1. CASE Start(k)
        BY <2>1 DEF Start
  <2>2. CASE Look(k)
        BY <2>2 DEF Look
  <2>3. CASE FastPath(k)
        BY <2>3 DEF FastPath
  <2>4. CASE Flock(k)
        BY <2>4 DEF Flock
  <2>5. CASE Recheck(k)
        BY <2>5 DEF Recheck
  <2>6. CASE StartClone(k)
        BY <2>6 DEF StartClone
  <2>7. CASE EndClone(k)
        BY <2>7 DEF EndClone
  <2>8. CASE StartUpdate(k)
        BY <2>8 DEF StartUpdate
  <2>9. CASE Checkout(k)
        BY <2>9 DEF Checkout
  <2>10. CASE Glob(k)
        BY <2>10 DEF Glob
  <2>11. CASE Compile(k)
        BY <2>11 DEF Compile
  <2>12. CASE Wait(k)
        BY <2>12 DEF Wait
  <2>13. CASE Remove(k)
        BY <2>13 DEF Remove
  <2>14. CASE Archive(k)
        BY <2>14 DEF Archive
  <2>15. QED
        BY <2>1, <2>2, <2>3, <2>4, <2>5, <2>6, <2>7, <2>8, <2>9, <2>10,
           <2>11, <2>12, <2>13, <2>14 DEF JobNext
<1>2. QED
      BY <1>1, FramedStep

\* Before the glob.
LEMMA FetchStep ==
    ASSUME TypeInv, NEW j \in Job, JobInv(j),
           \/ Look(j) \/ FastPath(j) \/ Flock(j) \/ Recheck(j) \/ StartClone(j)
           \/ EndClone(j) \/ StartUpdate(j) \/ Checkout(j)
    PROVE  JobInv(j)'
<1> DEFINE Same == /\ tree \subseteq tree' /\ UNCHANGED build
                   /\ pc[j] \in {"look", "fast", "flock"} \cup Locked
                   /\ pc'[j] \in {"look", "fast", "flock", "glob", "failed"} \cup Locked
<1>1. Same
  <2> USE DEF TypeInv, Goto, fetch, Locked
  <2>1. CASE Look(j)
        BY <2>1 DEF Look
  <2>2. CASE FastPath(j)
        BY <2>2 DEF FastPath
  <2>3. CASE Flock(j)
        BY <2>3 DEF Flock
  <2>4. CASE Recheck(j)
        BY <2>4 DEF Recheck
  <2>5. CASE StartClone(j)
        BY <2>5 DEF StartClone
  <2>6. CASE EndClone(j)
        BY <2>6 DEF EndClone
  <2>7. CASE StartUpdate(j)
        BY <2>7 DEF StartUpdate
  <2>8. CASE Checkout(j)
        BY <2>8 DEF Checkout
  <2>9. QED
        BY <2>1, <2>2, <2>3, <2>4, <2>5, <2>6, <2>7, <2>8
<1>2. QED
      BY <1>1, FramedStep DEF build, Locked

\* A failed compilation leaves a source that is in the tree and has no object: the
\* next run has something to compile.
LEMMA BuildStep ==
    ASSUME TypeInv, NEW j \in Job, JobInv(j),
           Glob(j) \/ Compile(j) \/ Wait(j) \/ Remove(j) \/ Archive(j)
    PROVE  JobInv(j)'
<1> USE DEF TypeInv, Goto, fetch, JobInv
<1>1. CASE Glob(j)
  <2> USE <1>1 DEF Glob
  <2>1. RunningInv(j)'
        BY DEF RunningInv
  <2>2. SoundInv(j)'
        BY DEF SoundInv, Pending, RunningInv, ArchiveInv
  <2>3. WholeInv(j)'
        BY DEF WholeInv, SoundInv, RunningInv
  <2>4. ArchiveInv(j)'
        BY DEF ArchiveInv
  <2>5. QED
        BY <2>1, <2>2, <2>3, <2>4
<1>2. CASE Compile(j)
  <2> USE <1>2 DEF Compile
  <2>1. RunningInv(j)'
        BY DEF RunningInv
  <2>2. SoundInv(j)'
        BY DEF SoundInv, Pending, RunningInv, ArchiveInv
  <2>3. WholeInv(j)'
        BY DEF WholeInv, SoundInv, RunningInv
  <2>4. ArchiveInv(j)'
        BY DEF ArchiveInv
  <2>5. QED
        BY <2>1, <2>2, <2>3, <2>4
<1>3. CASE Wait(j)
  <2> USE <1>3 DEF Wait
  <2>1. RunningInv(j)'
        BY DEF RunningInv
  <2>2. SoundInv(j)'
        BY DEF SoundInv, Pending, RunningInv, ArchiveInv
  <2>3. WholeInv(j)'
        BY DEF WholeInv, SoundInv, RunningInv
  <2>4. ArchiveInv(j)'
        BY DEF ArchiveInv
  <2>5. QED
        BY <2>1, <2>2, <2>3, <2>4
<1>4. CASE Remove(j)
  <2> USE <1>4 DEF Remove
  <2>1. RunningInv(j)'
        BY DEF RunningInv
  <2>2. SoundInv(j)'
        BY DEF SoundInv, Pending, RunningInv, ArchiveInv
  <2>3. WholeInv(j)'
        BY DEF WholeInv, SoundInv, RunningInv
  <2>4. ArchiveInv(j)'
        BY DEF ArchiveInv
  <2>5. QED
        BY <2>1, <2>2, <2>3, <2>4
<1>5. CASE Archive(j)
  <2> USE <1>5 DEF Archive
  <2>1. RunningInv(j)'
        BY DEF RunningInv
  <2>2. SoundInv(j)'
        BY DEF SoundInv, Pending, RunningInv, ArchiveInv
  <2>3. WholeInv(j)'
        BY DEF WholeInv, SoundInv, RunningInv
  <2>4. ArchiveInv(j)'
        BY DEF ArchiveInv
  <2>5. QED
        BY <2>1, <2>2, <2>3, <2>4
<1>6. QED
      BY <1>1, <1>2, <1>3, <1>4, <1>5

\* A job that starts again finds what its last run has left.
LEMMA StartStep ==
    ASSUME TypeInv, NEW j \in Job, JobInv(j), Start(j)
    PROVE  JobInv(j)'
<1> USE DEF TypeInv, JobInv, Start, Ended
<1>1. RunningInv(j)'
      BY DEF RunningInv
<1>2. SoundInv(j)'
      BY DEF SoundInv, Pending
<1>3. WholeInv(j)' /\ ArchiveInv(j)'
      BY DEF WholeInv, ArchiveInv
<1>4. QED
      BY <1>1, <1>2, <1>3

\* A changed source has no object any more, so every library has to be made again.
LEMMA EditStep ==
    ASSUME TypeInv, NEW j \in Job, JobInv(j), Edit
    PROVE  JobInv(j)'
<1>1. PICK s \in Sources \cap tree : /\ object'[j] = object[j] \ {s}
                                    /\ library'[j] = library[j] \ {s}
      BY DEF Edit
<1>2. /\ running[j] = {} /\ pc'[j] = "idle"
      /\ UNCHANGED <<tree, todo, running, exists, whole>>
      BY DEF Edit, TypeInv, fetch
<1>3. RunningInv(j)'
      BY <1>1, <1>2 DEF JobInv, RunningInv
<1>4. SoundInv(j)'
      BY <1>1, <1>2 DEF SoundInv, Pending
<1>5. WholeInv(j)' /\ ArchiveInv(j)'
      BY <1>2 DEF WholeInv, ArchiveInv
<1>6. QED
      BY <1>3, <1>4, <1>5 DEF JobInv

----------------------------------------------------------------------------

\* No step leaves IInv.
LEMMA StepInv == IInv /\ [Next]_vars => IInv'
<1> SUFFICES ASSUME IInv, [Next]_vars PROVE IInv'
    OBVIOUS
<1>1. TypeInv' /\ LockInv' /\ TreeInv'
      BY TypeStep, LockStep, TreeStep DEF IInv
<1>2. ASSUME ~killed', NEW j \in Job PROVE JobInv(j)'
  <2>1. ASSUME NEW k \in Job, Start(k) \/ JobNext(k) PROVE ~killed
    <3> USE DEF Goto
    <3>1. CASE Start(k)
          BY <1>2, <3>1 DEF Start
    <3>2. CASE JobNext(k)
          BY <1>2, <3>2 DEF JobNext, Look, FastPath, Flock, Recheck, StartClone, EndClone,
             StartUpdate, Checkout, Glob, Compile, Wait, Remove, Archive
    <3>3. QED
          BY <2>1, <3>1, <3>2
  <2>2. ASSUME NEW k \in Job, Start(k) \/ JobNext(k) PROVE JobInv(j)'
    <3>1. TypeInv /\ JobInv(j)
          BY <2>1, <2>2 DEF IInv
    <3>2. CASE k # j
          BY <2>2, <3>1, <3>2, OtherStep
    <3>3. CASE k = j
          BY <2>2, <3>1, <3>3, StartStep, FetchStep, BuildStep DEF JobNext
    <3>4. QED
          BY <3>2, <3>3
  <2>3. ASSUME NEW k \in Job, Kill(k) PROVE JobInv(j)'
        BY <1>2, <2>3 DEF Kill
  <2>4. CASE Edit
    <3>1. TypeInv /\ JobInv(j)
          BY <1>2, <2>4 DEF Edit, IInv
    <3>2. QED
          BY <2>4, <3>1, EditStep
  <2>5. CASE UNCHANGED vars
    <3>1. TypeInv /\ JobInv(j) /\ UNCHANGED <<tree, pc, build>>
          BY <1>2, <2>5 DEF vars, fetch, IInv
    <3>2. QED
          BY <3>1, FramedStep DEF build
  <2>6. QED
        BY <2>2, <2>3, <2>4, <2>5 DEF Next
<1>3. QED
      BY <1>1, <1>2 DEF IInv

\* The whole invariant holds in every behaviour of the scripts.
THEOREM Invariance == Spec => []IInv
<1>1. Init => IInv
      BY InitInv
<1>2. IInv /\ [Next]_vars => IInv'
      BY StepInv
<1>3. QED
      BY <1>1, <1>2, PTL DEF Spec

\* At most one job looks at the tree and fetches it under the lock, whoever was killed
\* before, and a job that has failed, ended or was killed holds up nobody: the kernel takes
\* back the flock of a job that dies.  This is the safety half of JobsEnd.
OneFetches == /\ \A j, k \in Job : pc[j] \in Locked /\ pc[k] \in Locked => j = k
              /\ \A j \in Job : pc[j] \in {"idle", "flock", "done", "failed"} => lock # j

\* The flock of clone_cubewl.sh is what it is for, any number of jobs, failures and kills.
THEOREM FetchesExclude == Spec => []OneFetches
<1>1. IInv => OneFetches
  <2> SUFFICES ASSUME LockInv PROVE OneFetches
      BY DEF IInv
  <2>1. ASSUME NEW j \in Job, NEW k \in Job, pc[j] \in Locked, pc[k] \in Locked
        PROVE  j = k
    <3>1. lock = j /\ lock = k
          BY <2>1 DEF LockInv
    <3>2. QED
          BY <3>1
  <2>2. ASSUME NEW j \in Job, pc[j] \in {"idle", "flock", "done", "failed"}
        PROVE  lock # j
        BY <2>2 DEF LockInv, Locked
  <2>3. QED
        BY <2>1, <2>2 DEF OneFetches
<1>2. QED
      BY <1>1, Invariance, PTL

\* Whoever takes his turn under the lock of clone_cubewl.sh goes on with the whole tree,
\* for any number of jobs and sources and whatever failed or was killed, until an update
\* ends with the marker there and not the rest.
THEOREM WaitersSeeTree == Spec => []LockedSeeTree
<1>1. IInv => LockedSeeTree
      BY DEF IInv, TreeInv, LockedSeeTree
<1>2. QED
      BY <1>1, Invariance, PTL

\* A library job of rsc_build_hal_lib.sh that ends well leaves a library made of its
\* sources as they are, after any failed, repeated and partial builds.
THEOREM LibrariesAreCurrent == Spec => []LibraryIsCurrent
<1>1. IInv => LibraryIsCurrent
      BY DEF IInv, JobInv, WholeInv, LibraryIsCurrent
<1>2. QED
      BY <1>1, Invariance, PTL
=================================================================================
