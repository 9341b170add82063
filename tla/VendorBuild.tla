------------------------------ MODULE VendorBuild -------------------------------
(****************************************************************************)
(* Library jobs of one build: scripts/rsc_build_hal_lib.sh, which fetches    *)
(* the vendor tree by scripts/clone_cubewl.sh if it is missing, compiles     *)
(* what is out of date and archives it.  rsc_build_image.sh fetches the tree  *)
(* in the same words.  Jobs run in parallel, fail, are killed and run again. *)
(* git, the network and the compiler are external.  git promises no order in *)
(* which the files of a checkout appear.                                     *)
(****************************************************************************)
EXTENDS Integers

CONSTANTS Job,      \* the cores a library is built for
          Source,   \* the HAL driver's sources without the marker
          Marker    \* stm32wlxx_hal_ipcc.c, whose presence stands for the whole tree

VARIABLES clone,     \* STM32CubeWL/.git: "none", "partial" or "whole"
          tree,      \* the parts of the tree that are there: sources and headers
          lock,      \* holder of the flock
          pc,        \* where each job is
          todo,      \* the sources a job has found by the glob, not yet looked at
          running,   \* a job's compilations in the background
          compiled,  \* the script's variable
          object,    \* object[j]: sources with an object newer than they are
          library,   \* library[j]: sources whose present content is in the library
          exists,    \* the library file is there
          whole,     \* history: the job's glob found all sources
          locked,    \* history: the job took its turn under the lock
          torn,      \* history: an update ended early, with the marker there
          killed     \* history: a job has been killed

fetch == <<clone, tree, lock, locked>>
build == <<todo, running, compiled, object, library, exists, whole>>
vars == <<fetch, build, pc, torn, killed>>

Headers == "CMSIS"
Sources == Source \cup {Marker}
Parts == Sources \cup {Headers}
Free == "free"

ASSUME NamesAssumption == Marker \notin Source /\ Free \notin Job

Init == /\ clone = "none" /\ tree = {} /\ lock = Free
        /\ pc = [j \in Job |-> "idle"]
        /\ todo = [j \in Job |-> {}] /\ running = [j \in Job |-> {}]
        /\ compiled = [j \in Job |-> FALSE]
        /\ object = [j \in Job |-> {}] /\ library = [j \in Job |-> {}]
        /\ exists = [j \in Job |-> FALSE]
        /\ whole = [j \in Job |-> FALSE] /\ locked = [j \in Job |-> FALSE]
        /\ torn = FALSE /\ killed = FALSE

Goto(j, from, to) == pc[j] = from /\ pc' = [pc EXCEPT ![j] = to]
Ended(j) == pc[j] \in {"idle", "done", "failed"}

----------------------------------------------------------------------------
(* Fetching the tree.                                                       *)

\* The compilers that a failed run has left behind are through by then.
Start(j) == /\ Ended(j) /\ running[j] = {}
            /\ pc' = [pc EXCEPT ![j] = "look"]
            /\ compiled' = [compiled EXCEPT ![j] = FALSE]
            /\ locked' = [locked EXCEPT ![j] = FALSE]
            /\ UNCHANGED <<clone, tree, lock, todo, running, object, library, exists, whole, torn, killed>>

\* The build script's own test of the marker, then the clone script's fast path.
Look(j) == /\ Goto(j, "look", IF Marker \in tree THEN "glob" ELSE "fast")
           /\ UNCHANGED <<fetch, build, torn, killed>>
FastPath(j) == /\ Goto(j, "fast", IF Marker \in tree THEN "glob" ELSE "flock")
               /\ UNCHANGED <<fetch, build, torn, killed>>

Flock(j) == /\ Goto(j, "flock", "recheck")
            /\ lock = Free /\ lock' = j
            /\ locked' = [locked EXCEPT ![j] = TRUE]
            /\ UNCHANGED <<clone, tree, build, torn, killed>>

Recheck(j) ==
    /\ Goto(j, "recheck", IF Marker \in tree THEN "glob" ELSE "clone")
    /\ lock' = IF Marker \in tree THEN Free ELSE lock
    /\ UNCHANGED <<clone, tree, locked, build, torn, killed>>

\* git clone makes .git first.  When it fails it removes what it has made, but keeps
\* a .git that it has fetched and only could not check out.
StartClone(j) == /\ Goto(j, "clone", IF clone = "none" THEN "cloning" ELSE "update")
                 /\ clone' = IF clone = "none" THEN "partial" ELSE clone
                 /\ UNCHANGED <<tree, lock, locked, build, torn, killed>>
\* Slip: the lock is a file that the script removes at its end, which a failure skips.
EndCloneKeepsLock(j) ==
    \/ /\ Goto(j, "cloning", "update") /\ clone' = "whole"
       /\ UNCHANGED <<tree, lock, locked, build, torn, killed>>
    \/ /\ Goto(j, "cloning", "failed") /\ clone' \in {"none", "whole"}
       /\ UNCHANGED <<tree, lock, locked, build, torn, killed>>
EndClone(j) ==
    \/ /\ Goto(j, "cloning", "update") /\ clone' = "whole"
       /\ UNCHANGED <<tree, lock, locked, build, torn, killed>>
    \/ /\ Goto(j, "cloning", "failed") /\ clone' \in {"none", "whole"} /\ lock' = Free
       /\ UNCHANGED <<tree, locked, build, torn, killed>>

\* `git submodule update` fails before it writes a file (no network, an unusable .git) ...
StartUpdate(j) ==
    \/ /\ clone = "whole" /\ Goto(j, "update", "checkout")
       /\ UNCHANGED <<fetch, build, torn, killed>>
    \/ /\ Goto(j, "update", "failed") /\ lock' = Free
       /\ UNCHANGED <<clone, tree, locked, build, torn, killed>>

\* An update that ends here leaves a marker that stands for more than there is.
Half == Marker \in tree /\ tree # Parts

\* Slip: the script leaves once the marker is there, without waiting for git.
CheckoutToMarker(j) ==
    \/ /\ pc[j] = "checkout" /\ Marker \notin tree
       /\ \E p \in Parts \ tree : tree' = tree \cup {p}
       /\ UNCHANGED <<clone, lock, pc, locked, build, torn, killed>>
    \/ /\ Goto(j, "checkout", "glob") /\ Marker \in tree /\ lock' = Free
       /\ UNCHANGED <<clone, tree, locked, build, torn, killed>>
    \/ /\ Goto(j, "checkout", "failed") /\ lock' = Free /\ torn' = (torn \/ Half)
       /\ UNCHANGED <<clone, tree, locked, build, killed>>
\* ... or at any file (the disk is full, the recorded commit of the other submodule cannot
\* be fetched), and `bash -e` ends the script with what is there.
Checkout(j) ==
    \/ /\ pc[j] = "checkout"
       /\ \E p \in Parts \ tree : tree' = tree \cup {p}
       /\ UNCHANGED <<clone, lock, pc, locked, build, torn, killed>>
    \/ /\ Goto(j, "checkout", "glob") /\ tree = Parts /\ lock' = Free
       /\ UNCHANGED <<clone, tree, locked, build, torn, killed>>
    \/ /\ Goto(j, "checkout", "failed") /\ lock' = Free /\ torn' = (torn \/ Half)
       /\ UNCHANGED <<clone, tree, locked, build, killed>>

----------------------------------------------------------------------------
(* Compiling and archiving.                                                 *)

Glob(j) == /\ Goto(j, "glob", "compile")
           /\ todo' = [todo EXCEPT ![j] = tree \cap Sources]
           /\ whole' = [whole EXCEPT ![j] = Sources \subseteq tree]
           /\ UNCHANGED <<fetch, running, compiled, object, library, exists, torn, killed>>

\* One turn of the loop.  Until it is written the object is older than its source.
Compile(j) == /\ pc[j] = "compile"
              /\ \E s \in todo[j] :
                     /\ todo' = [todo EXCEPT ![j] = @ \ {s}]
                     /\ IF s \in object[j]
                        THEN UNCHANGED <<running, compiled>>
                        ELSE /\ running' = [running EXCEPT ![j] = @ \cup {s}]
                             /\ compiled' = [compiled EXCEPT ![j] = TRUE]
              /\ UNCHANGED <<fetch, pc, object, library, exists, whole, torn, killed>>

\* Slip: a bare `wait`, which does not tell of a compilation that failed.
WaitBare(j) ==
    /\ \E s \in running[j] :
           /\ running' = [running EXCEPT ![j] = @ \ {s}]
           /\ \/ Headers \in tree /\ object' = [object EXCEPT ![j] = @ \cup {s}]
              \/ UNCHANGED object
    /\ UNCHANGED <<fetch, todo, pc, compiled, library, exists, whole, torn, killed>>
\* A compilation ends; the script sees it when it waits for it, and leaves if it has
\* failed.  The other compilations go on.
Wait(j) ==
    /\ \E s \in running[j] :
           /\ running' = [running EXCEPT ![j] = @ \ {s}]
           /\ \/ /\ Headers \in tree /\ object' = [object EXCEPT ![j] = @ \cup {s}]
                 /\ UNCHANGED pc
              \/ /\ pc' = [pc EXCEPT ![j] = IF @ = "compile" THEN "failed" ELSE @]
                 /\ UNCHANGED object
    /\ UNCHANGED <<fetch, todo, compiled, library, exists, whole, torn, killed>>

\* After the last flush: nothing to do, or the old library is removed ...
Remove(j) ==
    /\ pc[j] = "compile" /\ todo[j] = {} /\ running[j] = {}
    /\ IF compiled[j] \/ ~exists[j]
       THEN /\ pc' = [pc EXCEPT ![j] = "archive"]
            /\ exists' = [exists EXCEPT ![j] = FALSE]
            /\ library' = [library EXCEPT ![j] = {}]
       ELSE pc' = [pc EXCEPT ![j] = "done"] /\ UNCHANGED <<exists, library>>
    /\ UNCHANGED <<fetch, todo, running, compiled, object, whole, torn, killed>>
\* ... and a new one made of all objects, or none if `ar` fails.
Archive(j) ==
    /\ \/ /\ Goto(j, "archive", "done")
          /\ exists' = [exists EXCEPT ![j] = TRUE]
          /\ library' = [library EXCEPT ![j] = object[j]]
       \/ Goto(j, "archive", "failed") /\ UNCHANGED <<exists, library>>
    /\ UNCHANGED <<fetch, todo, running, compiled, object, whole, torn, killed>>

JobNext(j) == \/ Look(j)
              \/ FastPath(j)
              \/ Flock(j)
              \/ Recheck(j)
              \/ StartClone(j)
              \/ EndClone(j)
              \/ StartUpdate(j)
              \/ Checkout(j)
              \/ Glob(j)
              \/ Compile(j)
              \/ Wait(j)
              \/ Remove(j)
              \/ Archive(j)

----------------------------------------------------------------------------

\* The death of a job's process group; the kernel drops its lock.
Kill(j) == /\ ~Ended(j)
           /\ pc' = [pc EXCEPT ![j] = "failed"]
           /\ lock' = IF lock = j THEN Free ELSE lock
           /\ running' = [running EXCEPT ![j] = {}]
           /\ torn' = (torn \/ (pc[j] = "checkout" /\ Half))
           /\ killed' = TRUE
           /\ UNCHANGED <<clone, tree, locked, todo, compiled, object, library, exists, whole>>

\* A source is changed, between two builds.
Edit == /\ \A j \in Job : Ended(j) /\ running[j] = {}
        /\ \E s \in Sources \cap tree :
               /\ object' = [j \in Job |-> object[j] \ {s}]
               /\ library' = [j \in Job |-> library[j] \ {s}]
        /\ pc' = [j \in Job |-> "idle"]
        /\ UNCHANGED <<fetch, todo, running, compiled, exists, whole, torn, killed>>

Next == \/ \E j \in Job : Start(j) \/ JobNext(j) \/ Kill(j)
        \/ Edit

\* A job that is started runs; flock is granted in some order, but a job that ends
\* hands it to those that wait.
Fairness == \A j \in Job : SF_vars(Flock(j)) /\ WF_vars(JobNext(j))

Spec == Init /\ [][Next]_vars
FairSpec == Spec /\ Fairness

----------------------------------------------------------------------------

\* "The first caller clones while the others wait, then they see a ready tree and
\* return" (clone_cubewl.sh): a job that takes its turn under the lock goes on with the
\* whole tree, whatever failed or was killed before, unless that was an update which had
\* written the marker and not yet the rest.
LockedSeeTree == \A j \in Job :
    pc[j] = "glob" /\ locked[j] /\ ~torn => tree = Parts

\* "Re-runs only pay for what changed" (rsc_build_hal_lib.sh): after whatever failed
\* and repeated builds, the library of a job that has ended well, and had all sources
\* before it, holds them all as they are, unless some job was killed.
LibraryIsCurrent == \A j \in Job :
    pc[j] = "done" /\ whole[j] /\ ~killed => library[j] = Sources

\* Nobody is left waiting for the lock: every job comes to an end, also if the one that
\* holds the lock fails or is killed.
JobsEnd == \A j \in Job : pc[j] = "flock" ~> Ended(j)

\* "Safe to call concurrently ... the whole body runs under an flock"
\* (clone_cubewl.sh); "the parallel image builds cannot race here" (rsc_build_image.sh):
\* no job builds from a tree that is not whole.
NoHalfTree == \A j \in Job : pc[j] = "glob" => tree = Parts
=================================================================================
