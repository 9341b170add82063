----------------------------- MODULE CoopSingleStack -----------------------------
(****************************************************************************)
(* Two tasks that jump straight into each other on the one stack there is:   *)
(*   led     single_core/09_os_coop_single_stack, both images;               *)
(*   count   examples/coop1.cc, whose tasks have a local counter.            *)
(* main calls each task once, from the same depth of the stack; the task     *)
(* leaves its frame for good by longjmp and is later resumed in it.  The two *)
(* frames are one piece of memory, and so are the two counters: compilers    *)
(* keep a local of a function that calls setjmp in memory.                   *)
(****************************************************************************)
EXTENDS Integers

CONSTANT Limit    \* executions are counted modulo Limit

VARIABLES jumpers,   \* "led" or "count"
          here,      \* what runs: main, the task, or, in no context, "lost"
          self,      \* the task that runs
          filled,    \* the tasks whose context has been saved
          word,      \* the stack word where both frames have their counter
          ran,       \* history: the task that executed last
          runs,      \* history: each task's executions
          printed    \* "count": the number each task printed last

vars == <<jumpers, here, self, filled, word, ran, runs, printed>>

Task == {0, 1}

Init == /\ jumpers \in {"led", "count"}
        /\ here = "call_one" /\ self = -1
        /\ filled = {}
        /\ word = 0
        /\ ran = -1
        /\ runs = [k \in Task |-> 0] /\ printed = [k \in Task |-> 0]

\* main calls task k, which initialises its counter, saves its context and jumps back.
Bootstrap(k, from, to) == /\ here = from /\ here' = to
                          /\ filled' = filled \cup {k}
                          /\ word' = 0
                          /\ UNCHANGED <<jumpers, self, ran, runs, printed>>
TaskOne == Bootstrap(0, "call_one", "call_two")
TaskTwo == Bootstrap(1, "call_two", "start")

\* longjmp into task k, into an empty buffer if it has not saved its context.
JumpTo(k) == self' = k /\ here' = IF k \in filled THEN "work" ELSE "lost"

\* main's call of longjmp uses the stack below main, where the dead frames are.
Start == /\ here = "start" /\ JumpTo(0)
         /\ word' \in (IF jumpers = "count" THEN 0 .. Limit - 1 ELSE {word})
         /\ UNCHANGED <<jumpers, filled, ran, runs, printed>>

Execute == /\ here = "work" /\ here' = "switch"
           /\ word' = IF jumpers = "count" THEN (word + 1) % Limit ELSE word
           /\ ran' = self
           /\ runs' = [runs EXCEPT ![self] = (@ + 1) % Limit]
           /\ printed' = IF jumpers = "count" THEN [printed EXCEPT ![self] = word'] ELSE printed
           /\ UNCHANGED <<jumpers, self, filled>>

\* Slip: the mirror image of task_one, with one context not renamed.
SwitchToOne == /\ here = "switch" /\ JumpTo(0)
               /\ filled' = filled \cup {self}
               /\ UNCHANGED <<jumpers, word, ran, runs, printed>>
Switch == /\ here = "switch" /\ JumpTo(1 - self)
          /\ filled' = filled \cup {self}
          /\ UNCHANGED <<jumpers, word, ran, runs, printed>>

Next == TaskOne \/ TaskTwo \/ Start \/ Execute \/ Switch

Spec == Init /\ [][Next]_vars

----------------------------------------------------------------------------

\* The type invariant; no task jumps into a context that was never saved.
TypeOK == /\ jumpers \in {"led", "count"}
          /\ here \in {"call_one", "call_two", "start", "work", "switch"}
          /\ self \in Task \cup {-1}
          /\ filled \subseteq Task
          /\ word \in 0 .. Limit - 1
          /\ ran \in Task \cup {-1}
          /\ runs \in [Task -> 0 .. Limit - 1] /\ printed \in [Task -> 0 .. Limit - 1]

Promise == INSTANCE Turns WITH NumTasks <- 2, turn <- ran, shown <- runs

\* "Each does a little work, setjmps to save where it is, and longjmps straight into
\* the other task" (exercise.md of 09): the two tasks alternate.
PingPong == Promise!Spec

\* coop1's single stack "works if no task ever returns and there are essentially two of
\* them ping-ponging" (coop2.cc): each task prints the number of its own executions.
OwnNumbers == jumpers = "count" => \A k \in Task : printed[k] = runs[k]
=================================================================================
