------------------------------ MODULE ShellJobs ------------------------------
(****************************************************************************)
(* Jobs of the shell in hw1/shell.c, run from a terminal: forking, handing  *)
(* the terminal over, waiting for the foreground job, and the "wait"        *)
(* command.  Children run, stop, go on and end whenever they like; one step *)
(* per system call that another process can notice.                         *)
(****************************************************************************)
EXTENDS Integers, FiniteSets

CONSTANTS
  Pids,         \* what fork may return, used again once reaped
  Shell,        \* the shell's own process group
  NoPid,        \* fork's -1
  MaxFailures   \* bound: forks that fail

ASSUME ShellJobsAssumption ==
  /\ Shell \notin Pids /\ NoPid \notin Pids /\ MaxFailures \in Nat
  /\ IsFiniteSet(Pids)

VARIABLES
  pc,         \* where main is; in fgets at "prompt"
  job,        \* pid
  inBack,     \* the last word of the line was &
  i,          \* cmd_wait's counter
  numBack,
  child,      \* what each process is up to
  behind,     \* the children launched with &
  tty,        \* the terminal's foreground process group
  failures,   \* forks that failed so far
  strayed     \* history: a stopped foreground job went on, or was killed,
              \* after the shell had let go of it

shell == <<pc, job, inBack, i, numBack>>
history == <<failures, strayed>>
vars == <<shell, child, behind, tty, history>>

Children == {p \in Pids : child[p] # "none"}
Stopped == {p \in Pids : child[p] \in {"stopped", "parked"}}
GoTo(here, there) == pc = here /\ pc' = there

\* init_shell.
Init ==
  /\ pc = "prompt" /\ job = NoPid /\ inBack = FALSE /\ i = -1 /\ numBack = 0
  /\ child = [p \in Pids |-> "none"] /\ behind = {}
  /\ tty = Shell /\ failures = 0 /\ strayed = FALSE

------------------------------------------------------------------------------
(* A program is launched.                                                   *)

Fork(p, b) ==
  /\ GoTo("prompt", "parent") /\ child[p] = "none"
  /\ child' = [child EXCEPT ![p] = "born"]
  /\ behind' = IF b THEN behind \cup {p} ELSE behind \ {p}
  /\ job' = p /\ inBack' = b
  /\ UNCHANGED <<i, numBack, tty, history>>

\* -1 goes to the parent's branch.
ForkFails(b) ==
  /\ GoTo("prompt", "parent") /\ failures < MaxFailures
  /\ failures' = failures + 1
  /\ job' = NoPid /\ inBack' = b
  /\ UNCHANGED <<i, numBack, child, behind, tty, strayed>>

\* Mutant: the job is not counted.
CountedNot == numBack

Counted == numBack + 1

Background ==
  /\ GoTo("parent", "prompt") /\ inBack
  /\ numBack' = Counted
  /\ UNCHANGED <<job, inBack, i, child, behind, tty, history>>

\* tcsetpgrp fails as long as the child has no group of its own.
GiveTerminal ==
  /\ GoTo("parent", "await") /\ ~inBack
  /\ tty' = IF job \in Pids /\ child[job] # "born" THEN job ELSE tty
  /\ UNCHANGED <<job, inBack, i, numBack, child, behind, history>>

\* Mutant: waitpid without WUNTRACED.
ReportedOnlyEnd(p) == child[p] = "zombie"

\* WUNTRACED: a child that stops is reported, once.
Reported(p) == child[p] \in {"zombie", "stopped"}

\* Mutant: wait for whichever child comes first.
AwaitedAny == Children

\* waitpid(-1) is for any child.
Awaited == IF job = NoPid THEN Children ELSE {job}

AwaitReturns ==
  /\ GoTo("await", "reclaim")
  /\ \/ \E p \in Awaited :
          /\ Reported(p)
          /\ child' = [child EXCEPT ![p] = IF @ = "zombie" THEN "none" ELSE "parked"]
     \/ Awaited = {} /\ UNCHANGED child
  /\ UNCHANGED <<job, inBack, i, numBack, behind, tty, history>>

\* Mutant: the terminal stays with the child.
TerminalAfterChild == tty

\* SIGTTOU is ignored, so the shell may take the terminal from the background.
TerminalAfter == Shell

Reclaim ==
  /\ GoTo("reclaim", "prompt") /\ tty' = TerminalAfter
  /\ UNCHANGED <<job, inBack, i, numBack, child, behind, history>>

------------------------------------------------------------------------------
(* cmd_wait.                                                                *)

WaitCall ==
  /\ GoTo("prompt", "wait") /\ i' = numBack - 1
  /\ UNCHANGED <<job, inBack, numBack, child, behind, tty, history>>

\* Mutant: a wait without children does not count as one.
LeftAfterNoChild == IF Children = {} THEN i + 1 ELSE i

\* Mutant: one is taken off twice.
LeftTwice == i - 1

\* numBack after a turn of the loop.
Left == i

\* wait takes any child that has ended, or fails at once if there is none.
WaitTurn ==
  /\ pc = "wait" /\ i >= 0
  /\ \/ \E p \in Pids : child[p] = "zombie" /\ child' = [child EXCEPT ![p] = "none"]
     \/ Children = {} /\ UNCHANGED child
  /\ numBack' = Left /\ i' = Left - 1
  /\ UNCHANGED <<pc, job, inBack, behind, tty, history>>

WaitDone ==
  /\ GoTo("wait", "prompt") /\ i < 0
  /\ UNCHANGED <<job, inBack, i, numBack, child, behind, tty, history>>

\* exit, the end of the input, or a blank line, whose last word is NULL.
Quit ==
  /\ GoTo("prompt", "gone")
  /\ UNCHANGED <<job, inBack, i, numBack, child, behind, tty, history>>

------------------------------------------------------------------------------
(* The children and the user at the terminal.                               *)

Turn(p, from, to) ==
  /\ pc # "gone" /\ child[p] \in from
  /\ child' = [child EXCEPT ![p] = to]
  /\ UNCHANGED <<shell, behind, tty, failures>>

SetGroup(p) == Turn(p, {"born"}, "running") /\ UNCHANGED strayed

\* The program ends, cannot be found or cannot be executed.
Exit(p) == Turn(p, {"running"}, "zombie") /\ UNCHANGED strayed

\* Reading from the terminal stops a process that is not in the foreground.
ReadStops(p) == tty # p /\ Turn(p, {"running"}, "stopped") /\ UNCHANGED strayed

\* ^Z.
Suspend(p) == tty = p /\ Turn(p, {"running"}, "stopped") /\ UNCHANGED strayed

\* SIGCONT or SIGKILL from elsewhere.
Signalled(p) ==
  /\ \E to \in {"running", "zombie"} : Turn(p, {"stopped", "parked"}, to)
  /\ strayed' = (strayed \/ (child[p] = "parked" /\ p \notin behind))

\* ^C at the shell; at a child it is an Exit.
Interrupt ==
  /\ pc # "gone" /\ tty = Shell /\ pc' = "gone"
  /\ UNCHANGED <<job, inBack, i, numBack, child, behind, tty, history>>

------------------------------------------------------------------------------
Main ==
  \/ Background \/ GiveTerminal \/ AwaitReturns \/ Reclaim
  \/ WaitTurn \/ WaitDone

Line ==
  \/ \E b \in BOOLEAN : (\E p \in Pids : Fork(p, b)) \/ ForkFails(b)
  \/ WaitCall \/ Quit

Child(p) == SetGroup(p) \/ Exit(p) \/ ReadStops(p) \/ Suspend(p) \/ Signalled(p)

Next == Main \/ Line \/ Interrupt \/ \E p \in Pids : Child(p)

Spec == Init /\ [][Next]_vars

\* The shell goes on whenever it can, a new process gets its group, and a
\* program that gets to run again and again comes to its end.
FairSpec ==
  /\ Spec /\ WF_vars(Main)
  /\ \A p \in Pids : WF_vars(SetGroup(p)) /\ SF_vars(Exit(p))

------------------------------------------------------------------------------
(* Correctness.                                                             *)

\* numBack is never negative, and the rest is of its type.
TypeOK ==
  /\ pc \in {"prompt", "parent", "await", "reclaim", "wait", "gone"}
  /\ job \in Pids \cup {NoPid} /\ inBack \in BOOLEAN
  /\ numBack \in Nat /\ i \in Int
  /\ child \in [Pids -> {"none", "born", "running", "stopped", "parked", "zombie"}]
  /\ behind \subseteq Pids /\ tty \in Pids \cup {Shell}
  /\ failures \in 0 .. MaxFailures /\ strayed \in BOOLEAN

\* The terminal is the shell's, except while the shell waits for the very job
\* that has it: the shell never reads commands from the background.
TerminalOK == tty # Shell => pc \in {"await", "reclaim", "gone"} /\ tty = job

\* As long as forks succeed and stopped foreground jobs stay stopped, numBack
\* counts the background children not yet reaped, also inside cmd_wait.
Settled == failures = 0 /\ ~strayed
Unreaped == {p \in behind : child[p] # "none"}
NumBackOK == Settled /\ pc \in {"prompt", "wait"} => numBack = Cardinality(Unreaped)

\* At the prompt every foreground job has ended or is stopped: none runs on
\* beside the shell, unless somebody else makes a stopped one go on.
ForegroundOK ==
  pc \in {"prompt", "wait"} /\ ~strayed =>
    \A p \in Pids \ behind : child[p] \in {"none", "parked"}

\* After a foreground job the prompt comes back, also when the job only stops.
\* Without a fork that failed: waitpid(-1) may wait for a job long stopped.
PromptAgain ==
  (pc \in {"parent", "await", "reclaim"} /\ failures = 0) ~> (pc \in {"prompt", "gone"})

\* cmd_wait comes to its end, unless a stopped job holds it up.
WaitReturns == (pc = "wait") ~> (pc # "wait" \/ Stopped # {})

\* cmd_wait "waits for all background processes".
WaitsForAll ==
  [][pc = "wait" /\ pc' = "prompt" => \A p \in behind : child[p] = "none"]_vars
==============================================================================
