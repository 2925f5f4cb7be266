--------------------------- MODULE ShellJobsProofs ---------------------------
(****************************************************************************)
(* The safety properties of ShellJobs hold for any number of processes and  *)
(* of forks that fail.                                                      *)
(****************************************************************************)
EXTENDS ShellJobs, FiniteSetTheorems, TLAPS

\* What main remembers of the line it is at work on.
JobOK ==
  /\ pc \in {"await", "reclaim"} => ~inBack
  /\ pc \in {"parent", "await", "reclaim"} =>
       /\ job \in Pids => (job \in behind <=> inBack)
       /\ failures = 0 => job \in Pids

\* cmd_wait's counter follows numBack.
LoopOK == pc = "wait" => i = numBack - 1

\* Only the job at hand may be a foreground job that is not stopped for good.
OthersOK ==
  ~strayed /\ pc # "gone" =>
    \A p \in Pids \ behind :
      child[p] \in {"none", "parked"} \/ (pc \in {"parent", "await"} /\ p = job)

\* numBack is right, but for a job forked and not counted yet.
CountOK ==
  Settled /\ pc # "gone" =>
    Cardinality(Unreaped) = IF pc = "parent" /\ inBack THEN numBack + 1 ELSE numBack

IndInv == TypeOK /\ TerminalOK /\ JobOK /\ LoopOK /\ OthersOK /\ CountOK

LEMMA InitIndInv == Init => IndInv
<1> SUFFICES ASSUME Init PROVE IndInv
  OBVIOUS
<1>1. TypeOK
  <2>1. -1 \in Int /\ 0 \in Nat /\ 0 \in 0 .. MaxFailures
    BY ShellJobsAssumption
  <2>2. child \in [Pids -> {"none", "born", "running", "stopped", "parked", "zombie"}]
    BY DEF Init
  <2> QED
    BY <2>1, <2>2, Zenon DEF Init, TypeOK
<1>2. TerminalOK /\ JobOK /\ LoopOK /\ OthersOK
  BY DEF Init, TerminalOK, JobOK, LoopOK, OthersOK
<1>3. Unreaped = {}
  BY DEF Init, Unreaped
<1>4. CountOK
  BY <1>3, FS_EmptySet DEF Init, CountOK
<1> QED
  BY <1>1, <1>2, <1>4 DEF IndInv

Simple == TypeOK /\ TerminalOK /\ JobOK /\ LoopOK /\ OthersOK

LEMMA UnreapedFinite ==
  ASSUME TypeOK PROVE IsFiniteSet(Unreaped) /\ Cardinality(Unreaped) \in Nat
<1>1. Unreaped \subseteq Pids
  BY DEF Unreaped, TypeOK
<1> QED
  BY <1>1, ShellJobsAssumption, FS_Subset, FS_CardinalityType

------------------------------------------------------------------------------
(* Launching.                                                               *)

LEMMA ForkKeeps ==
  ASSUME IndInv, NEW p \in Pids, NEW b \in BOOLEAN, Fork(p, b)
  PROVE  IndInv'
<1> USE ShellJobsAssumption
<1>1. Simple'
  <2>1. TypeOK'
    BY DEF IndInv, Fork, GoTo, history, TypeOK
  <2>2. TerminalOK' /\ LoopOK'
    BY DEF IndInv, Fork, GoTo, history, TypeOK, TerminalOK, LoopOK
  <2>3. JobOK'
    BY DEF IndInv, Fork, GoTo, history, TypeOK, JobOK
  <2>4. OthersOK'
    BY DEF IndInv, Fork, GoTo, history, TypeOK, OthersOK
  <2> QED
    BY <2>1, <2>2, <2>3, <2>4 DEF Simple
<1>2. p \notin Unreaped
  BY DEF Fork, Unreaped
<1>3. Unreaped' = IF b THEN Unreaped \cup {p} ELSE Unreaped
  BY DEF Fork, IndInv, TypeOK, Unreaped
<1>4. Cardinality(Unreaped \cup {p}) = Cardinality(Unreaped) + 1
  BY <1>2, UnreapedFinite, FS_AddElement DEF IndInv
<1>5. CountOK'
  BY <1>3, <1>4 DEF IndInv, CountOK, Settled, Fork, GoTo, history, TypeOK
<1> QED
  BY <1>1, <1>5 DEF IndInv, Simple

LEMMA ForkFailsKeeps ==
  ASSUME IndInv, NEW b \in BOOLEAN, ForkFails(b)
  PROVE  IndInv'
<1> USE ShellJobsAssumption DEF IndInv, ForkFails, GoTo
<1>1. TypeOK' /\ TerminalOK' /\ LoopOK'
  BY DEF TypeOK, TerminalOK, LoopOK
<1>2. JobOK'
  BY DEF TypeOK, JobOK
<1>3. OthersOK'
  BY DEF TypeOK, OthersOK
<1>4. CountOK'
  BY DEF TypeOK, CountOK, Settled
<1> QED
  BY <1>1, <1>2, <1>3, <1>4

LEMMA BackgroundKeeps ==
  ASSUME IndInv, Background
  PROVE  IndInv'
<1> USE ShellJobsAssumption DEF IndInv, Background, Counted, GoTo, history
<1>1. TypeOK' /\ TerminalOK' /\ LoopOK' /\ JobOK'
  BY DEF TypeOK, TerminalOK, LoopOK, JobOK
<1>2. OthersOK'
  BY DEF JobOK, OthersOK
<1>3. CountOK'
  BY DEF TypeOK, CountOK, Settled, Unreaped
<1> QED
  BY <1>1, <1>2, <1>3

LEMMA GiveTerminalKeeps ==
  ASSUME IndInv, GiveTerminal
  PROVE  IndInv'
<1> USE ShellJobsAssumption DEF IndInv, GiveTerminal, GoTo, history
<1>1. TypeOK' /\ TerminalOK' /\ LoopOK' /\ JobOK'
  BY DEF TypeOK, TerminalOK, LoopOK, JobOK
<1>2. OthersOK'
  BY DEF OthersOK
<1>3. CountOK'
  BY DEF CountOK, Settled, Unreaped
<1> QED
  BY <1>1, <1>2, <1>3

------------------------------------------------------------------------------
(* Waiting.                                                                 *)

\* A foreground job that is waited for is not one of those counted.
LEMMA AwaitReturnsKeeps ==
  ASSUME IndInv, AwaitReturns
  PROVE  IndInv'
<1> USE ShellJobsAssumption
<1>1. /\ pc = "await" /\ pc' = "reclaim"
      /\ UNCHANGED <<job, inBack, i, numBack, behind, tty, failures, strayed>>
  BY DEF AwaitReturns, GoTo, history
<1>2. \/ UNCHANGED child /\ job \notin Pids
      \/ \E p \in Awaited :
           /\ p \in Pids /\ child[p] \in {"zombie", "stopped"}
           /\ child' = [child EXCEPT ![p] = IF child[p] = "zombie" THEN "none" ELSE "parked"]
  BY DEF AwaitReturns, Reported, Awaited, Children, IndInv, TypeOK
<1>3. TypeOK'
  BY <1>1, <1>2 DEF IndInv, TypeOK
<1>4. TerminalOK' /\ LoopOK' /\ JobOK'
  BY <1>1 DEF IndInv, TerminalOK, LoopOK, JobOK
<1>5. OthersOK'
  <2> SUFFICES ASSUME ~strayed, NEW q \in Pids \ behind
               PROVE  child'[q] \in {"none", "parked"}
    BY <1>1 DEF OthersOK
  <2>1. child[q] \in {"none", "parked"} \/ q = job
    BY <1>1 DEF IndInv, OthersOK
  <2>2. CASE UNCHANGED child /\ job \notin Pids
    BY <2>1, <2>2
  <2>3. ASSUME NEW p \in Awaited, p \in Pids, child[p] \in {"zombie", "stopped"},
               child' = [child EXCEPT ![p] = IF child[p] = "zombie" THEN "none" ELSE "parked"]
        PROVE  child'[q] \in {"none", "parked"}
    <3>1. child'[q] = IF q = p THEN IF child[p] = "zombie" THEN "none" ELSE "parked"
                      ELSE child[q]
      BY <2>3 DEF IndInv, TypeOK
    <3>2. q = job => p = q
      BY DEF Awaited
    <3> QED
      BY <2>1, <3>1, <3>2
  <2> QED
    BY <1>2, <2>2, <2>3
<1>6. CountOK'
  <2> SUFFICES ASSUME Settled PROVE Unreaped' = Unreaped
    BY <1>1 DEF CountOK, Settled, IndInv
  <2>1. job \in Pids \ behind /\ Awaited = {job}
    BY <1>1 DEF IndInv, JobOK, Settled, Awaited
  <2> QED
    BY <1>1, <1>2, <2>1 DEF Unreaped, IndInv, TypeOK
<1> QED
  BY <1>3, <1>4, <1>5, <1>6 DEF IndInv

LEMMA ReclaimKeeps ==
  ASSUME IndInv, Reclaim
  PROVE  IndInv'
<1> USE ShellJobsAssumption DEF IndInv, Reclaim, TerminalAfter, GoTo, history
<1>1. TypeOK' /\ TerminalOK' /\ LoopOK' /\ JobOK'
  BY DEF TypeOK, TerminalOK, LoopOK, JobOK
<1>2. OthersOK'
  BY DEF OthersOK
<1>3. CountOK'
  BY DEF CountOK, Settled, Unreaped
<1> QED
  BY <1>1, <1>2, <1>3

\* wait takes one of those counted, for nothing else has ended.
LEMMA WaitTurnKeeps ==
  ASSUME IndInv, WaitTurn
  PROVE  IndInv'
<1> USE ShellJobsAssumption
<1>1. /\ pc = "wait" /\ i \in Nat /\ numBack' = i /\ i' = i - 1 /\ i = numBack - 1
      /\ UNCHANGED <<pc, job, inBack, behind, tty, failures, strayed>>
  BY DEF WaitTurn, Left, history, IndInv, TypeOK, LoopOK
<1>2. \/ Children = {} /\ UNCHANGED child
      \/ \E p \in Pids : child[p] = "zombie" /\ child' = [child EXCEPT ![p] = "none"]
  BY DEF WaitTurn
<1>3. TypeOK'
  BY <1>1, <1>2 DEF IndInv, TypeOK
<1>4. TerminalOK' /\ LoopOK' /\ JobOK'
  BY <1>1 DEF IndInv, TypeOK, TerminalOK, LoopOK, JobOK
<1>5. OthersOK'
  BY <1>1, <1>2 DEF IndInv, TypeOK, OthersOK
<1>6. CountOK'
  <2> SUFFICES ASSUME Settled PROVE Cardinality(Unreaped') = i
    BY <1>1 DEF CountOK, Settled
  <2>1. Cardinality(Unreaped) = i + 1
    BY <1>1 DEF IndInv, CountOK, TypeOK
  <2>2. Unreaped # {}
    BY <1>1, <2>1, FS_EmptySet
  <2>3. PICK p \in Pids : child[p] = "zombie" /\ child' = [child EXCEPT ![p] = "none"]
    BY <1>2, <2>2 DEF Children, Unreaped, IndInv, TypeOK
  <2>4. p \in Unreaped
    BY <1>1, <2>3 DEF IndInv, OthersOK, Settled, Unreaped
  <2>5. Unreaped' = Unreaped \ {p}
    BY <1>1, <2>3 DEF Unreaped, IndInv, TypeOK
  <2>6. IsFiniteSet(Unreaped)
    BY UnreapedFinite DEF IndInv
  <2>7. Cardinality(Unreaped \ {p}) = Cardinality(Unreaped) - 1
    BY <2>4, <2>6, FS_RemoveElement
  <2> QED
    BY <1>1, <2>1, <2>5, <2>7
<1> QED
  BY <1>3, <1>4, <1>5, <1>6 DEF IndInv

\* main goes on to its next line, into cmd_wait, out of it, or ends.
LEMMA LineKeeps ==
  ASSUME IndInv, WaitCall \/ WaitDone \/ Quit \/ Interrupt
  PROVE  IndInv'
<1> USE ShellJobsAssumption DEF WaitCall, WaitDone, Quit, Interrupt, GoTo, history
<1>1. TypeOK'
  BY DEF IndInv, TypeOK
<1>2. TerminalOK' /\ JobOK' /\ LoopOK'
  BY DEF IndInv, TerminalOK, JobOK, LoopOK
<1>3. OthersOK'
  BY DEF IndInv, OthersOK
<1>4. CountOK'
  BY DEF IndInv, CountOK, Settled, Unreaped
<1> QED
  BY <1>1, <1>2, <1>3, <1>4 DEF IndInv

------------------------------------------------------------------------------
(* The children.                                                            *)

LEMMA TurnKeeps ==
  ASSUME IndInv, NEW p \in Pids, Child(p)
  PROVE  IndInv'
<1> USE ShellJobsAssumption
<1>1. \E from \in SUBSET {"born", "running", "stopped", "parked"},
           to \in {"running", "stopped", "zombie"} :
        /\ Turn(p, from, to)
        /\ strayed => strayed'
        /\ "parked" \in from => (child[p] = "parked" /\ p \notin behind => strayed')
        /\ strayed' \in BOOLEAN
  <2>1. CASE SetGroup(p) \/ Exit(p) \/ ReadStops(p) \/ Suspend(p)
    <3>1. strayed' = strayed /\ strayed \in BOOLEAN
      BY <2>1 DEF SetGroup, Exit, ReadStops, Suspend, IndInv, TypeOK
    <3>2. \/ Turn(p, {"born"}, "running")
          \/ Turn(p, {"running"}, "zombie") \/ Turn(p, {"running"}, "stopped")
      BY <2>1 DEF SetGroup, Exit, ReadStops, Suspend
    <3> QED
      BY <3>1, <3>2
  <2>2. CASE Signalled(p)
    <3>1. /\ strayed => strayed'
          /\ child[p] = "parked" /\ p \notin behind => strayed'
          /\ strayed' \in BOOLEAN
      BY <2>2, Zenon DEF Signalled, IndInv, TypeOK
    <3>2. Turn(p, {"stopped", "parked"}, "running") \/ Turn(p, {"stopped", "parked"}, "zombie")
      BY <2>2 DEF Signalled
    <3> QED
      BY <3>1, <3>2
  <2> QED
    BY <2>1, <2>2 DEF Child
<1> PICK from \in SUBSET {"born", "running", "stopped", "parked"},
         to \in {"running", "stopped", "zombie"} :
      /\ Turn(p, from, to)
      /\ strayed => strayed'
      /\ "parked" \in from => (child[p] = "parked" /\ p \notin behind => strayed')
      /\ strayed' \in BOOLEAN
  BY <1>1
<1>2. /\ pc # "gone" /\ child[p] \in from /\ child' = [child EXCEPT ![p] = to]
      /\ UNCHANGED <<pc, job, inBack, i, numBack, behind, tty, failures>>
  BY <1>1 DEF Turn, shell
<1>3. TypeOK'
  BY <1>1, <1>2 DEF IndInv, TypeOK
<1>4. TerminalOK' /\ LoopOK' /\ JobOK'
  BY <1>2 DEF IndInv, TerminalOK, LoopOK, JobOK
<1>5. OthersOK'
  <2> SUFFICES ASSUME ~strayed', NEW q \in Pids \ behind
               PROVE  child'[q] \in {"none", "parked"} \/ (pc \in {"parent", "await"} /\ q = job)
    BY <1>2 DEF OthersOK
  <2>1. ~strayed /\ (q = p => child[p] # "parked")
    BY <1>1, <1>2
  <2>2. child[q] \in {"none", "parked"} \/ (pc \in {"parent", "await"} /\ q = job)
    BY <1>2, <2>1 DEF IndInv, OthersOK
  <2> QED
    BY <1>1, <1>2, <2>1, <2>2 DEF IndInv, TypeOK
<1>6. CountOK'
  <2>1. Unreaped' = Unreaped
    BY <1>1, <1>2 DEF Unreaped, IndInv, TypeOK
  <2>2. Settled' => Settled
    BY <1>1, <1>2 DEF Settled
  <2> QED
    BY <1>2, <2>1, <2>2 DEF IndInv, CountOK
<1> QED
  BY <1>3, <1>4, <1>5, <1>6 DEF IndInv

------------------------------------------------------------------------------
LEMMA StepIndInv == IndInv /\ [Next]_vars => IndInv'
<1> SUFFICES ASSUME IndInv, [Next]_vars PROVE IndInv'
  OBVIOUS
<1>1. CASE Next
  BY <1>1, ForkKeeps, ForkFailsKeeps, BackgroundKeeps, GiveTerminalKeeps, AwaitReturnsKeeps,
     ReclaimKeeps, WaitTurnKeeps, LineKeeps, TurnKeeps DEF Next, Main, Line
<1>2. CASE UNCHANGED vars
  BY <1>2 DEF vars, shell, history, IndInv, TypeOK, TerminalOK, JobOK, LoopOK, OthersOK,
     CountOK, Settled, Unreaped
<1> QED
  BY <1>1, <1>2

LEMMA IndInvHolds == Spec => []IndInv
BY InitIndInv, StepIndInv, PTL DEF Spec

\* Everything the shell keeps is of its type; numBack never gets negative,
\* however launches, failures and waits alternate.
THEOREM JobTypes == Spec => []TypeOK
<1>1. IndInv => TypeOK
  BY DEF IndInv
<1> QED
  BY <1>1, IndInvHolds, PTL

\* The shell has the terminal whenever it reads a line.
THEOREM TerminalKept == Spec => []TerminalOK
<1>1. IndInv => TerminalOK
  BY DEF IndInv
<1> QED
  BY <1>1, IndInvHolds, PTL

\* numBack is the number of background children not reaped, as long as forks
\* succeed and stopped foreground jobs stay stopped.
THEOREM NumBackCounts == Spec => []NumBackOK
<1>1. IndInv => NumBackOK
  BY DEF IndInv, CountOK, NumBackOK
<1> QED
  BY <1>1, IndInvHolds, PTL

\* No foreground job runs on beside the prompt.
THEOREM ForegroundEnds == Spec => []ForegroundOK
<1>1. IndInv => ForegroundOK
  BY DEF IndInv, OthersOK, ForegroundOK
<1> QED
  BY <1>1, IndInvHolds, PTL
==============================================================================
