------------------------------ MODULE JobQueue ------------------------------
(***************************************************************************)
(* The BullMQ queues as the application uses them: jobs known by their     *)
(* identifier, attempts, and the runs of the workers.  Extended by the     *)
(* modules that have workers.                                              *)
(***************************************************************************)
EXTENDS Naturals

VARIABLES
  jobs,    \* the jobs known to Redis: [state, tries, owner] of each
  run      \* what each worker is doing: Free, or [step, job, read]

Free == [step |-> "free"]
Waiting == [state |-> "waiting", tries |-> 0, owner |-> "none"]

\* Adding a job whose identifier is known does nothing, be the known one done
\* or failed: a failed job is kept for ever, a completed one for a day, which
\* is taken as longer than the work it belongs to.
With(table, added) ==
  [j \in DOMAIN table \cup added |-> IF j \in DOMAIN table THEN table[j] ELSE Waiting]
Enqueue(table, added) == jobs' = With(table, added)

InQueue(j) == j \in DOMAIN jobs /\ jobs[j].state \in {"waiting", "active"}

\* A worker that lost its job to a redelivery changes nothing of it any more.
Owns(w) ==
  LET j == run[w].job
  IN  j \in DOMAIN jobs /\ jobs[j].state = "active" /\ jobs[j].owner = w
Settled(w, state) ==
  IF Owns(w) THEN [jobs EXCEPT ![run[w].job].state = state, ![run[w].job].owner = "none"] ELSE jobs

Proceed(w, next) == run' = [run EXCEPT ![w].step = next]

\* The run goes on to `next`, which ends the job when it is "done".
Goto(w, next) ==
  IF next = "done"
  THEN run' = [run EXCEPT ![w] = Free] /\ jobs' = Settled(w, "completed")
  ELSE Proceed(w, next) /\ UNCHANGED jobs

\* A worker takes a waiting job and reads its object: the run goes on to
\* `first`, or is done at once.
Take(w, j, first) ==
  /\ run[w] = Free
  /\ jobs[j].state = "waiting"
  /\ IF first = "done"
     THEN /\ jobs' = [jobs EXCEPT ![j].state = "completed"]
          /\ UNCHANGED run
     ELSE /\ jobs' = [jobs EXCEPT ![j].state = "active", ![j].owner = w]
          /\ run' = [run EXCEPT ![w] = [step |-> first, job |-> j, read |-> {}]]

\* The jobs once the attempt of worker w has failed.
IsLastAttempt(w, attempts) == jobs[run[w].job].tries + 1 >= attempts
AfterFailure(w, attempts) ==
  IF Owns(w)
  THEN [jobs EXCEPT ![run[w].job] =
          [state |-> IF IsLastAttempt(w, attempts) THEN "failed" ELSE "waiting",
           tries |-> @.tries + 1, owner |-> "none"]]
  ELSE jobs

\* The failed event with the attempts used up calls onFinalFailure.
FailsForGood(w, attempts) == Owns(w) /\ IsLastAttempt(w, attempts)

\* A stalled job is given again while its first run goes on; a restart gives
\* again every active one.
Again(j) == [jobs EXCEPT ![j].state = "waiting", ![j].owner = "none"]
Released == [j \in DOMAIN jobs |->
               IF jobs[j].state = "active" THEN [jobs[j] EXCEPT !.state = "waiting", !.owner = "none"]
                                           ELSE jobs[j]]
=============================================================================
