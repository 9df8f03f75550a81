------------------------------ MODULE EngineCalls ------------------------------
(***************************************************************************)
(* The calls into the cleanup daemon's engine (daemon/engine.go): requests *)
(* handed to the one worker over the unbuffered `commands' channel and     *)
(* answered over a reply channel of their own, waiters that sleep on the   *)
(* `changed' channel, leases that a status query renews, and the worker's  *)
(* start, failure and stop.                                                *)
(*                                                                         *)
(* What a job's removal does to its tree is WorktreeRemoval's; here a job  *)
(* is only as far along as a waiter can tell.                              *)
(***************************************************************************)
EXTENDS Integers, FiniteSets, Sequences

CONSTANTS
    Caller,     \* goroutines inside `call', one request each
    Waiter,     \* goroutines inside Wait
    Job,        \* jobs of the queue
    Nobody,     \* not a caller
    KeepDone,   \* finished jobs the queue keeps (Tuning.KeepDone)
    MaxBlocks   \* bound on how often jobs block

ASSUME NobodyAssumption == Nobody \notin Caller
ASSUME WaiterAssumption == IsFiniteSet(Waiter)
ASSUME BoundAssumption  == KeepDone \in Nat /\ MaxBlocks \in Nat

VARIABLES
  \* Channels and flags: closed quit, loaded and done channels, started.
    started, quit, loaded, done,
  \* The worker: where it is, whose command it holds, the job it finishes.
    worker, hand, ending,
  \* The queue, read and written under e.mu.
    jobs,       \* the state of each job
    finished,   \* the finished jobs in the queue, oldest first
    waiters,    \* callers inside Wait, counted per job
    kept,       \* finished jobs kept for their waiters alone
    awaits,     \* jobs some status query awaits
  \* The callers.
    call,       \* where each call is
    wants,      \* what its request does
    reply,      \* the buffered reply
    got,        \* what the call returned
  \* The waiters.
    wait,       \* where each Wait is
    on,         \* the job it waits for
    woken,      \* waiters whose `changed' channel has been closed
    stopped,    \* waiters that have seen `done' closed
    told,       \* what each Wait returned
  \* Observations.
    ran,        \* callers whose command the worker ran
    owed,       \* waiters already inside Wait when their job finished
    blocks

channels == <<started, quit, loaded, done>>
queue    == <<jobs, finished, waiters, kept, awaits>>
callers  == <<call, wants, reply, got>>
waiting  == <<wait, on, woken, stopped, told>>
seen     == <<ran, owed, blocks>>
vars     == <<channels, worker, hand, ending, queue, callers, waiting, seen>>

-----------------------------------------------------------------------------
\* "waits" is a blockage the daemon retries, "stuck" one it leaves to a person.
Unfinished == {"live", "waits", "stuck"}
State      == Unfinished \cup {"absent", "done", "gone"}
Known(j)   == jobs[j] \in Unfinished \cup {"done"}
Request    == [kind : {"create", "retry", "cancel"}, job : Job]

Init ==
    /\ started = FALSE /\ quit = FALSE /\ loaded = FALSE /\ done = FALSE
    /\ worker = "off" /\ hand = Nobody /\ ending = {}
    /\ jobs \in [Job -> {"absent", "live", "waits", "stuck", "done"}]
    /\ finished \in {<<>>} \cup {<<j>> : j \in Job}
    /\ \A j \in Job : jobs[j] = "done" <=> finished = <<j>>
    /\ waiters = [j \in Job |-> 0] /\ kept = {} /\ awaits = {}
    /\ call = [c \in Caller |-> "out"] /\ wants \in [Caller -> Request]
    /\ reply = [c \in Caller |-> "none"] /\ got = [c \in Caller |-> "none"]
    /\ wait = [w \in Waiter |-> "out"] /\ on \in [Waiter -> Job]
    /\ woken = {} /\ stopped = {} /\ told = [w \in Waiter |-> "none"]
    /\ ran = {} /\ owed = {} /\ blocks = 0

-----------------------------------------------------------------------------
(* Callers. Each waits for the worker, the stop, or its own context.         *)

Offer(c) ==
    /\ call[c] = "out" /\ call' = [call EXCEPT ![c] = "offered"]
    /\ UNCHANGED <<channels, worker, hand, ending, queue, wants, reply, got, waiting, seen>>

Return(c, value) == /\ call' = [call EXCEPT ![c] = "over"]
                    /\ got' = [got EXCEPT ![c] = value]

Unoffer(c) ==
    /\ call[c] = "offered" /\ (quit \/ done)
    /\ Return(c, "stopped")
    /\ UNCHANGED <<channels, worker, hand, ending, queue, wants, reply, waiting, seen>>

\* Mutant: the stop answers a caller whose command the worker has taken.
CollectOrStop(c) ==
    /\ call[c] = "taken"
    /\ \/ reply[c] # "none" /\ Return(c, reply[c])
       \/ quit /\ Return(c, "stopped")
    /\ UNCHANGED <<channels, worker, hand, ending, queue, wants, reply, waiting, seen>>
Collect(c) ==
    /\ call[c] = "taken" /\ reply[c] # "none"
    /\ Return(c, reply[c])
    /\ UNCHANGED <<channels, worker, hand, ending, queue, wants, reply, waiting, seen>>

\* The caller's own context ends; the worker may still run what it has taken.
GiveUp(c) ==
    /\ call[c] \in {"offered", "taken"}
    /\ Return(c, "cancelled")
    /\ UNCHANGED <<channels, worker, hand, ending, queue, wants, reply, waiting, seen>>

-----------------------------------------------------------------------------
(* The worker.                                                               *)

Start ==
    /\ ~started /\ started' = TRUE
    /\ worker' = IF quit THEN "over" ELSE "load"
    /\ UNCHANGED <<quit, loaded, done, hand, ending, queue, callers, waiting, seen>>

\* The journal is read, or cannot be.
Load ==
    /\ worker = "load"
    /\ \/ loaded' = TRUE /\ worker' = "turn"
       \/ loaded' = loaded /\ worker' = "over"
    /\ UNCHANGED <<started, quit, done, hand, ending, queue, callers, waiting, seen>>

\* A turn sees the stop, or the select in which it sleeps does.
Leave ==
    /\ worker = "turn" /\ quit
    /\ worker' = "over"
    /\ UNCHANGED <<channels, hand, ending, queue, callers, waiting, seen>>

\* Run returns, the active deletion parked: `done' is closed.
End ==
    /\ worker = "over" /\ ~done
    /\ done' = TRUE
    /\ UNCHANGED <<started, quit, loaded, worker, hand, ending, queue, callers, waiting, seen>>

\* The select may take a command with the stop already closed.
Take(c) ==
    /\ worker = "turn" /\ call[c] = "offered"
    /\ worker' = "taken" /\ hand' = c
    /\ call' = [call EXCEPT ![c] = "taken"]
    /\ UNCHANGED <<channels, ending, queue, wants, reply, got, waiting, seen>>

Reply(value) == reply' = [reply EXCEPT ![hand] = value]

\* A stop refuses it, and so does a band that cannot be left, which also ends
\* the worker.
Execute ==
    /\ worker = "taken"
    /\ \/ quit /\ Reply("stopped") /\ worker' = "turn" /\ hand' = Nobody
       \/ ~quit /\ Reply("stopped") /\ worker' = "over" /\ hand' = Nobody
       \/ ~quit /\ worker' = "run" /\ UNCHANGED <<hand, reply>>
    /\ UNCHANGED <<channels, ending, queue, call, wants, got, waiting, seen>>

\* broadcast closes the channel every sleeping waiter holds.
Broadcast   == woken' = Waiter
Put(j, s)   == jobs' = [jobs EXCEPT ![j] = s] /\ Broadcast
\* Waiters that a job leaving the queue would otherwise strand.
Inside(j)   == {w \in Waiter : wait[w] \in {"look", "sleep"} /\ on[w] = j}

\* Mutant: a cancelled job wakes nobody.
EffectQuiet(kind, j) ==
    \/ kind = "create" /\ jobs[j] = "absent" /\ Put(j, "live") /\ UNCHANGED awaits
    \/ kind = "retry" /\ jobs[j] \in {"waits", "stuck"} /\ Put(j, "live") /\ UNCHANGED awaits
    \/ /\ kind = "cancel" /\ jobs[j] \in Unfinished
       /\ jobs' = [jobs EXCEPT ![j] = "gone"] /\ awaits' = awaits \ {j} /\ UNCHANGED woken
\* A cancelled job leaves the queue in one step with its lease and its waiters'
\* wake-up.
Effect(kind, j) ==
    \/ kind = "create" /\ jobs[j] = "absent" /\ Put(j, "live") /\ UNCHANGED awaits
    \/ kind = "retry" /\ jobs[j] \in {"waits", "stuck"} /\ Put(j, "live") /\ UNCHANGED awaits
    \/ /\ kind = "cancel" /\ jobs[j] \in Unfinished
       /\ Put(j, "gone") /\ awaits' = awaits \ {j}

\* The command does its work, or has none to do, or fails part way; it replies,
\* then a journal or band failure may end the worker.
RunCommand ==
    /\ worker = "run" /\ ran' = ran \cup {hand} /\ hand' = Nobody
    /\ \/ Effect(wants[hand].kind, wants[hand].job)
       \/ UNCHANGED <<jobs, awaits, woken>>
    /\ \E value \in {"value", "error"} : Reply(value)
    /\ worker' \in {"turn", "over"}
    /\ UNCHANGED <<channels, ending, finished, waiters, kept, call, wants, got, wait, on,
                   stopped, told, owed, blocks>>

\* A step of the worker's own: the job blocks, or resumes after a transient one.
\* A step begun before the stop still ends.
Step(j) ==
    /\ worker = "turn"
    /\ \/ /\ jobs[j] = "live" /\ blocks < MaxBlocks /\ blocks' = blocks + 1
          /\ \E s \in {"waits", "stuck"} : Put(j, s)
       \/ jobs[j] = "waits" /\ Put(j, "live") /\ UNCHANGED blocks
    /\ UNCHANGED <<channels, worker, hand, ending, finished, waiters, kept, awaits, callers,
                   wait, on, stopped, told, ran, owed>>

\* A step fails on the journal.
Fail ==
    /\ worker \in {"turn", "unlease", "prune"} /\ loaded
    /\ worker' = "over" /\ ending' = {}
    /\ UNCHANGED <<channels, hand, queue, callers, waiting, seen>>

\* finish journals the job done and publishes it, drops its lease, then prunes
\* the oldest finished jobs, each in a critical section of its own.
Finish(j) ==
    /\ worker = "turn" /\ jobs[j] = "live"
    /\ Put(j, "done") /\ finished' = Append(finished, j)
    /\ owed' = owed \cup Inside(j)
    /\ worker' = "unlease" /\ ending' = {j}
    /\ UNCHANGED <<channels, hand, waiters, kept, awaits, callers, wait, on, stopped, told,
                   ran, blocks>>

\* Mutant: a finished job keeps its lease.
UnleaseNothing ==
    /\ worker = "unlease"
    /\ ending' = {} /\ UNCHANGED awaits
    /\ worker' = "prune"
    /\ UNCHANGED <<channels, hand, jobs, finished, waiters, kept, callers, waiting, seen>>
Unlease ==
    /\ worker = "unlease"
    /\ awaits' = awaits \ ending /\ ending' = {}
    /\ worker' = "prune"
    /\ UNCHANGED <<channels, hand, jobs, finished, waiters, kept, callers, waiting, seen>>

\* Mutant: a pruned job is dropped whoever waits for it.
PruneAll ==
    /\ worker = "prune"
    /\ IF Len(finished) > KeepDone
       THEN /\ jobs' = [jobs EXCEPT ![Head(finished)] = "gone"] /\ Broadcast
            /\ finished' = Tail(finished) /\ UNCHANGED <<kept, worker>>
       ELSE worker' = "turn" /\ UNCHANGED <<jobs, finished, kept, woken>>
    /\ UNCHANGED <<channels, hand, ending, waiters, awaits, callers, wait, on, stopped, told,
                   seen>>
Prune ==
    /\ worker = "prune"
    /\ LET old == Head(finished) IN
       IF Len(finished) > KeepDone
       THEN /\ jobs' = [jobs EXCEPT ![old] = "gone"] /\ Broadcast
            /\ kept' = IF waiters[old] > 0 THEN kept \cup {old} ELSE kept
            /\ finished' = Tail(finished) /\ UNCHANGED worker
       ELSE worker' = "turn" /\ UNCHANGED <<jobs, finished, kept, woken>>
    /\ UNCHANGED <<channels, hand, ending, waiters, awaits, callers, wait, on, stopped, told,
                   seen>>

-----------------------------------------------------------------------------
(* Wait, Status and Stop.                                                    *)

Answer(w, value) == /\ told' = [told EXCEPT ![w] = value]
                    /\ wait' = [wait EXCEPT ![w] = "leave"]

\* The journal is loaded, or never will be.
Ready(w) ==
    /\ wait[w] = "out"
    /\ \/ loaded /\ wait' = [wait EXCEPT ![w] = "enter"] /\ UNCHANGED told
       \/ /\ ~loaded /\ (quit \/ done)
          /\ wait' = [wait EXCEPT ![w] = "over"] /\ told' = [told EXCEPT ![w] = "stopped"]
    /\ UNCHANGED <<channels, worker, hand, ending, queue, callers, on, woken, stopped, seen>>

\* Mutant: a waiter goes to sleep uncounted.
EnterUncounted(w) ==
    /\ wait[w] = "enter"
    /\ wait' = [wait EXCEPT ![w] = "look"]
    /\ UNCHANGED <<channels, worker, hand, ending, queue, callers, on, woken, stopped, told,
                   seen>>
\* A waiter of a job the queue does not know never counts.
Enter(w) ==
    /\ wait[w] = "enter"
    /\ IF Known(on[w])
       THEN /\ waiters' = [waiters EXCEPT ![on[w]] = @ + 1]
            /\ wait' = [wait EXCEPT ![w] = "look"] /\ UNCHANGED told
       ELSE /\ wait' = [wait EXCEPT ![w] = "over"]
            /\ told' = [told EXCEPT ![w] = "unknown"] /\ UNCHANGED waiters
    /\ UNCHANGED <<channels, worker, hand, ending, jobs, finished, kept, awaits, callers, on,
                   woken, stopped, seen>>

\* The job and the channel that will announce its next change are read together.
Look(w) ==
    /\ wait[w] = "look"
    /\ LET j == on[w] IN
       \/ ~Known(j) /\ j \notin kept /\ Answer(w, "unknown") /\ UNCHANGED woken
       \/ (jobs[j] = "done" \/ j \in kept) /\ Answer(w, "done") /\ UNCHANGED woken
       \/ jobs[j] = "stuck" /\ Answer(w, "stuck") /\ UNCHANGED woken
       \/ jobs[j] \in {"live", "waits"} /\ w \in stopped /\ Answer(w, "stopped") /\ UNCHANGED woken
       \/ /\ jobs[j] \in {"live", "waits"} /\ w \notin stopped
          /\ wait' = [wait EXCEPT ![w] = "sleep"] /\ woken' = woken \ {w} /\ UNCHANGED told
    /\ UNCHANGED <<channels, worker, hand, ending, queue, callers, on, stopped, seen>>

\* Mutant: a waiter outlives the worker.
WakeChanged(w) ==
    /\ wait[w] = "sleep" /\ w \in woken /\ UNCHANGED <<stopped, told>>
    /\ wait' = [wait EXCEPT ![w] = "look"]
    /\ UNCHANGED <<channels, worker, hand, ending, queue, callers, on, woken, seen>>
Wake(w) ==
    /\ wait[w] = "sleep"
    /\ \/ w \in woken /\ UNCHANGED stopped
       \/ done /\ stopped' = stopped \cup {w}
    /\ wait' = [wait EXCEPT ![w] = "look"]
    /\ UNCHANGED <<channels, worker, hand, ending, queue, callers, on, woken, told, seen>>

\* The waiter's own context ends while it waits for the journal, loaded meanwhile
\* or not, or in its sleep.
Desert(w) ==
    /\ \/ wait[w] = "out" /\ wait' = [wait EXCEPT ![w] = "over"]
       \/ wait[w] = "sleep" /\ wait' = [wait EXCEPT ![w] = "leave"]
    /\ told' = [told EXCEPT ![w] = "cancelled"]
    /\ UNCHANGED <<channels, worker, hand, ending, queue, callers, on, woken, stopped, seen>>

\* Mutant: the kept job stays with the queue.
ExitKept(w) ==
    /\ wait[w] = "leave"
    /\ waiters' = [waiters EXCEPT ![on[w]] = @ - 1]
    /\ UNCHANGED kept
    /\ wait' = [wait EXCEPT ![w] = "over"]
    /\ UNCHANGED <<channels, worker, hand, ending, jobs, finished, awaits, callers, on, woken,
                   stopped, told, seen>>
\* The last waiter to leave takes the kept job with it.
Exit(w) ==
    /\ wait[w] = "leave"
    /\ waiters' = [waiters EXCEPT ![on[w]] = @ - 1]
    /\ kept' = IF waiters[on[w]] > 1 THEN kept ELSE kept \ {on[w]}
    /\ wait' = [wait EXCEPT ![w] = "over"]
    /\ UNCHANGED <<channels, worker, hand, ending, jobs, finished, awaits, callers, on, woken,
                   stopped, told, seen>>

\* A status query that awaits an unfinished job renews its lease.
Status(j) ==
    /\ loaded /\ jobs[j] \in Unfinished
    /\ awaits' = awaits \cup {j}
    /\ UNCHANGED <<channels, worker, hand, ending, jobs, finished, waiters, kept, callers,
                   waiting, seen>>

Stop ==
    /\ ~quit /\ quit' = TRUE
    /\ UNCHANGED <<started, loaded, done, worker, hand, ending, queue, callers, waiting, seen>>

-----------------------------------------------------------------------------
Worker ==
    \/ Load \/ Leave \/ End \/ Execute \/ RunCommand \/ Unlease \/ Prune
    \/ \E c \in Caller : Take(c)
Answering ==
    \/ \E c \in Caller : Unoffer(c) \/ Collect(c)
    \/ \E w \in Waiter : Ready(w) \/ Enter(w) \/ Look(w) \/ Wake(w) \/ Exit(w)
Next ==
    \/ Worker \/ Answering \/ Start \/ Fail \/ Stop
    \/ \E j \in Job : Step(j) \/ Finish(j) \/ Status(j)
    \/ \E c \in Caller : Offer(c) \/ GiveUp(c)
    \/ \E w \in Waiter : Desert(w)

Spec == Init /\ [][Next]_vars

\* Goroutines that can run do run, the worker's and each call's on their own;
\* jobs need never move, and nobody need ever give up or stop the engine.
Fairness ==
    /\ WF_vars(Worker)
    /\ \A c \in Caller : WF_vars(Unoffer(c) \/ Collect(c))
    /\ \A w \in Waiter : WF_vars(Ready(w) \/ Enter(w) \/ Look(w) \/ Wake(w) \/ Exit(w))
FairSpec == Spec /\ Fairness

-----------------------------------------------------------------------------
(* Properties *)

\* Every variable keeps to its range, and a count of waiters to the waiters.
TypeOK ==
    /\ {started, quit, loaded, done} \subseteq BOOLEAN
    /\ worker \in {"off", "load", "turn", "taken", "run", "unlease", "prune", "over"}
    /\ hand \in Caller \cup {Nobody} /\ ending \subseteq Job
    /\ jobs \in [Job -> State] /\ finished \in Seq(Job)
    /\ waiters \in [Job -> 0..Cardinality(Waiter)] /\ kept \subseteq Job /\ awaits \subseteq Job
    /\ call \in [Caller -> {"out", "offered", "taken", "over"}] /\ wants \in [Caller -> Request]
    /\ reply \in [Caller -> {"none", "value", "error", "stopped"}]
    /\ got \in [Caller -> {"none", "value", "error", "stopped", "cancelled"}]
    /\ wait \in [Waiter -> {"out", "enter", "look", "sleep", "leave", "over"}]
    /\ on \in [Waiter -> Job] /\ woken \subseteq Waiter /\ stopped \subseteq Waiter
    /\ told \in [Waiter -> {"none", "done", "stuck", "unknown", "stopped", "cancelled"}]
    /\ ran \subseteq Caller /\ owed \subseteq Waiter /\ blocks \in 0..MaxBlocks

\* A caller told that the engine has stopped may ask the next daemon again: its
\* request did nothing here, not even behind its back (engine.go:643).
StoppedDidNothing == \A c \in Caller : got[c] = "stopped" => c \notin ran /\ hand # c

\* A caller already waiting when its job finishes is told so, even when the
\* record is pruned in the same breath or the worker dies (engine.go:512); only
\* its own context keeps the answer from it.
FinishReachesWaiters ==
    \A w \in owed : wait[w] \in {"leave", "over"} => told[w] \in {"done", "cancelled"}

\* A finished job that the queue has pruned is kept only while somebody waits
\* for it; otherwise every Wait would leak one.
KeptIsAwaited == \A j \in kept : waiters[j] > 0 /\ jobs[j] = "gone"

\* A lease prefers a job that is still in the queue: no job that is done or gone
\* holds one, however a status query falls between the steps of its end.
LeasesAreLive == \A j \in awaits : jobs[j] \in Unfinished \/ j \in ending \/ worker = "over"

\* Once the engine is told to stop, or its worker dies, every caller and every
\* waiter in it is answered: nobody is left asleep on a queue no worker serves.
StopAnswers ==
    /\ \A c \in Caller : (quit \/ done) /\ call[c] \in {"offered", "taken"} ~> call[c] = "over"
    /\ \A w \in Waiter : quit \/ done ~> wait[w] = "over"

\* No wake-up is lost: a waiter whose job is done or gone is answered, though
\* the change fell between its look and its sleep.
WaitersWake ==
    \A w \in Waiter :
        wait[w] \in {"look", "sleep"} /\ jobs[on[w]] \in {"done", "gone"} ~> wait[w] = "over"
=============================================================================
