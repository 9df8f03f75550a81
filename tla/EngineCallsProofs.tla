--------------------------- MODULE EngineCallsProofs ---------------------------
(***************************************************************************)
(* What the engine answers, proved for any number of callers, waiters and  *)
(* jobs: a request answered with the stop did nothing, a waiter inside     *)
(* Wait when its job finishes is told so, nothing is kept for nobody, no   *)
(* lease outlives its job, and neither a caller nor a sleeper is           *)
(* forgotten.                                                              *)
(***************************************************************************)
EXTENDS EngineCalls, FiniteSetTheorems, TLAPS

(* Requests *)

CallType ==
    /\ call \in [Caller -> {"out", "offered", "taken", "over"}]
    /\ reply \in [Caller -> {"none", "value", "error", "stopped"}]
    /\ got \in [Caller -> {"none", "value", "error", "stopped", "cancelled"}]
    /\ hand \in Caller \cup {Nobody}
    /\ worker \in {"taken", "run"} => hand \in Caller

\* A command is in the worker's hand or answered, never both, and one that has
\* run was taken.
CallsInv ==
    /\ CallType
    /\ \A c \in Caller :
        /\ call[c] \in {"out", "offered"} => reply[c] = "none" /\ c \notin ran /\ hand # c
        /\ call[c] # "over" => got[c] = "none"
        /\ hand = c => reply[c] = "none" /\ c \notin ran
        /\ reply[c] = "stopped" => c \notin ran
        /\ got[c] = "stopped" => c \notin ran /\ hand # c

LEMMA CallsInit == Init => CallsInv
BY NobodyAssumption DEF Init, CallsInv, CallType, NobodyAssumption

LEMMA CallsKept ==
    ASSUME CallsInv, UNCHANGED <<callers, hand, ran>>,
           worker' \in {"taken", "run"} => worker' = worker
    PROVE  CallsInv'
BY DEF CallsInv, CallType, callers

LEMMA CallsStep == CallsInv /\ [Next]_vars => CallsInv'
<1> SUFFICES ASSUME CallsInv, [Next]_vars PROVE CallsInv'
    OBVIOUS
<1>1. ASSUME NEW c \in Caller, Offer(c) PROVE CallsInv'
    BY <1>1 DEF Offer, CallsInv, CallType, seen
<1>2. ASSUME NEW c \in Caller, Unoffer(c) PROVE CallsInv'
    BY <1>2 DEF Unoffer, Return, CallsInv, CallType, seen
<1>3. ASSUME NEW c \in Caller, Collect(c) PROVE CallsInv'
  <2>1. reply[c] \in {"value", "error", "stopped"}
      BY <1>3 DEF Collect, CallsInv, CallType
  <2> QED BY <1>3, <2>1 DEF Collect, Return, CallsInv, CallType, seen
<1>4. ASSUME NEW c \in Caller, GiveUp(c) PROVE CallsInv'
    BY <1>4 DEF GiveUp, Return, CallsInv, CallType, seen
<1>5. ASSUME NEW c \in Caller, Take(c) PROVE CallsInv'
    BY <1>5 DEF Take, CallsInv, CallType, seen
<1>6. ASSUME Execute PROVE CallsInv'
  <2>1. hand \in Caller
      BY <1>6 DEF Execute, CallsInv, CallType
  <2>2. CASE Reply("stopped") /\ worker' \in {"turn", "over"} /\ hand' = Nobody
      BY <1>6, <2>1, <2>2, NobodyAssumption
      DEF Execute, Reply, CallsInv, CallType, seen, NobodyAssumption
  <2>3. CASE worker' = "run" /\ UNCHANGED <<hand, reply>>
      BY <1>6, <2>1, <2>3 DEF Execute, CallsInv, CallType, seen
  <2> QED BY <1>6, <2>2, <2>3 DEF Execute
<1>7. ASSUME RunCommand PROVE CallsInv'
  <2>1. hand \in Caller
      BY <1>7 DEF RunCommand, CallsInv, CallType
  <2>2. PICK v \in {"value", "error"} : reply' = [reply EXCEPT ![hand] = v]
      BY <1>7 DEF RunCommand, Reply
  <2>3. UNCHANGED <<call, got>> /\ ran' = ran \cup {hand} /\ hand' = Nobody
        /\ worker' \in {"turn", "over"}
      BY <1>7 DEF RunCommand
  <2>4. call[hand] \in {"taken", "over"} /\ got[hand] # "stopped"
      BY <2>1 DEF CallsInv, CallType
  <2> QED BY <2>1, <2>2, <2>3, <2>4, NobodyAssumption DEF CallsInv, CallType, NobodyAssumption
<1>8. ASSUME \/ Load \/ Leave \/ End \/ Unlease \/ Prune \/ Start \/ Fail \/ Stop PROVE CallsInv'
    BY <1>8, CallsKept
    DEF Load, Leave, End, Unlease, Prune, Start, Fail, Stop, callers, seen, queue
<1>9. ASSUME NEW w \in Waiter, Ready(w) \/ Enter(w) \/ Look(w) \/ Wake(w) \/ Exit(w) \/ Desert(w)
      PROVE CallsInv'
    BY <1>9, CallsKept DEF Ready, Enter, Look, Wake, Exit, Desert, callers, seen
<1>10. ASSUME NEW j \in Job, Step(j) \/ Finish(j) \/ Status(j) PROVE CallsInv'
    BY <1>10, CallsKept DEF Step, Finish, Status, callers, seen
<1>11. CASE UNCHANGED vars
    BY <1>11, CallsKept DEF vars, callers, seen
<1> QED
    BY <1>1, <1>2, <1>3, <1>4, <1>5, <1>6, <1>7, <1>8, <1>9, <1>10, <1>11
    DEF Next, Worker, Answering

\* A call answered with the stop left nothing behind (call, engine.go:643).
THEOREM StoppedCallsDidNothing == Spec => []StoppedDidNothing
<1>1. CallsInv => StoppedDidNothing
    BY DEF CallsInv, StoppedDidNothing
<1> QED BY CallsInit, CallsStep, <1>1, PTL DEF Spec

-----------------------------------------------------------------------------
(* Waiters *)

Counted(j) == {w \in Waiter : wait[w] \in {"look", "sleep", "leave"} /\ on[w] = j}

WaitType ==
    /\ wait \in [Waiter -> {"out", "enter", "look", "sleep", "leave", "over"}]
    /\ on \in [Waiter -> Job]
    /\ told \in [Waiter -> {"none", "done", "stuck", "unknown", "stopped", "cancelled"}]
    /\ jobs \in [Job -> State]
    /\ waiters \in [Job -> Int]
    /\ finished \in Seq(Job)

\* The count of a job's waiters is the number of callers inside Wait, so a
\* finished job that is pruned is kept as long as one of them must still look.
WaitsInv ==
    /\ WaitType
    /\ \A j \in Job : waiters[j] = Cardinality(Counted(j))
    /\ kept \subseteq Job
    /\ \A j \in kept : waiters[j] > 0 /\ jobs[j] = "gone"
    /\ \A w \in owed :
        /\ w \in Waiter /\ wait[w] \notin {"out", "enter"}
        /\ wait[w] \in {"look", "sleep"} => jobs[on[w]] = "done" \/ on[w] \in kept
        /\ wait[w] \in {"leave", "over"} => told[w] \in {"done", "cancelled"}

LEMMA CountedFinite == \A j \in Job : IsFiniteSet(Counted(j))
<1> TAKE j \in Job
<1>1. Counted(j) \subseteq Waiter
    BY DEF Counted
<1> QED BY <1>1, WaiterAssumption, FS_Subset DEF WaiterAssumption

LEMMA WaitsInit == Init => WaitsInv
<1> SUFFICES ASSUME Init PROVE WaitsInv
    OBVIOUS
<1>1. WaitType
  <2>1. finished = <<>> \/ \E j \in Job : finished = <<j>>
      BY DEF Init
  <2>2. finished \in Seq(Job)
    <3>1. ASSUME NEW j \in Job, finished = <<j>> PROVE finished \in Seq(Job)
        BY <3>1
    <3>2. ASSUME finished = <<>> PROVE finished \in Seq(Job)
        BY <3>2
    <3> QED BY <2>1, <3>1, <3>2
  <2>3. jobs \in [Job -> State]
      BY DEF Init, State, Unfinished
  <2>4. waiters \in [Job -> Int]
      BY DEF Init
  <2> QED BY <2>2, <2>3, <2>4 DEF Init, WaitType
<1>2. \A j \in Job : Counted(j) = {}
    BY DEF Init, Counted
<1>3. \A j \in Job : waiters[j] = Cardinality(Counted(j))
    BY <1>2, FS_EmptySet DEF Init
<1> QED BY <1>1, <1>3 DEF Init, WaitsInv

\* What a waiter knows survives a step that leaves its place, its count, what is
\* kept and every finished job alone.
LEMMA WaitsKept ==
    ASSUME WaitsInv, UNCHANGED <<wait, on, told, waiters, kept, owed>>, jobs' \in [Job -> State],
           finished' \in Seq(Job),
           \A j \in Job : jobs[j] \in {"done", "gone"} => jobs'[j] = jobs[j]
    PROVE  WaitsInv'
<1>1. WaitType'
    BY DEF WaitsInv, WaitType
<1>2. \A j \in Job : Counted(j)' = Counted(j)
    BY DEF Counted
<1>3. \A j \in Job : waiters'[j] = Cardinality(Counted(j)')
    BY <1>2 DEF WaitsInv
<1>4. \A j \in kept' : waiters'[j] > 0 /\ jobs'[j] = "gone"
    BY DEF WaitsInv
<1>5. \A w \in owed' : /\ w \in Waiter /\ wait'[w] \notin {"out", "enter"}
                       /\ wait'[w] \in {"look", "sleep"} => jobs'[on'[w]] = "done" \/ on'[w] \in kept'
                       /\ wait'[w] \in {"leave", "over"} => told'[w] \in {"done", "cancelled"}
    BY DEF WaitsInv, WaitType
<1> QED BY <1>1, <1>3, <1>4, <1>5 DEF WaitsInv

LEMMA WaitsStep == WaitsInv /\ [Next]_vars => WaitsInv'
<1> SUFFICES ASSUME WaitsInv, [Next]_vars PROVE WaitsInv'
    OBVIOUS
<1>T. WaitType
    BY DEF WaitsInv
<1>1. ASSUME RunCommand PROVE WaitsInv'
  <2>1. \/ UNCHANGED jobs
        \/ \E j \in Job, s \in {"live", "gone"} :
              jobs[j] \notin {"done", "gone"} /\ jobs' = [jobs EXCEPT ![j] = s]
    <3>1. CASE UNCHANGED <<jobs, awaits, woken>>
        BY <3>1
    <3>2. CASE Effect(wants[hand].kind, wants[hand].job)
      <4> DEFINE j == wants[hand].job
      <4>1. jobs' = jobs \/ j \in Job
          BY <1>T, <3>2 DEF Effect, Put, WaitType
      <4>2. \E s \in {"live", "gone"} :
               jobs[j] \notin {"done", "gone"} /\ jobs' = [jobs EXCEPT ![j] = s]
          BY <3>2 DEF Effect, Put, Unfinished
      <4> QED BY <4>1, <4>2
    <3> QED BY <1>1, <3>1, <3>2 DEF RunCommand
  <2>2. jobs' \in [Job -> State] /\ \A j \in Job : jobs[j] \in {"done", "gone"} => jobs'[j] = jobs[j]
    <3>1. CASE UNCHANGED jobs
        BY <1>T, <3>1 DEF WaitType
    <3>2. ASSUME NEW j \in Job, NEW s \in {"live", "gone"},
                 jobs[j] \notin {"done", "gone"}, jobs' = [jobs EXCEPT ![j] = s]
          PROVE  jobs' \in [Job -> State]
                 /\ \A k \in Job : jobs[k] \in {"done", "gone"} => jobs'[k] = jobs[k]
        BY <1>T, <3>2 DEF WaitType, State, Unfinished
    <3> QED BY <2>1, <3>1, <3>2
  <2>3. UNCHANGED <<wait, on, told, waiters, kept, owed, finished>>
      BY <1>1 DEF RunCommand
  <2>4. finished' \in Seq(Job)
      BY <1>T, <2>3 DEF WaitType
  <2> QED BY <2>2, <2>3, <2>4, WaitsKept
<1>2. ASSUME NEW j \in Job, Step(j) PROVE WaitsInv'
  <2>1. jobs' \in [Job -> State] /\ \A k \in Job : jobs[k] \in {"done", "gone"} => jobs'[k] = jobs[k]
    <3>1. PICK s \in {"waits", "stuck", "live"} : jobs' = [jobs EXCEPT ![j] = s]
        BY <1>2 DEF Step, Put
    <3>2. jobs[j] \in {"live", "waits"}
        BY <1>2 DEF Step
    <3> QED BY <3>1, <3>2, <1>T DEF WaitType, State, Unfinished
  <2>2. UNCHANGED <<wait, on, told, waiters, kept, owed, finished>>
      BY <1>2 DEF Step
  <2>3. finished' \in Seq(Job)
      BY <1>T, <2>2 DEF WaitType
  <2> QED BY <2>1, <2>2, <2>3, WaitsKept
<1>3. ASSUME NEW j \in Job, Finish(j) PROVE WaitsInv'
  <2>1. jobs' = [jobs EXCEPT ![j] = "done"] /\ owed' = owed \cup Inside(j) /\ jobs[j] = "live"
        /\ UNCHANGED <<wait, on, told, waiters, kept>> /\ finished' \in Seq(Job)
      BY <1>3, <1>T DEF Finish, Put, WaitType
  <2>2. WaitType'
      BY <2>1, <1>T DEF WaitType, State
  <2>3. \A k \in Job : Counted(k)' = Counted(k)
      BY <2>1 DEF Counted
  <2>4. \A k \in Job : waiters'[k] = Cardinality(Counted(k)')
      BY <2>1, <2>3 DEF WaitsInv
  <2>5. \A k \in kept' : waiters'[k] > 0 /\ jobs'[k] = "gone"
      BY <2>1, <1>T DEF WaitsInv, WaitType
  <2>6. ASSUME NEW w \in owed'
        PROVE  /\ w \in Waiter /\ wait'[w] \notin {"out", "enter"}
               /\ wait'[w] \in {"look", "sleep"} => jobs'[on'[w]] = "done" \/ on'[w] \in kept'
               /\ wait'[w] \in {"leave", "over"} => told'[w] \in {"done", "cancelled"}
    <3>1. CASE w \in owed
        BY <2>1, <1>T, <3>1 DEF WaitsInv, WaitType
    <3>2. CASE w \in Inside(j)
        BY <2>1, <1>T, <3>2 DEF Inside, WaitType
    <3> QED BY <2>1, <2>6, <3>1, <3>2
  <2> QED BY <2>1, <2>2, <2>4, <2>5, <2>6 DEF WaitsInv
<1>4. ASSUME Prune PROVE WaitsInv'
  <2> DEFINE old == Head(finished)
  <2>1. CASE UNCHANGED <<jobs, kept, finished>>
    <3>1. UNCHANGED <<wait, on, told, waiters, owed>>
        BY <1>4 DEF Prune, seen
    <3>2. jobs' \in [Job -> State] /\ finished' \in Seq(Job)
        BY <2>1, <1>T DEF WaitType
    <3> QED BY <2>1, <3>1, <3>2, WaitsKept
  <2>2. CASE /\ jobs' = [jobs EXCEPT ![old] = "gone"]
             /\ kept' = IF waiters[old] > 0 THEN kept \cup {old} ELSE kept
             /\ old \in Job /\ finished' \in Seq(Job)
    <3> HIDE DEF old
    <3>1. UNCHANGED <<wait, on, told, waiters, owed>>
        BY <1>4 DEF Prune, seen
    <3>2. WaitType'
        BY <3>1, <2>2, <1>T DEF WaitType, State
    <3>3. \A k \in Job : Counted(k)' = Counted(k)
        BY <3>1 DEF Counted
    <3>4. \A k \in Job : waiters'[k] = Cardinality(Counted(k)')
        BY <3>1, <3>3 DEF WaitsInv
    <3>5. kept' \subseteq Job /\ \A k \in kept' : waiters'[k] > 0 /\ jobs'[k] = "gone"
        BY <2>2, <3>1, <1>T DEF WaitsInv, WaitType
    <3>6. ASSUME NEW w \in owed
          PROVE  /\ w \in Waiter /\ wait'[w] \notin {"out", "enter"}
                 /\ wait'[w] \in {"look", "sleep"} => jobs'[on'[w]] = "done" \/ on'[w] \in kept'
                 /\ wait'[w] \in {"leave", "over"} => told'[w] \in {"done", "cancelled"}
      <4>1. w \in Waiter /\ on[w] \in Job
          BY <1>T DEF WaitsInv, WaitType
      <4>2. CASE wait[w] \in {"look", "sleep"} /\ on[w] = old
        <5>1. w \in Counted(old) /\ waiters[old] = Cardinality(Counted(old))
            BY <2>2, <4>1, <4>2 DEF Counted, WaitsInv
        <5>2. Cardinality(Counted(old)) # 0 /\ Cardinality(Counted(old)) \in Nat
            BY <2>2, <5>1, CountedFinite, FS_EmptySet, FS_CardinalityType
        <5>3. old \in kept'
            BY <2>2, <5>1, <5>2
        <5> QED BY <3>1, <4>1, <4>2, <5>3
      <4>3. CASE ~(wait[w] \in {"look", "sleep"} /\ on[w] = old)
          BY <2>2, <3>1, <4>1, <4>3, <1>T DEF WaitsInv, WaitType
      <4> QED BY <4>2, <4>3
    <3> QED BY <3>1, <3>2, <3>4, <3>5, <3>6 DEF WaitsInv
  <2>3. ASSUME Len(finished) > KeepDone PROVE old \in Job /\ finished' \in Seq(Job)
    <3>1. finished \in Seq(Job) /\ finished # <<>>
        BY <1>T, <2>3, BoundAssumption DEF WaitType, BoundAssumption
    <3>2. finished' = Tail(finished)
        BY <1>4, <2>3 DEF Prune
    <3> QED BY <3>1, <3>2
  <2>4. \/ UNCHANGED <<jobs, kept, finished>>
        \/ /\ Len(finished) > KeepDone
           /\ jobs' = [jobs EXCEPT ![old] = "gone"]
           /\ kept' = IF waiters[old] > 0 THEN kept \cup {old} ELSE kept
      BY <1>4 DEF Prune
  <2> QED BY <2>1, <2>2, <2>3, <2>4
<1>5. ASSUME NEW w \in Waiter, Enter(w) PROVE WaitsInv'
  <2>1. CASE UNCHANGED waiters
    <3>1. wait' = [wait EXCEPT ![w] = "over"] /\ told' = [told EXCEPT ![w] = "unknown"]
          /\ UNCHANGED <<on, jobs, kept, owed, finished>> /\ wait[w] = "enter"
        BY <1>5, <2>1, <1>T DEF Enter, seen, WaitType
    <3>2. WaitType'
        BY <2>1, <3>1, <1>T DEF WaitType
    <3>3. \A j \in Job : Counted(j)' = Counted(j)
        BY <3>1, <1>T DEF Counted, WaitType
    <3>4. \A v \in owed : v # w /\ v \in Waiter
        BY <3>1 DEF WaitsInv
    <3> QED BY <2>1, <3>1, <3>2, <3>3, <3>4, <1>T DEF WaitsInv, WaitType
  <2>2. CASE waiters' = [waiters EXCEPT ![on[w]] = @ + 1] /\ wait' = [wait EXCEPT ![w] = "look"]
    <3>0. PICK j \in Job : j = on[w]
        BY <1>T DEF WaitType
    <3>1. UNCHANGED <<on, told, jobs, kept, owed, finished>> /\ wait[w] = "enter"
        BY <1>5, <2>2, <1>T DEF Enter, seen, WaitType
    <3>2. j \in Job /\ WaitType'
        BY <2>2, <3>0, <3>1, <1>T DEF WaitType
    <3>3. Counted(j)' = Counted(j) \cup {w} /\ w \notin Counted(j)
        BY <2>2, <3>0, <3>1, <1>T DEF Counted, WaitType
    <3>4. \A k \in Job \ {j} : Counted(k)' = Counted(k)
        BY <2>2, <3>0, <3>1, <1>T DEF Counted, WaitType
    <3>5. Cardinality(Counted(j)') = Cardinality(Counted(j)) + 1
        BY <3>2, <3>3, CountedFinite, FS_AddElement
    <3>6. \A k \in Job : waiters'[k] = Cardinality(Counted(k)')
      <4>1. waiters'[j] = waiters[j] + 1 /\ \A k \in Job \ {j} : waiters'[k] = waiters[k]
        <5>1. waiters \in [Job -> Int] /\ j \in Job
            BY <3>2, <1>T DEF WaitType
        <5>2. waiters' = [waiters EXCEPT ![j] = waiters[j] + 1]
            BY <2>2, <3>0
        <5> QED BY <5>1, <5>2
      <4> QED BY <3>2, <3>4, <3>5, <4>1 DEF WaitsInv
    <3>7. \A k \in kept' : waiters'[k] > 0 /\ jobs'[k] = "gone"
        BY <2>2, <3>0, <3>1, <3>2, <1>T DEF WaitsInv, WaitType
    <3>8. \A v \in owed : v # w /\ v \in Waiter
        BY <3>1 DEF WaitsInv
    <3> QED BY <2>2, <3>0, <3>1, <3>2, <3>6, <3>7, <3>8, <1>T DEF WaitsInv, WaitType
  <2> QED BY <1>5, <2>1, <2>2 DEF Enter
<1>6. ASSUME NEW w \in Waiter, Ready(w) \/ Look(w) \/ Wake(w) \/ Desert(w) PROVE WaitsInv'
  <2>1. UNCHANGED <<on, jobs, finished, waiters, kept, owed>>
      BY <1>6 DEF Ready, Look, Wake, Desert, queue, seen
  <2>2. PICK p \in {"enter", "look", "sleep", "leave", "over"} : wait' = [wait EXCEPT ![w] = p]
      BY <1>6 DEF Ready, Look, Wake, Desert, Answer
  <2>3. told' = told \/ \E a \in {"done", "stuck", "unknown", "stopped", "cancelled"} :
                            told' = [told EXCEPT ![w] = a]
      BY <1>6 DEF Ready, Look, Wake, Desert, Answer
  <2>4. WaitType'
      BY <2>1, <2>2, <2>3, <1>T DEF WaitType
  <2>5. wait[w] \in {"look", "sleep"} <=> p \in {"look", "sleep", "leave"}
      BY <1>6, <2>2, <1>T DEF Ready, Look, Wake, Desert, Answer, WaitType
  <2>6. wait[w] # "leave"
      BY <1>6 DEF Ready, Look, Wake, Desert
  <2>7. \A j \in Job : Counted(j)' = Counted(j)
      BY <2>1, <2>2, <2>5, <2>6, <1>T DEF Counted, WaitType
  <2>8. ASSUME NEW v \in owed
        PROVE  /\ v \in Waiter /\ wait'[v] \notin {"out", "enter"}
               /\ wait'[v] \in {"look", "sleep"} => jobs'[on'[v]] = "done" \/ on'[v] \in kept'
               /\ wait'[v] \in {"leave", "over"} => told'[v] \in {"done", "cancelled"}
    <3>1. CASE v # w
        BY <2>1, <2>2, <2>3, <3>1, <1>T DEF WaitsInv, WaitType
    <3>2. CASE v = w
      <4>1. wait[w] \in {"look", "sleep"} /\ (jobs[on[w]] = "done" \/ on[w] \in kept)
          BY <1>6, <3>2 DEF WaitsInv, Ready, Look, Wake, Desert
      <4>2. jobs[on[w]] \in {"done", "gone"}
          BY <4>1 DEF WaitsInv
      <4>3. CASE Look(w)
          BY <2>1, <3>2, <4>1, <4>2, <4>3, <1>T DEF Look, Answer, Known, WaitType
      <4>4. CASE Wake(w) \/ Desert(w)
          BY <2>1, <3>2, <4>1, <4>4, <1>T DEF Wake, Desert, WaitType
      <4> QED BY <1>6, <4>1, <4>3, <4>4 DEF Ready
    <3> QED BY <3>1, <3>2
  <2> QED BY <2>1, <2>4, <2>7, <2>8 DEF WaitsInv
<1>7. ASSUME NEW w \in Waiter, Exit(w) PROVE WaitsInv'
  <2> DEFINE j == on[w]
  <2>1. /\ wait[w] = "leave" /\ wait' = [wait EXCEPT ![w] = "over"]
        /\ waiters' = [waiters EXCEPT ![j] = @ - 1]
        /\ kept' = IF waiters[j] > 1 THEN kept ELSE kept \ {j}
        /\ UNCHANGED <<on, told, jobs, owed, finished>>
      BY <1>7 DEF Exit, seen
  <2>2. j \in Job /\ WaitType'
      BY <2>1, <1>T DEF WaitType
  <2>3. Counted(j)' = Counted(j) \ {w} /\ w \in Counted(j)
      BY <2>1, <1>T DEF Counted, WaitType
  <2>4. \A k \in Job \ {j} : Counted(k)' = Counted(k)
      BY <2>1, <1>T DEF Counted, WaitType
  <2>5. Cardinality(Counted(j)') = Cardinality(Counted(j)) - 1
      BY <2>2, <2>3, CountedFinite, FS_RemoveElement
  <2>6. \A k \in Job : waiters'[k] = Cardinality(Counted(k)')
      BY <2>1, <2>2, <2>4, <2>5, <1>T DEF WaitsInv, WaitType
  <2>7. kept' \subseteq Job /\ \A k \in kept' : waiters'[k] > 0 /\ jobs'[k] = "gone"
      BY <2>1, <2>2, <1>T DEF WaitsInv, WaitType
  <2>8. ASSUME NEW v \in owed
        PROVE  /\ v \in Waiter /\ wait'[v] \notin {"out", "enter"}
               /\ wait'[v] \in {"look", "sleep"} => jobs'[on'[v]] = "done" \/ on'[v] \in kept'
               /\ wait'[v] \in {"leave", "over"} => told'[v] \in {"done", "cancelled"}
    <3>1. v \in Waiter
        BY DEF WaitsInv
    <3>2. CASE wait[v] \in {"look", "sleep"} /\ on[v] = j
      <4>1. v # w /\ v \in Counted(j)'
          BY <2>1, <3>1, <3>2, <1>T DEF Counted, WaitType
      <4>2. IsFiniteSet(Counted(j)')
          BY <2>2, <2>3, CountedFinite, FS_RemoveElement
      <4>3. Cardinality(Counted(j)') \in Nat /\ Cardinality(Counted(j)') # 0
          BY <4>1, <4>2, FS_EmptySet, FS_CardinalityType
      <4>4. waiters[j] > 1
          BY <2>2, <2>5, <4>3, <1>T DEF WaitsInv, WaitType
      <4> QED BY <2>1, <3>1, <3>2, <4>1, <4>4, <1>T DEF WaitsInv, WaitType
    <3>3. CASE wait[v] \in {"look", "sleep"} /\ on[v] # j
        BY <2>1, <3>1, <3>3, <1>T DEF WaitsInv, WaitType
    <3>4. CASE wait[v] \in {"leave", "over"}
        BY <2>1, <3>1, <3>4, <1>T DEF WaitsInv, WaitType
    <3> QED BY <3>1, <3>2, <3>3, <3>4, <1>T DEF WaitsInv, WaitType
  <2> QED BY <2>2, <2>6, <2>7, <2>8, <2>1 DEF WaitsInv
<1>8. ASSUME \/ Load \/ Leave \/ End \/ Execute \/ Unlease \/ Start \/ Fail \/ Stop
             \/ \E c \in Caller : Take(c) \/ Offer(c) \/ Unoffer(c) \/ Collect(c) \/ GiveUp(c)
             \/ \E j \in Job : Status(j)
             \/ UNCHANGED vars
      PROVE WaitsInv'
  <2>1. UNCHANGED <<wait, on, told, waiters, kept, owed, jobs, finished>>
      BY <1>8 DEF Load, Leave, End, Execute, Unlease, Start, Fail, Stop, Take, Offer, Unoffer,
                  Collect, GiveUp, Status, vars, queue, waiting, seen
  <2> QED BY <2>1, <1>T, WaitsKept DEF WaitType
<1> QED
    BY <1>1, <1>2, <1>3, <1>4, <1>5, <1>6, <1>7, <1>8 DEF Next, Worker, Answering

\* A caller already inside Wait when its job finishes is told so, though the
\* record is pruned in the same breath or the worker dies (Wait, engine.go:512).
THEOREM FinishesAreTold == Spec => []FinishReachesWaiters
<1>1. WaitsInv => FinishReachesWaiters
    BY DEF WaitsInv, FinishReachesWaiters
<1> QED BY WaitsInit, WaitsStep, <1>1, PTL DEF Spec

\* What finish keeps for its waiters goes with the last of them (leave,
\* engine.go:697).
THEOREM NothingKeptForNobody == Spec => []KeptIsAwaited
<1>1. WaitsInv => KeptIsAwaited
    BY DEF WaitsInv, KeptIsAwaited
<1> QED BY WaitsInit, WaitsStep, <1>1, PTL DEF Spec

-----------------------------------------------------------------------------
(* Leases *)

\* The job that ends is named only between the steps of its end, the queue holds
\* each finished job once, and it is done, and a worker that is over stays over.
LeasesInv ==
    /\ worker \in {"off", "load", "turn", "taken", "run", "unlease", "prune", "over"}
    /\ started = FALSE => worker = "off"
    /\ ending \subseteq Job /\ (ending # {} => worker = "unlease")
    /\ jobs \in [Job -> State] /\ finished \in Seq(Job)
    /\ \A i \in 1..Len(finished) : jobs[finished[i]] = "done"
    /\ \A i, k \in 1..Len(finished) : finished[i] = finished[k] => i = k
    /\ wants \in [Caller -> Request] /\ awaits \subseteq Job
    /\ LeasesAreLive

LEMMA LeasesInit == Init => LeasesInv
<1> SUFFICES ASSUME Init PROVE LeasesInv
    OBVIOUS
<1>1. jobs \in [Job -> State]
    BY DEF Init, State, Unfinished
<1>2. /\ finished \in Seq(Job) /\ \A i \in 1..Len(finished) : jobs[finished[i]] = "done"
      /\ \A i, k \in 1..Len(finished) : finished[i] = finished[k] => i = k
  <2>1. CASE finished = <<>>
      BY <2>1
  <2>2. ASSUME NEW k \in Job, finished = <<k>>
        PROVE  /\ finished \in Seq(Job) /\ \A i \in 1..Len(finished) : jobs[finished[i]] = "done"
               /\ \A i, m \in 1..Len(finished) : finished[i] = finished[m] => i = m
    <3>1. jobs[k] = "done"
        BY <2>2 DEF Init
    <3> QED BY <2>2, <3>1
  <2> QED BY <2>1, <2>2 DEF Init
<1> QED BY <1>1, <1>2 DEF Init, LeasesInv, LeasesAreLive

\* Leases survive a step that leaves the queue and the job that ends alone.
LEMMA LeasesKept ==
    ASSUME LeasesInv, UNCHANGED <<ending, jobs, finished, wants, awaits>>,
           ending # {} => worker' = worker,
           worker = "over" => worker' = "over",
           worker' \in {"off", "load", "turn", "taken", "run", "unlease", "prune", "over"},
           started' = FALSE => worker' = "off"
    PROVE  LeasesInv'
BY DEF LeasesInv, LeasesAreLive

\* So they do when a job that is not finished changes, if it keeps its lease only
\* by staying unfinished.
LEMMA LeasesMove ==
    ASSUME LeasesInv, UNCHANGED <<finished, wants, started>>, started,
           NEW j \in Job, NEW s \in State, jobs[j] \in Unfinished,
           jobs' = [jobs EXCEPT ![j] = s],
           ending = {}, ending' = {}, worker' \in {"turn", "over"}, worker # "over",
           awaits' \subseteq awaits, j \in awaits' => s \in Unfinished
    PROVE  LeasesInv'
<1>1. jobs' \in [Job -> State] /\ \A k \in Job \ {j} : jobs'[k] = jobs[k]
    BY DEF LeasesInv
<1>2. jobs'[j] = s
    BY DEF LeasesInv
<1>3. finished' \in Seq(Job) /\ \A i \in 1..Len(finished') : jobs'[finished'[i]] = "done"
  <2> SUFFICES ASSUME NEW i \in 1..Len(finished) PROVE jobs'[finished[i]] = "done"
      BY DEF LeasesInv
  <2>1. finished[i] \in Job /\ jobs[finished[i]] = "done"
      BY DEF LeasesInv
  <2> QED BY <1>1, <2>1 DEF Unfinished
<1>4. LeasesAreLive'
    BY <1>1, <1>2 DEF LeasesInv, LeasesAreLive
<1> QED BY <1>1, <1>3, <1>4 DEF LeasesInv

LEMMA LeasesStep == LeasesInv /\ CallsInv /\ [Next]_vars => LeasesInv'
<1> SUFFICES ASSUME LeasesInv, CallsInv, [Next]_vars PROVE LeasesInv'
    OBVIOUS
<1>1. ASSUME RunCommand PROVE LeasesInv'
  <2>1. hand \in Caller /\ wants[hand] \in Request
      BY <1>1 DEF RunCommand, CallsInv, CallType, LeasesInv
  <2>2. UNCHANGED <<finished, wants, ending, started>> /\ worker' \in {"turn", "over"}
        /\ worker = "run"
      BY <1>1 DEF RunCommand, channels
  <2>3. ending = {} /\ started
      BY <2>2 DEF LeasesInv
  <2>4. CASE UNCHANGED <<jobs, awaits, woken>>
      BY <2>2, <2>3, <2>4 DEF LeasesInv, LeasesAreLive
  <2>5. CASE Effect(wants[hand].kind, wants[hand].job)
    <3> DEFINE j == wants[hand].job
    <3>1. j \in Job
        BY <2>1 DEF Request
    <3>2. CASE jobs[j] = "absent" /\ Put(j, "live") /\ UNCHANGED awaits
      <4>1. jobs' = [jobs EXCEPT ![j] = "live"]
          BY <3>2 DEF Put
      <4>2. jobs' \in [Job -> State] /\ \A k \in Job \ {j} : jobs'[k] = jobs[k]
          BY <3>1, <4>1 DEF LeasesInv, State, Unfinished
      <4>3. \A i \in 1..Len(finished) : finished[i] \in Job \ {j}
          BY <3>2 DEF LeasesInv
      <4>4. j \notin awaits
          BY <2>2, <2>3, <3>2 DEF LeasesInv, LeasesAreLive, Unfinished
      <4> HIDE DEF j
      <4>5. finished' \in Seq(Job) /\ \A i \in 1..Len(finished') : jobs'[finished'[i]] = "done"
          BY <2>2, <4>2, <4>3 DEF LeasesInv
      <4>6. LeasesAreLive'
          BY <2>2, <2>3, <3>2, <4>2, <4>4 DEF LeasesInv, LeasesAreLive
      <4> QED BY <2>2, <2>3, <3>2, <4>2, <4>5, <4>6 DEF LeasesInv
    <3>3. CASE jobs[j] \in {"waits", "stuck"} /\ Put(j, "live") /\ UNCHANGED awaits
        BY <2>2, <2>3, <3>1, <3>3, LeasesMove DEF Put, State, Unfinished
    <3>4. CASE jobs[j] \in Unfinished /\ Put(j, "gone") /\ awaits' = awaits \ {j}
        BY <2>2, <2>3, <3>1, <3>4, LeasesMove DEF Put, State
    <3> QED BY <2>5, <3>2, <3>3, <3>4 DEF Effect
  <2> QED BY <1>1, <2>4, <2>5 DEF RunCommand
<1>2. ASSUME NEW j \in Job, Step(j) PROVE LeasesInv'
  <2>1. UNCHANGED <<finished, wants, ending, started, awaits, worker>> /\ worker = "turn"
      BY <1>2 DEF Step, channels, callers
  <2>2. ending = {} /\ started
      BY <2>1 DEF LeasesInv
  <2>3. PICK s \in Unfinished : jobs' = [jobs EXCEPT ![j] = s]
      BY <1>2 DEF Step, Put, Unfinished
  <2>4. jobs[j] \in Unfinished
      BY <1>2 DEF Step, Unfinished
  <2>5. s \in State
      BY DEF State
  <2> QED BY <2>1, <2>2, <2>3, <2>4, <2>5, LeasesMove
<1>3. ASSUME NEW j \in Job, Finish(j) PROVE LeasesInv'
  <2>1. /\ jobs' = [jobs EXCEPT ![j] = "done"] /\ jobs[j] = "live"
        /\ finished' = Append(finished, j) /\ ending' = {j}
        /\ worker = "turn" /\ worker' = "unlease" /\ UNCHANGED <<wants, awaits, started>>
      BY <1>3 DEF Finish, Put, channels, callers
  <2>2. jobs' \in [Job -> State] /\ jobs'[j] = "done" /\ \A k \in Job \ {j} : jobs'[k] = jobs[k]
      BY <2>1 DEF LeasesInv, State
  <2>3. finished' \in Seq(Job) /\ Len(finished') = Len(finished) + 1
        /\ finished'[Len(finished) + 1] = j
        /\ \A i \in 1..Len(finished) : finished'[i] = finished[i] /\ finished[i] \in Job
      BY <2>1 DEF LeasesInv
  <2>4. \A i \in 1..Len(finished) : finished[i] # j
    <3> SUFFICES ASSUME NEW i \in 1..Len(finished) PROVE finished[i] # j
        OBVIOUS
    <3> QED BY <2>1 DEF LeasesInv
  <2>5. \A i, k \in 1..Len(finished') : finished'[i] = finished'[k] => i = k
    <3>1. Len(finished) \in Nat
        BY DEF LeasesInv
    <3> QED BY <2>3, <2>4, <3>1 DEF LeasesInv
  <2>6. \A i \in 1..Len(finished') : jobs'[finished'[i]] = "done"
    <3> SUFFICES ASSUME NEW i \in 1..Len(finished') PROVE jobs'[finished'[i]] = "done"
        OBVIOUS
    <3>1. CASE i = Len(finished) + 1
        BY <2>2, <2>3, <3>1
    <3>2. CASE i \in 1..Len(finished)
      <4>1. jobs[finished[i]] = "done"
          BY <3>2 DEF LeasesInv
      <4> QED BY <2>2, <2>3, <3>2, <4>1
    <3>3. Len(finished) \in Nat
        BY DEF LeasesInv
    <3> QED BY <2>3, <3>1, <3>2, <3>3
  <2>7. LeasesAreLive'
      BY <2>1, <2>2 DEF LeasesInv, LeasesAreLive
  <2> QED BY <2>1, <2>2, <2>3, <2>5, <2>6, <2>7 DEF LeasesInv
<1>4. ASSUME Unlease PROVE LeasesInv'
    BY <1>4 DEF Unlease, LeasesInv, LeasesAreLive, channels, callers
<1>5. ASSUME Prune PROVE LeasesInv'
  <2> DEFINE old == Head(finished)
  <2>1. worker = "prune" /\ UNCHANGED <<wants, awaits, started, ending>> /\ ending = {} /\ started
      BY <1>5 DEF Prune, LeasesInv, channels, callers
  <2>2. CASE Len(finished) > KeepDone
    <3>1. jobs' = [jobs EXCEPT ![old] = "gone"] /\ finished' = Tail(finished) /\ worker' = worker
        BY <1>5, <2>2 DEF Prune
    <3>2. finished \in Seq(Job) /\ finished # <<>> /\ Len(finished) \in Nat /\ Len(finished) > 0
        BY <2>2, BoundAssumption DEF LeasesInv, BoundAssumption
    <3>3. old = finished[1] /\ old \in Job
        BY <3>2
    <3>4. jobs[old] = "done"
        BY <3>2, <3>3 DEF LeasesInv
    <3>5. old \notin awaits
        BY <2>1, <3>4 DEF LeasesInv, LeasesAreLive, Unfinished
    <3>6. finished' \in Seq(Job) /\ Len(finished') = Len(finished) - 1
          /\ \A i \in 1..Len(finished') : finished'[i] = finished[i + 1]
        BY <3>1, <3>2
    <3>7. jobs' \in [Job -> State] /\ \A k \in Job \ {old} : jobs'[k] = jobs[k]
        BY <3>1 DEF LeasesInv, State
    <3> HIDE DEF old
    <3>8. \A i \in 1..Len(finished') : jobs'[finished'[i]] = "done"
      <4> SUFFICES ASSUME NEW i \in 1..Len(finished') PROVE jobs'[finished'[i]] = "done"
          OBVIOUS
      <4>1. i \in Nat /\ i + 1 \in 1..Len(finished) /\ 1 \in 1..Len(finished) /\ i + 1 # 1
          BY <3>2, <3>6
      <4>2. finished[i + 1] # finished[1] /\ jobs[finished[i + 1]] = "done"
          BY <4>1 DEF LeasesInv
      <4>3. finished[i + 1] \in Job
          BY <3>2, <4>1
      <4> QED BY <3>3, <3>6, <3>7, <4>2, <4>3
    <3>9. \A i, k \in 1..Len(finished') : finished'[i] = finished'[k] => i = k
      <4> SUFFICES ASSUME NEW i \in 1..Len(finished'), NEW k \in 1..Len(finished'),
                          finished'[i] = finished'[k]
                   PROVE  i = k
          OBVIOUS
      <4>1. i + 1 \in 1..Len(finished) /\ k + 1 \in 1..Len(finished)
          BY <3>2, <3>6
      <4>2. finished[i + 1] = finished[k + 1]
          BY <3>6
      <4>3. i + 1 = k + 1
          BY <4>1, <4>2 DEF LeasesInv
      <4> QED BY <4>3
    <3>10. LeasesAreLive'
        BY <2>1, <3>5, <3>7 DEF LeasesInv, LeasesAreLive
    <3> QED BY <2>1, <3>1, <3>6, <3>7, <3>8, <3>9, <3>10 DEF LeasesInv
  <2>3. CASE ~(Len(finished) > KeepDone)
    <3>1. worker' = "turn" /\ UNCHANGED <<jobs, finished>>
        BY <1>5, <2>3 DEF Prune
    <3> QED BY <2>1, <3>1, LeasesKept
  <2> QED BY <2>2, <2>3
<1>6. ASSUME NEW j \in Job, Status(j) PROVE LeasesInv'
    BY <1>6 DEF Status, LeasesInv, LeasesAreLive, channels, callers
<1>7. ASSUME Load \/ Leave \/ Start PROVE LeasesInv'
  <2>1. CASE Load \/ Leave
      BY <2>1, LeasesKept DEF Load, Leave, LeasesInv, channels, queue, callers
  <2>2. CASE Start
    <3>1. worker = "off" /\ worker' \in {"load", "over"} /\ started'
          /\ UNCHANGED <<ending, jobs, finished, wants, awaits>>
        BY <2>2 DEF Start, LeasesInv, queue, callers
    <3> QED BY <3>1, LeasesKept DEF LeasesInv
  <2> QED BY <1>7, <2>1, <2>2
<1>8. ASSUME Fail PROVE LeasesInv'
    BY <1>8 DEF Fail, LeasesInv, LeasesAreLive, channels, queue, callers
<1>9. ASSUME Execute PROVE LeasesInv'
    BY <1>9, LeasesKept DEF Execute, LeasesInv, channels, queue
<1>10. ASSUME NEW c \in Caller, Take(c) PROVE LeasesInv'
    BY <1>10, LeasesKept DEF Take, LeasesInv, channels, queue
<1>11. ASSUME \/ End \/ Stop \/ UNCHANGED vars
              \/ \E c \in Caller : Offer(c) \/ Unoffer(c) \/ Collect(c) \/ GiveUp(c)
       PROVE  LeasesInv'
  <2>1. UNCHANGED <<ending, jobs, finished, wants, awaits, worker, started>>
      BY <1>11 DEF End, Stop, Offer, Unoffer, Collect, GiveUp, vars, channels, queue, callers
  <2> QED BY <2>1, LeasesKept DEF LeasesInv
<1>12. ASSUME NEW w \in Waiter, Ready(w) \/ Enter(w) \/ Look(w) \/ Wake(w) \/ Exit(w) \/ Desert(w)
       PROVE  LeasesInv'
  <2>1. UNCHANGED <<ending, jobs, finished, wants, awaits, worker, started>>
      BY <1>12 DEF Ready, Enter, Look, Wake, Exit, Desert, channels, queue, callers
  <2> QED BY <2>1, LeasesKept DEF LeasesInv
<1> QED
    BY <1>1, <1>2, <1>3, <1>4, <1>5, <1>6, <1>7, <1>8, <1>9, <1>10, <1>11, <1>12
    DEF Next, Worker, Answering

\* No job that is done or gone holds a lease, however a status query falls
\* between the steps of its end (finish, engine.go:1345).
THEOREM LeasesStayLive == Spec => []LeasesAreLive
<1>1. LeasesInv => LeasesAreLive
    BY DEF LeasesInv
<1> QED BY CallsInit, CallsStep, LeasesInit, LeasesStep, <1>1, PTL DEF Spec

-----------------------------------------------------------------------------
(* Nobody forgotten: what StopAnswers and WaitersWake rest on, fairness apart. *)

\* A command that the worker has taken is answered, or still in its hand.
TakenIsAnswered ==
    \A c \in Caller :
        call[c] = "taken" => reply[c] # "none" \/ (hand = c /\ worker \in {"taken", "run"})

HandInv ==
    /\ worker \notin {"taken", "run"} => hand = Nobody
    /\ \A c \in Caller : call[c] = "taken" => reply[c] # "none" \/ hand = c

LEMMA HandStep == HandInv /\ CallsInv /\ LeasesInv /\ [Next]_vars => HandInv'
<1> SUFFICES ASSUME HandInv, CallsInv, LeasesInv, [Next]_vars PROVE HandInv'
    OBVIOUS
<1>T. call \in [Caller -> {"out", "offered", "taken", "over"}]
      /\ reply \in [Caller -> {"none", "value", "error", "stopped"}]
      /\ (worker \in {"taken", "run"} => hand \in Caller)
    BY DEF CallsInv, CallType
<1>1. ASSUME NEW c \in Caller, Take(c) PROVE HandInv'
  <2>1. hand = Nobody /\ \A d \in Caller : call[d] = "taken" => reply[d] # "none"
      BY <1>1, NobodyAssumption DEF Take, HandInv, NobodyAssumption
  <2> QED BY <1>1, <1>T, <2>1 DEF Take, HandInv
<1>2. ASSUME Execute PROVE HandInv'
  <2>1. UNCHANGED call /\ hand \in Caller
      BY <1>2, <1>T DEF Execute
  <2>2. CASE Reply("stopped") /\ hand' = Nobody
    <3>1. reply' = [reply EXCEPT ![hand] = "stopped"]
        BY <2>2 DEF Reply
    <3> QED BY <1>T, <2>1, <2>2, <3>1 DEF HandInv
  <2>3. CASE worker' = "run" /\ UNCHANGED <<hand, reply>>
      BY <2>1, <2>3 DEF HandInv
  <2> QED BY <1>2, <2>2, <2>3 DEF Execute
<1>3. ASSUME RunCommand PROVE HandInv'
  <2>1. UNCHANGED call /\ hand \in Caller /\ hand' = Nobody /\ worker' \notin {"taken", "run"}
      BY <1>3, <1>T DEF RunCommand
  <2>2. PICK v \in {"value", "error"} : reply' = [reply EXCEPT ![hand] = v]
      BY <1>3 DEF RunCommand, Reply
  <2> QED BY <1>T, <2>1, <2>2 DEF HandInv
<1>4. ASSUME NEW c \in Caller, Offer(c) \/ Unoffer(c) \/ Collect(c) \/ GiveUp(c) PROVE HandInv'
  <2>1. UNCHANGED <<worker, hand, reply>> /\ \E p \in {"offered", "over"} : call' = [call EXCEPT ![c] = p]
      BY <1>4 DEF Offer, Unoffer, Collect, GiveUp, Return
  <2> QED BY <1>T, <2>1 DEF HandInv
<1>5. ASSUME Start PROVE HandInv'
  <2>1. UNCHANGED <<call, reply, hand>> /\ worker = "off" /\ worker' \in {"load", "over"}
      BY <1>5 DEF Start, LeasesInv, callers
  <2> QED BY <2>1 DEF HandInv
<1>6. ASSUME \/ Load \/ Leave \/ Fail \/ Unlease \/ Prune
             \/ \E j \in Job : Step(j) \/ Finish(j)
      PROVE  HandInv'
  <2>1. UNCHANGED <<call, reply, hand>> /\ worker \notin {"taken", "run"}
        /\ worker' \notin {"taken", "run"}
      BY <1>6 DEF Load, Leave, Fail, Unlease, Prune, Step, Finish, callers
  <2> QED BY <2>1 DEF HandInv
<1>7. ASSUME \/ End \/ Stop \/ UNCHANGED vars \/ \E j \in Job : Status(j)
             \/ \E w \in Waiter : Ready(w) \/ Enter(w) \/ Look(w) \/ Wake(w) \/ Exit(w) \/ Desert(w)
      PROVE  HandInv'
  <2>1. UNCHANGED <<call, reply, hand, worker>>
      BY <1>7 DEF End, Stop, vars, Status, Ready, Enter, Look, Wake, Exit, Desert, callers
  <2> QED BY <2>1 DEF HandInv
<1> QED
    BY <1>1, <1>2, <1>3, <1>4, <1>5, <1>6, <1>7 DEF Next, Worker, Answering

\* No caller waits for an answer that nobody owes: the worker that takes a command
\* answers it before it takes another, stops or fails (call, engine.go:643).
THEOREM TakenAreAnswered == Spec => []TakenIsAnswered
<1>1. Init => HandInv
    BY DEF Init, HandInv
<1>2. HandInv /\ CallsInv => TakenIsAnswered
    BY NobodyAssumption DEF HandInv, CallsInv, CallType, TakenIsAnswered, NobodyAssumption
<1> QED BY CallsInit, CallsStep, LeasesInit, LeasesStep, HandStep, <1>1, <1>2, PTL DEF Spec

\* A waiter sleeps on only while its job is as it saw it: one that would be
\* answered otherwise has been woken.
SleepersWait ==
    \A w \in Waiter : wait[w] = "sleep" /\ w \notin woken => jobs[on[w]] \in {"live", "waits"}

LEMMA SleepStep == SleepersWait /\ WaitsInv /\ [Next]_vars => SleepersWait'
<1> SUFFICES ASSUME SleepersWait, WaitsInv, [Next]_vars PROVE SleepersWait'
    OBVIOUS
<1>T. wait \in [Waiter -> {"out", "enter", "look", "sleep", "leave", "over"}]
    BY DEF WaitsInv, WaitType
<1>1. ASSUME woken' = Waiter PROVE SleepersWait'
    BY <1>1 DEF SleepersWait
<1>2. ASSUME UNCHANGED <<wait, on, woken, jobs>> PROVE SleepersWait'
    BY <1>2 DEF SleepersWait
<1>3. ASSUME RunCommand PROVE SleepersWait'
  <2>1. UNCHANGED <<wait, on>> /\ (woken' = Waiter \/ UNCHANGED <<jobs, woken>>)
      BY <1>3 DEF RunCommand, Effect, Put, Broadcast
  <2> QED BY <1>1, <1>2, <2>1
<1>4. ASSUME NEW j \in Job, Step(j) \/ Finish(j) PROVE SleepersWait'
    BY <1>1, <1>4 DEF Step, Finish, Put, Broadcast
<1>5. ASSUME Prune PROVE SleepersWait'
  <2>1. UNCHANGED <<wait, on>> /\ (woken' = Waiter \/ UNCHANGED <<jobs, woken>>)
      BY <1>5 DEF Prune, Broadcast
  <2> QED BY <1>1, <1>2, <2>1
<1>6. ASSUME NEW w \in Waiter, Look(w) PROVE SleepersWait'
  <2>1. UNCHANGED <<on, jobs>>
      BY <1>6 DEF Look, queue
  <2>2. CASE wait' = [wait EXCEPT ![w] = "leave"] /\ UNCHANGED woken
      BY <1>T, <2>1, <2>2 DEF SleepersWait
  <2>3. CASE /\ jobs[on[w]] \in {"live", "waits"}
             /\ wait' = [wait EXCEPT ![w] = "sleep"] /\ woken' = woken \ {w}
      BY <1>T, <2>1, <2>3 DEF SleepersWait
  <2> QED BY <1>6, <2>2, <2>3 DEF Look, Answer
<1>7. ASSUME NEW w \in Waiter, Ready(w) \/ Enter(w) \/ Wake(w) \/ Exit(w) \/ Desert(w)
      PROVE  SleepersWait'
  <2>1. UNCHANGED <<on, jobs, woken>>
      BY <1>7 DEF Ready, Enter, Wake, Exit, Desert, queue
  <2>2. \E p \in {"enter", "look", "leave", "over"} : wait' = [wait EXCEPT ![w] = p]
      BY <1>7 DEF Ready, Enter, Wake, Exit, Desert
  <2> QED BY <1>T, <2>1, <2>2 DEF SleepersWait
<1>8. ASSUME \/ Load \/ Leave \/ End \/ Execute \/ Unlease \/ Start \/ Fail \/ Stop
             \/ \E c \in Caller : Take(c) \/ Offer(c) \/ Unoffer(c) \/ Collect(c) \/ GiveUp(c)
             \/ \E j \in Job : Status(j)
             \/ UNCHANGED vars
      PROVE  SleepersWait'
  <2>1. UNCHANGED <<wait, on, woken, jobs>>
      BY <1>8 DEF Load, Leave, End, Execute, Unlease, Start, Fail, Stop, Take, Offer, Unoffer,
                  Collect, GiveUp, Status, vars, queue, waiting
  <2> QED BY <1>2, <2>1
<1> QED
    BY <1>3, <1>4, <1>5, <1>6, <1>7, <1>8 DEF Next, Worker, Answering

\* No wake-up is lost: the change that ends a wait closes the channel the waiter
\* sleeps on, however it falls between its look and its sleep (Wait,
\* engine.go:533).
THEOREM WakeupsArrive == Spec => []SleepersWait
<1>1. Init => SleepersWait
    BY DEF Init, SleepersWait
<1> QED BY WaitsInit, WaitsStep, SleepStep, <1>1, PTL DEF Spec

-----------------------------------------------------------------------------
(* Types *)

RestType ==
    /\ {started, quit, loaded, done} \subseteq BOOLEAN
    /\ woken \subseteq Waiter /\ stopped \subseteq Waiter
    /\ ran \subseteq Caller /\ blocks \in 0..MaxBlocks

LEMMA RestInit == Init => RestType
<1> SUFFICES ASSUME Init PROVE RestType
    OBVIOUS
<1>1. {started, quit, loaded, done} \subseteq BOOLEAN
    BY DEF Init
<1>2. blocks \in 0..MaxBlocks
    BY BoundAssumption DEF Init, BoundAssumption
<1> QED BY <1>1, <1>2 DEF Init, RestType

LEMMA RestStep == RestType /\ CallsInv /\ [Next]_vars => RestType'
<1> SUFFICES ASSUME RestType, CallsInv, [Next]_vars PROVE RestType'
    OBVIOUS
<1>1. ASSUME RunCommand PROVE RestType'
  <2>1. hand \in Caller
      BY <1>1 DEF RunCommand, CallsInv, CallType
  <2>2. woken' = woken \/ woken' = Waiter
      BY <1>1 DEF RunCommand, Effect, Put, Broadcast
  <2>3. ran' = ran \cup {hand} /\ UNCHANGED <<started, quit, loaded, done, stopped, blocks>>
      BY <1>1 DEF RunCommand, channels
  <2> QED BY <2>1, <2>2, <2>3 DEF RestType
<1>2. ASSUME NEW j \in Job, Step(j) PROVE RestType'
  <2>1. woken' = Waiter /\ UNCHANGED <<started, quit, loaded, done, stopped, ran>>
      BY <1>2 DEF Step, Put, Broadcast, channels
  <2>2. blocks' = blocks \/ (blocks < MaxBlocks /\ blocks' = blocks + 1)
      BY <1>2 DEF Step
  <2>3. blocks' \in 0..MaxBlocks
      BY <2>2, BoundAssumption DEF RestType, BoundAssumption
  <2> QED BY <2>1, <2>3 DEF RestType
<1>3. ASSUME \/ Prune \/ \E j \in Job : Finish(j) \/ Status(j) PROVE RestType'
  <2>1. woken' = woken \/ woken' = Waiter
      BY <1>3 DEF Prune, Finish, Status, Put, Broadcast, waiting
  <2>2. UNCHANGED <<started, quit, loaded, done, stopped, ran, blocks>>
      BY <1>3 DEF Prune, Finish, Status, channels, waiting, seen
  <2> QED BY <2>1, <2>2 DEF RestType
<1>4. ASSUME NEW w \in Waiter, Ready(w) \/ Enter(w) \/ Look(w) \/ Wake(w) \/ Exit(w) \/ Desert(w)
      PROVE  RestType'
  <2>1. woken' = woken \/ woken' = woken \ {w}
      BY <1>4 DEF Ready, Enter, Look, Wake, Exit, Desert
  <2>2. stopped' = stopped \/ stopped' = stopped \cup {w}
      BY <1>4 DEF Ready, Enter, Look, Wake, Exit, Desert
  <2>3. UNCHANGED <<started, quit, loaded, done, ran, blocks>>
      BY <1>4 DEF Ready, Enter, Look, Wake, Exit, Desert, channels, seen
  <2> QED BY <2>1, <2>2, <2>3 DEF RestType
<1>5. ASSUME Start \/ Load \/ End \/ Stop PROVE RestType'
    BY <1>5 DEF Start, Load, End, Stop, RestType, waiting, seen
<1>6. ASSUME \/ Leave \/ Execute \/ Unlease \/ Fail \/ UNCHANGED vars
             \/ \E c \in Caller : Offer(c) \/ Unoffer(c) \/ Collect(c) \/ GiveUp(c) \/ Take(c)
      PROVE  RestType'
    BY <1>6
    DEF Leave, Execute, Unlease, Fail, Offer, Unoffer, Collect, GiveUp, Take, vars, RestType,
        channels, waiting, seen
<1> QED
    BY <1>1, <1>2, <1>3, <1>4, <1>5, <1>6 DEF Next, Worker, Answering

\* Every variable keeps to its range, and the count of a job's waiters, which
\* `leave' takes down in Go's plain int, stays between zero and the callers of
\* Wait (engine.go:697).
THEOREM Types == Spec => []TypeOK
<1>1. CallsInv /\ WaitsInv /\ LeasesInv /\ RestType => TypeOK
  <2> SUFFICES ASSUME CallsInv, WaitsInv, LeasesInv, RestType PROVE TypeOK
      OBVIOUS
  <2>1. waiters \in [Job -> 0..Cardinality(Waiter)]
    <3> SUFFICES ASSUME NEW j \in Job PROVE waiters[j] \in 0..Cardinality(Waiter)
        BY DEF WaitsInv, WaitType
    <3>1. Counted(j) \subseteq Waiter
        BY DEF Counted
    <3>2. /\ Cardinality(Counted(j)) <= Cardinality(Waiter)
          /\ Cardinality(Counted(j)) \in Nat /\ Cardinality(Waiter) \in Nat
        BY <3>1, WaiterAssumption, CountedFinite, FS_Subset, FS_CardinalityType DEF WaiterAssumption
    <3> QED BY <3>2 DEF WaitsInv
  <2>2. owed \subseteq Waiter /\ kept \subseteq Job
      BY DEF WaitsInv
  <2> QED BY <2>1, <2>2 DEF CallsInv, CallType, WaitsInv, WaitType, LeasesInv, RestType, TypeOK
<1> QED
    BY CallsInit, CallsStep, WaitsInit, WaitsStep, LeasesInit, LeasesStep, RestInit, RestStep, <1>1,
       PTL DEF Spec
===============================================================================
