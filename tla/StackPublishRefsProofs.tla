------------------------ MODULE StackPublishRefsProofs ------------------------
(***************************************************************************)
(* Proofs about the refs of StackPublish, on top of the invariant of       *)
(* StackPublishProofs: what a user resolved by hand stays reachable, and   *)
(* no checkout is left on a branch its files trail.                        *)
(*                                                                         *)
(* Both rest on what a run notes of itself.  What it has noted never runs  *)
(* ahead of what it has done (Control), so what was noted last says where  *)
(* a resolved head is (Kept) and which checkouts may trail (Follow, and in *)
(* the middle of a move Moves).                                            *)
(***************************************************************************)
EXTENDS StackPublishProofs

\* The steps of a run that pushes, and of one that does not.
PushSteps == {"sources", "recover", "pin", "landed", "recoverPush", "publish", "push", "stale", "released",
              "repush", "pushed", "receipts", "receipted", "choose", "holders", "refs", "restore", "complete"}
WriteSteps == {"apply", "write", "rewrite", "aligned", "finish"}

\* What a run has noted never runs ahead of what it has done.
Flags(r) ==
    /\ r.publishing => r.kind = "push" /\ Played(r)
    /\ r.pushed => r.publishing
    /\ r.receipted => r.pushed
    /\ r.moved # {} => r.sourcesMoving
    /\ r.applied => r.kind = "noPush" /\ Played(r)
    /\ r.aligned => r.applied

\* q and r say the same but for the replayed heads.
Beside(q, r) ==
    /\ SameStart(q, r) /\ SameMoves(q, r) /\ q.resolved = r.resolved
    /\ q.applied = r.applied /\ q.aligned = r.aligned /\ q.publishing = r.publishing /\ q.pushed = r.pushed

\* The copy in hand is the saved one, but for heads not saved yet.
Synced ==
    /\ pc \notin {"idle", "drive", "released"} => run = disk
    /\ pc \in {"drive", "released"} => disk # None /\ Beside(run, disk)
    /\ pc = "drive" /\ Played(disk) => run = disk

\* What a run has noted by each step.
NotedAt(r, step) ==
    /\ step \in PushSteps => r.kind = "push"
    /\ step \in WriteSteps => r.kind = "noPush"
    /\ step \in {"push", "stale", "released", "repush", "pushed"} => r.publishing /\ ~r.pushed
    /\ step \in {"receipts", "receipted"} => r.pushed
    /\ step \in {"complete", "completeAborted"} => r.receipted
    /\ step \in {"holders", "refs", "restore"} => r.sourcesMoving
    /\ step = "align" => IF r.kind = "push" THEN r.sourcesMoving ELSE r.applied
    /\ step \in {"write", "rewrite", "aligned", "finish"} => r.applied
    /\ step = "write" => ~r.aligned
    /\ step = "resolved" => r.newHead[r.conflict] = None
    /\ step = "finish" => r.aligned

Control == /\ Synced
           /\ pc # "idle" => NotedAt(run, pc)
           /\ disk # None => Flags(disk)

\* A source is as its users made it; what was resolved is by hand.
ByHand(r, n) ==
    /\ \A b \in Branches : r.source[b].commit.by = "source" /\ r.source[b].commit.work <= n
    /\ \A b \in r.resolved \cap Live(r) :
          (IF r.newHead[b] = None THEN r.head[b] ELSE r.newHead[b]).commit.by = "hand"

Hands ==
    /\ disk # None => ByHand(disk, outside)
    /\ run # None => ByHand(run, outside)
    /\ (disk # None /\ ~disk.sourcesMoving /\ ~disk.applied) \/ pc = "write" =>
          \A b \in Branches : local[b].commit.by = "source"

\* The branches whose checkout trails them, and those a run moves.
Lagging == {b \in Branches : tree[b] \notin {None, local[b]}}
Going(r) == IF r.applied THEN Movers(r) ELSE r.moved

\* A branch is where the run put it, or its user has gone on from there.
Placed(r, b) == /\ local[b].commit.by = r.newHead[b].commit.by
                /\ local[b] = r.newHead[b] \/ local[b].commit.work > r.source[b].commit.work

Follow ==
    /\ ~trailing /\ pc \notin {"align", "restore"} => Lagging = {}
    /\ pc \in {"write", "aligned", "finish", "complete", "clear"} => Lagging = {}
    /\ disk # None => \A b \in Lagging : b \in Going(disk) /\ local[b] = disk.newHead[b]
    /\ disk # None /\ disk.aligned => Lagging = {}

Moves ==
    /\ disk # None /\ disk.aligned => \A b \in Movers(disk) : Placed(disk, b)
    /\ pc \in {"aligned", "finish"} => \A b \in Movers(run) : Placed(run, b)
    /\ pc = "refs" => /\ Lagging \subseteq moving /\ pending \subseteq moving
                      /\ \A b \in pending : run.source[b] # run.newHead[b]
    /\ pc \in {"refs", "restore"} \/ (pc = "align" /\ run.kind = "push") =>
          moving \subseteq run.moved /\ pending \subseteq moving
    /\ pc \in {"align", "restore"} =>
          LET bound == IF run.kind = "push" THEN moving ELSE Movers(run)
          IN  Lagging \subseteq todo /\ todo \subseteq bound /\ \A b \in bound : Placed(run, b)
    /\ pc \in {"align", "restore"} /\ run.kind = "push" =>
          /\ \A b \in pending \cap todo : local[b] = run.newHead[b] => tree[b] \in {None, run.source[b]}
          /\ ~trailing => Lagging \subseteq pending
    /\ pc = "restore" => pending \subseteq todo
    /\ pc = "align" /\ run.kind = "push" => \A c \in pending \ todo : \A b \in todo : c \in Below(b)

\* A head by hand with the work that was resolved.
ByHandAt(g, n) == g # None /\ g.commit.by = "hand" /\ g.commit.work >= n
Somewhere(r, b) == LET n == r.source[b].commit.work
                   IN  \/ ByHandAt(pins[b], n) \/ r.receipted \/ r.aligned
                       \/ \E g \in kept[b] : ByHandAt(g, n)

Kept ==
    /\ disk # None => \A b \in disk.resolved \cap Live(disk) : Somewhere(disk, b)
    /\ pc = "resolved" => ByHandAt(pins[run.conflict], run.source[run.conflict].commit.work)
    /\ pc = "dropAborted" => \A b \in run.resolved \cap Live(run) :
                                \E g \in kept[b] : ByHandAt(g, run.source[b].commit.work)
    /\ disk # None /\ disk.receipted => \A b \in Live(disk) : receipt[b].head = disk.newHead[b]
    /\ pc = "receipted" => \A b \in Live(run) : receipt[b].head = run.newHead[b]

Refs == Control /\ Hands /\ Follow /\ Moves /\ Kept

USE StackAssumption, KindAssumption, BoundAssumption
-----------------------------------------------------------------------------
\* What the steps note: the parts that StackPublishProofs leaves open.

Notes(q, r) == q.publishing = r.publishing /\ q.pushed = r.pushed /\ q.applied = r.applied /\ q.aligned = r.aligned

LEMMA NotesOf ==
  ASSUME NEW r \in Runs
  PROVE  /\ \A b \in OrNone(Branches) : Notes([r EXCEPT !.conflict = b], r)
         /\ Notes([r EXCEPT !.targets = r.newHead], r)
         /\ Notes([r EXCEPT !.receipted = TRUE], r)
         /\ \A bs \in SUBSET Branches : Notes([r EXCEPT !.sourcesMoving = TRUE, !.moved = bs], r)
         /\ \A f \in [Branches -> OrNone(Heads)] : Notes([r EXCEPT !.newHead = f], r)
         /\ \A b \in Branches, h \in OrNone(Heads) :
               /\ Notes([r EXCEPT !.newHead[b] = h], r)
               /\ Notes([r EXCEPT !.newHead[b] = h, !.resolved = @ \cup {b}], r)
BY DEF Runs, Notes

LEMMA PushedNote ==
  ASSUME NEW r \in Runs
  PROVE  LET q == [r EXCEPT !.pushed = TRUE]
         IN  q.pushed /\ q.publishing = r.publishing /\ q.applied = r.applied /\ q.aligned = r.aligned
BY DEF Runs

LEMMA PublishingNote ==
  ASSUME NEW r \in Runs
  PROVE  LET q == [r EXCEPT !.publishing = TRUE, !.targets = r.newHead]
         IN  q.publishing /\ q.pushed = r.pushed /\ q.applied = r.applied /\ q.aligned = r.aligned
BY DEF Runs

LEMMA AppliedNote ==
  ASSUME NEW r \in Runs, NEW v \in BOOLEAN
  PROVE  LET q == [r EXCEPT !.applied = v]
         IN  q.applied = v /\ q.publishing = r.publishing /\ q.pushed = r.pushed /\ q.aligned = r.aligned
BY DEF Runs

LEMMA AlignedNote ==
  ASSUME NEW r \in Runs
  PROVE  LET q == [r EXCEPT !.aligned = TRUE]
         IN  q.aligned /\ q.publishing = r.publishing /\ q.pushed = r.pushed /\ q.applied = r.applied
BY DEF Runs

LEMMA ChosenNote ==
  ASSUME NEW r \in Runs, NEW bs \in SUBSET Branches
  PROVE  [r EXCEPT !.sourcesMoving = TRUE, !.moved = bs].sourcesMoving
BY DEF Runs

\* What a process at work has in hand.
LEMMA InHandIsSaved ==
  ASSUME IInv, Control, pc # "idle"
  PROVE  /\ disk # None /\ disk \in Runs /\ Good(disk) /\ Beside(run, disk) /\ Flags(disk) /\ NotedAt(run, pc)
         /\ pc \notin {"drive", "released"} => run = disk /\ Flags(run)
         /\ Live(disk) = Live(run)
<1>1. run # None /\ run \in Runs
    BY AtWork
<1>2. disk # None /\ Beside(run, disk) /\ (pc \notin {"drive", "released"} => run = disk)
  <2>1. CASE pc \in {"drive", "released"}
      BY <2>1 DEF Control, Synced
  <2>2. CASE pc \notin {"drive", "released"}
      BY <1>1, <2>2 DEF Control, Synced, Beside, SameStart, SameMoves
  <2> QED BY <2>1, <2>2
<1>3. Good(disk) /\ disk \in Runs
    BY <1>2 DEF IInv, Saved, Good
<1>4. Flags(disk) /\ NotedAt(run, pc)
    BY <1>2 DEF Control
<1> QED BY <1>2, <1>3, <1>4 DEF Beside, SameStart, Live

-----------------------------------------------------------------------------
\* The notes.

LEMMA ControlEnds ==
  ASSUME Control, Idle, disk' \in {None, disk} \/ Flags(disk')
  PROVE  Control'
<1>1. pc' = "idle"
    BY DEF Idle
<1>2. disk' # None => Flags(disk)'
    BY DEF Control, Flags, Played, Live
<1> QED BY <1>1, <1>2 DEF Control, Synced

LEMMA ControlGoes ==
  ASSUME IInv, Control, pc \notin {"idle", "drive", "released"}, UNCHANGED <<run, disk>>,
         pc' \notin {"idle", "drive", "released"}, NotedAt(run, pc')
  PROVE  Control'
<1>1. Synced'
    BY DEF Control, Synced
<1>2. NotedAt(run, pc)'
    BY DEF NotedAt
<1>3. disk # None => Flags(disk)'
    BY DEF Control, Flags, Played, Live
<1> QED BY <1>1, <1>2, <1>3 DEF Control

LEMMA ControlSaves ==
  ASSUME Control, disk' = run', run' # None, Flags(run'), NotedAt(run', pc')
  PROVE  Control'
<1>1. Beside(run', disk')
    BY DEF Beside, SameStart, SameMoves
<1>2. Synced'
    BY <1>1 DEF Synced, Beside, SameStart, SameMoves
<1>3. NotedAt(run, pc)' /\ Flags(disk)'
    BY DEF NotedAt, Flags, Played, Live
<1> QED BY <1>2, <1>3 DEF Control

LEMMA CommandControls ==
  ASSUME IInv, Control, Continue \/ Abort
  PROVE  Control'
<1>1. /\ disk # None /\ run' = disk /\ disk' = disk /\ pc' \in {"drive", "resume", "recoverAbort"}
    BY DEF Continue, Abort, Goto, repo
<1>2. NotedAt(run', pc') /\ Flags(run')
    BY <1>1 DEF NotedAt, PushSteps, WriteSteps, Control
<1> QED BY <1>1, <1>2, ControlSaves

LEMMA ReplayControls ==
  ASSUME IInv, Control, Replay
  PROVE  Control'
<1>1. pc = "drive" /\ pc' = "drive" /\ disk' = disk /\ Unplayed /\ run \in Runs
    BY AtWork DEF Replay, At
<1>2. ~Played(disk) /\ disk # None /\ Beside(run, disk)
    BY <1>1, InHandIsSaved DEF Control, Synced, Played, Unplayed
<1>3. NextBranch \in Branches /\ NewBase(run, NextBranch) \in Base /\ run.head[NextBranch] \in Own
    BY <1>1, NextIsLowest, AtWork DEF Good, Entry
<1>4. PICK h \in OrNone(Heads) : run' = [run EXCEPT !.newHead[NextBranch] = h]
    BY <1>3, ReplayedHead DEF Replay, OrNone, Own
<1>5. SameStart(run', run) /\ SameMoves(run', run) /\ run'.resolved = run.resolved /\ Notes(run', run)
    BY <1>1, <1>3, <1>4, ReplayedRun, NotesOf
<1>6. Beside(run', disk')
    BY <1>1, <1>2, <1>5 DEF Beside, SameStart, SameMoves, Notes
<1>7. ~Played(disk)'
    BY <1>1, <1>2 DEF Played, Live
<1>8. Flags(disk)'
    BY <1>1, <1>2 DEF Control, Flags, Played, Live
<1>9. NotedAt(run, pc)'
    BY <1>1 DEF NotedAt, PushSteps, WriteSteps
<1> QED BY <1>1, <1>2, <1>6, <1>7, <1>8, <1>9 DEF Control, Synced, Beside, SameStart, SameMoves

LEMMA OpenConflictControls ==
  ASSUME IInv, Control, OpenConflict
  PROVE  Control'
<1>1. pc = "drive" /\ Unplayed /\ run \in Runs /\ Idle
    BY AtWork DEF OpenConflict, At
<1>2. /\ disk # None /\ Beside(run, disk) /\ Flags(disk) /\ ~Played(disk)
    BY <1>1, InHandIsSaved DEF Control, Synced, Played, Unplayed
<1>3. PICK b \in OrNone(Branches) : disk' = [run EXCEPT !.conflict = b]
    BY <1>1, NextIsLowest DEF OpenConflict, OrNone
<1>4. Notes(disk', run) /\ SamePlan(disk', run) /\ disk'.moved = run.moved /\ disk'.sourcesMoving = run.sourcesMoving
      /\ disk'.receipted = run.receipted
    BY <1>1, <1>3, NotesOf, ConflictRun
<1>5. ~disk'.publishing /\ ~disk'.pushed /\ ~disk'.receipted /\ ~disk'.applied /\ ~disk'.aligned
      /\ (disk'.moved # {} => disk'.sourcesMoving)
    BY <1>2, <1>4 DEF Flags, Notes, Beside, SameStart, SameMoves
<1>6. Flags(disk')
    BY <1>5 DEF Flags
<1> QED BY <1>1, <1>6, ControlEnds

LEMMA SaveReplaysControls ==
  ASSUME IInv, Control, SaveReplays
  PROVE  Control'
<1>1. /\ pc = "drive" /\ ~Unplayed /\ run \in Runs /\ run' = run /\ disk' = run
      /\ pc' = (IF run.kind = "noPush" THEN "apply" ELSE "sources") /\ run.kind \in {"push", "noPush"} /\ run # None
    BY AtWork, RunFields DEF SaveReplays, At, SaveTo, Save, Goto
<1>2. Beside(run, disk) /\ Flags(disk) /\ Played(run)
    BY <1>1, InHandIsSaved DEF Played, Unplayed
<1>3. Flags(run)
    BY <1>2 DEF Flags, Beside, SameStart, SameMoves
<1>4. NotedAt(run, pc')
    BY <1>1 DEF NotedAt, PushSteps, WriteSteps
<1> QED BY <1>1, <1>3, <1>4, ControlSaves

LEMMA ConflictControls ==
  ASSUME IInv, Control, PinResolved \/ SaveResolved \/ CloseWorkspace
  PROVE  Control'
<1>1. run \in Runs /\ run # None /\ Good(run) /\ Stage(run, pc) /\ run = disk /\ Flags(run) /\ pc \in {"resume", "resolved"}
  <2>1. pc \in {"resume", "resolved"}
      BY DEF PinResolved, SaveResolved, CloseWorkspace, At
  <2> QED BY <2>1, AtWork, InHandIsSaved
<1>2. CASE PinResolved
    BY <1>1, <1>2, ControlGoes DEF PinResolved, Goto, NotedAt, PushSteps, WriteSteps
<1>3. CASE SaveResolved
  <2> DEFINE b == run.conflict
             h == HandMade(b)
  <2>1. b \in Live(run) /\ b \in Branches /\ \A c \in Below(b) \cap Live(run) : run.newHead[c] # None
      BY <1>1, AtWork DEF Stage, Good, Shape, OrNone
  <2>2. h \in Heads
    <3>1. run.head[b] \in Own /\ NewBase(run, b) \in Base
        BY <1>1, <2>1, NewBaseIsBase DEF Good, Entry
    <3> QED BY <3>1, ReplayedHead DEF HandMade, Own
  <2>3. run' = [run EXCEPT !.newHead[b] = h, !.resolved = @ \cup {b}] /\ disk' = run' /\ pc' = "resume"
      BY <1>3 DEF SaveResolved, Save, Goto
  <2> HIDE DEF b, h
  <2>a. h \in OrNone(Heads)
      BY <2>2 DEF OrNone
  <2>b. Notes(run', run)
      BY <1>1, <2>1, <2>a, <2>3, NotesOf
  <2>c. /\ run' \in Runs /\ SameStart(run', run) /\ SameMoves(run', run) /\ run'.resolved = run.resolved \cup {b}
        /\ run'.newHead = [run.newHead EXCEPT ![b] = h]
    <3>1. run \in Runs /\ b \in Branches /\ run' = [run EXCEPT !.newHead[b] = h, !.resolved = @ \cup {b}]
        BY <1>1, <2>1, <2>3
    <3> QED BY <2>a, <3>1, ResolvedRun
  <2>4. /\ run' \in Runs /\ SameStart(run', run) /\ SameMoves(run', run) /\ Notes(run', run)
        /\ run'.newHead = [run.newHead EXCEPT ![b] = h]
      BY <2>b, <2>c
  <2>5. Played(run) => Played(run')
      BY <1>1, <2>1, <2>2, <2>4, RunFields, NoneIsNone DEF Played, Live, SameStart
  <2>6. Flags(run')
      BY <1>1, <2>4, <2>5 DEF Flags, Notes, SameStart, SameMoves
  <2>7. NotedAt(run', pc')
      BY <2>3 DEF NotedAt, PushSteps, WriteSteps
  <2> QED BY <2>3, <2>4, <2>6, <2>7, NoneIsNone, ControlSaves
<1>4. CASE CloseWorkspace
  <2>1. run' = [run EXCEPT !.conflict = None] /\ disk' = run' /\ pc' = "drive"
      BY <1>4 DEF CloseWorkspace, Save, Goto
  <2>a. None \in OrNone(Branches)
      BY DEF OrNone
  <2>b. Notes(run', run)
      BY <1>1, <2>1, <2>a, NotesOf
  <2>2. /\ run' \in Runs /\ SamePlan(run', run) /\ run'.moved = run.moved /\ Notes(run', run)
        /\ run'.sourcesMoving = run.sourcesMoving /\ run'.receipted = run.receipted
      BY <1>1, <2>1, <2>a, <2>b, ConflictRun
  <2>3. Flags(run')
      BY <1>1, <2>2 DEF Flags, Notes, SamePlan, Played, Live
  <2>4. NotedAt(run', pc')
      BY <2>1 DEF NotedAt, PushSteps, WriteSteps
  <2> QED BY <2>1, <2>2, <2>3, <2>4, NoneIsNone, ControlSaves
<1> QED BY <1>2, <1>3, <1>4

\* A new plan starts with nothing noted.
LEMMA PlanFields ==
  ASSUME NEW fresh
  PROVE  LET q == NextPlan(fresh)
         IN  /\ q.kind = run.kind /\ q.source = NewSource(fresh) /\ q.head = Started(fresh)
             /\ q.newHead = FirstHeads(fresh) /\ q.landed = run.landed \cup merged
             /\ q.resolved = run.resolved \ (fresh \cup run.landed)
             /\ q.moved = {} /\ ~q.sourcesMoving /\ ~q.publishing /\ ~q.pushed /\ ~q.receipted
             /\ ~q.applied /\ ~q.aligned
BY DEF NextPlan, Run

LEMMA Replans ==
  ASSUME IInv, NEW fresh, Replan(fresh)
  PROVE  \/ Exit
         \/ /\ run' = NextPlan(fresh) /\ disk' = run' /\ pc' = "drive" /\ MovedSources(run) \subseteq fresh
            /\ pins' = [b \in Branches |-> IF b \in run.landed THEN None ELSE pins[b]]
            /\ UNCHANGED <<local, tree, edited, kept, receipt, workspace, world, ghost, asks, moving, pending, todo>>
BY DEF Replan, Save, Goto, NextPlan, FirstHeads, NewSource, Started

LEMMA ReplanControls ==
  ASSUME IInv, Control, pc # "idle", Played(run), NEW fresh \in SUBSET Branches, Replan(fresh)
  PROVE  Control'
<1>1. CASE Exit
    BY <1>1, ControlEnds DEF Exit, repo
<1>2. CASE ~Exit
  <2>1. run' = NextPlan(fresh) /\ disk' = run' /\ pc' = "drive"
      BY <1>2, Replans
  <2>2. run' \in Runs
    <3>1. Plannable
        BY <1>2 DEF Replan
    <3> QED BY <2>1, <3>1, AtWork, ReplanIsGood DEF Good
  <2>3. Flags(run')
      BY <2>1, PlanFields DEF Flags
  <2>4. NotedAt(run', pc')
      BY <2>1 DEF NotedAt, PushSteps, WriteSteps
  <2> QED BY <2>1, <2>2, <2>3, <2>4, NoneIsNone, ControlSaves
<1> QED BY <1>1, <1>2

LEMMA ExitControls ==
  ASSUME Control, Exit
  PROVE  Control'
BY ControlEnds DEF Exit, repo

LEMMA GotoControls ==
  ASSUME IInv, Control, pc \notin {"idle", "drive", "released"}, NEW step,
         step \notin {"idle", "drive", "released"}, GotoOnly(step), NotedAt(run, step)
  PROVE  Control'
<1>1. UNCHANGED <<run, disk>> /\ pc' = step
    BY DEF GotoOnly, Goto, repo
<1> QED BY <1>1, ControlGoes

LEMMA SaveToControls ==
  ASSUME Control, NEW r \in Runs, NEW step, SaveTo(r, step), Flags(r), NotedAt(r, step)
  PROVE  Control'
<1>1. run' = r /\ disk' = r /\ pc' = step
    BY DEF SaveTo, Save, Goto
<1> QED BY <1>1, NoneIsNone, ControlSaves

LEMMA SourcesControls ==
  ASSUME IInv, Control, Sources \/ Landed
  PROVE  Control'
<1>1. /\ pc \in {"sources", "landed"} /\ run \in Runs /\ Good(run) /\ Played(run) /\ Flags(run) /\ NotedAt(run, pc)
      /\ MovedSources(run) \in SUBSET Branches
  <2>1. pc \in {"sources", "landed"}
      BY DEF Sources, Landed, At
  <2> QED BY <2>1, AtWork, InHandIsSaved DEF Stage, MovedSources
<1>2. run.kind = "push" /\ NotedAt(run, "recover") /\ NotedAt(run, "recoverPush") /\ NotedAt(run, "choose")
    BY <1>1 DEF NotedAt, PushSteps, WriteSteps
<1>3. CASE \E fresh \in SUBSET Branches : Replan(fresh)
    BY <1>1, <1>3, ReplanControls
<1>4. CASE GotoOnly("choose") \/ GotoOnly("recover") \/ GotoOnly("recoverPush")
    BY <1>1, <1>2, <1>4, GotoControls
<1> QED BY <1>1, <1>3, <1>4 DEF Sources, Landed

LEMMA RecoverControls ==
  ASSUME IInv, Control,
         Recover("recover", "pin") \/ Recover("recoverPush", "publish") \/ Recover("recoverAbort", "settle")
  PROVE  Control'
<1>1. PICK from \in {"recover", "recoverPush", "recoverAbort"}, to \in {"pin", "publish", "settle"} :
        Recover(from, to) /\ (to # "settle" => from \in {"recover", "recoverPush"})
    OBVIOUS
<1>2. pc = from /\ run \in Runs /\ Flags(run) /\ NotedAt(run, pc) /\ Good(run)
    BY <1>1, AtWork, InHandIsSaved DEF Recover, At
<1>3. NotedAt(run, to)
    BY <1>1, <1>2 DEF NotedAt, PushSteps, WriteSteps
<1> DEFINE q == [run EXCEPT !.pushed = TRUE]
<1>4. CASE Recovered(run) /\ SaveTo(q, to)
  <2>1. /\ q \in Runs /\ SamePlan(q, run) /\ SameMoves(q, run) /\ q.receipted = run.receipted
        /\ q.pushed /\ q.publishing = run.publishing /\ q.applied = run.applied /\ q.aligned = run.aligned
      BY <1>2, NotedPushed, PushedNote
  <2>2. run.publishing
      BY <1>4 DEF Recovered
  <2> HIDE DEF q
  <2>3. Flags(q)
      BY <1>2, <2>1, <2>2 DEF Flags, SamePlan, SameMoves, Played, Live
  <2>4. NotedAt(q, to)
      BY <1>1, <1>3, <2>1 DEF NotedAt, SamePlan, SameMoves, PushSteps, WriteSteps
  <2> QED BY <1>4, <2>1, <2>3, <2>4, SaveToControls
<1>5. CASE GotoOnly(to)
    BY <1>1, <1>2, <1>3, <1>5, GotoControls
<1> QED BY <1>1, <1>4, <1>5 DEF Recover

LEMMA PinAllControls ==
  ASSUME IInv, Control, PinAll
  PROVE  Control'
<1>1. pc = "pin" /\ NotedAt(run, pc)
    BY InHandIsSaved DEF PinAll, At
<1>2. CASE Exit
    BY <1>2, ExitControls
<1>3. CASE ~Exit
  <2>1. UNCHANGED <<run, disk>> /\ pc' = "landed"
      BY <1>3 DEF PinAll, Goto
  <2>2. NotedAt(run, pc')
      BY <1>1, <2>1 DEF NotedAt, PushSteps, WriteSteps
  <2> QED BY <1>1, <2>1, <2>2, ControlGoes
<1> QED BY <1>2, <1>3

LEMMA PublishControls ==
  ASSUME IInv, Control, Publish
  PROVE  Control'
<1>1. pc = "publish" /\ run \in Runs /\ Good(run) /\ Flags(run) /\ NotedAt(run, pc) /\ Played(run)
    BY AtWork, InHandIsSaved DEF Publish, At, Stage
<1>2. run.kind = "push"
    BY <1>1 DEF NotedAt, PushSteps
<1>3. CASE Exit
    BY <1>3, ExitControls
<1>4. CASE run.pushed /\ GotoOnly("receipts")
  <2>1. NotedAt(run, "receipts")
      BY <1>2, <1>4 DEF NotedAt, PushSteps, WriteSteps
  <2> QED BY <1>1, <1>4, <2>1, GotoControls
<1>5. CASE /\ ~(run.pushed /\ run.targets = run.newHead) /\ ~(run.publishing /\ run.targets # run.newHead)
           /\ Save([run EXCEPT !.publishing = TRUE, !.targets = run.newHead]) /\ Goto("push")
  <2> DEFINE q == [run EXCEPT !.publishing = TRUE, !.targets = run.newHead]
  <2>1. /\ q \in Runs /\ SamePlan(q, run) /\ SameMoves(q, run) /\ q.receipted = run.receipted
        /\ q.publishing /\ q.pushed = run.pushed /\ q.applied = run.applied /\ q.aligned = run.aligned
      BY <1>1, NotedPublishing, PublishingNote
  <2>2. run' = q /\ disk' = q /\ pc' = "push"
      BY <1>5 DEF Save, Goto
  <2> HIDE DEF q
  <2>3. ~run.pushed
      BY <1>1, <1>5 DEF Flags
  <2>4. Flags(q)
      BY <1>1, <1>2, <2>1 DEF Flags, SamePlan, SameMoves, Played, Live
  <2>5. NotedAt(q, "push")
      BY <1>2, <2>1, <2>3 DEF NotedAt, SamePlan, PushSteps, WriteSteps
  <2> QED BY <2>1, <2>2, <2>4, <2>5, NoneIsNone, ControlSaves
<1> QED BY <1>3, <1>4, <1>5 DEF Publish

LEMMA PushControls ==
  ASSUME IInv, Control, Push("push", GotoOnly("stale")) \/ Push("repush", Exit)
  PROVE  Control'
<1>1. pc \in {"push", "repush"} /\ NotedAt(run, pc) /\ UNCHANGED disk
    BY InHandIsSaved DEF Push, At, Exit, GotoOnly, repo
<1>2. CASE Idle
    BY <1>1, <1>2, ControlEnds
<1>3. CASE run' = run /\ pc' \in {"pushed", "stale"}
  <2>1. NotedAt(run, pc')
      BY <1>1, <1>3 DEF NotedAt, PushSteps, WriteSteps
  <2> QED BY <1>1, <1>3, <2>1, ControlGoes
<1> QED BY <1>2, <1>3 DEF Push, Exit, GotoOnly, Goto

LEMMA ReleaseControls ==
  ASSUME IInv, Control, Release
  PROVE  Control'
<1>1. pc = "stale" /\ run \in Runs /\ run = disk /\ run # None /\ NotedAt(run, pc) /\ Flags(disk)
    BY AtWork, InHandIsSaved DEF Release, At
<1>2. CASE GotoOnly("pushed")
  <2>1. NotedAt(run, "pushed")
      BY <1>1 DEF NotedAt, PushSteps, WriteSteps
  <2> QED BY <1>1, <1>2, <2>1, GotoControls
<1>3. CASE Idle /\ UNCHANGED disk
    BY <1>3, ControlEnds
<1>4. CASE /\ run'  = [run EXCEPT !.newHead = [b \in Branches |-> IF b \in Adopted THEN remote[b] ELSE @[b]]]
           /\ pc' = "released" /\ UNCHANGED disk
  <2> DEFINE f == [b \in Branches |-> IF b \in Adopted THEN remote[b] ELSE run.newHead[b]]
  <2>1. f \in [Branches -> OrNone(Heads)] /\ run' = [run EXCEPT !.newHead = f]
    <3>1. run.newHead \in [Branches -> OrNone(Heads)] /\ remote \in [Branches -> OrNone(Heads)]
        BY <1>1, RunFields DEF IInv, Remote
    <3> QED BY <1>1, <1>4, <3>1
  <2> HIDE DEF f
  <2>2. run' \in Runs /\ SameStart(run', run) /\ SameMoves(run', run) /\ run'.resolved = run.resolved /\ Notes(run', run)
      BY <1>1, <2>1, AdoptedRun, NotesOf
  <2>3. Beside(run', disk')
      BY <1>1, <1>4, <2>2 DEF Beside, Notes
  <2>4. NotedAt(run', pc')
      BY <1>1, <1>4, <2>2 DEF NotedAt, PushSteps, WriteSteps, Notes, SameStart
  <2>5. Flags(disk)' /\ NotedAt(run, pc)'
      BY <1>1, <1>4, <2>4 DEF Flags, NotedAt, Played, Live
  <2> QED BY <1>1, <1>4, <2>3, <2>5 DEF Control, Synced, Beside, SameStart, SameMoves
<1> QED BY <1>2, <1>3, <1>4 DEF Release, Goto

LEMMA ReleasedControls ==
  ASSUME IInv, Control, Released
  PROVE  Control'
<1>1. /\ pc = "released" /\ run \in Runs /\ Beside(run, disk) /\ Flags(disk) /\ NotedAt(run, pc) /\ Played(run)
    BY AtWork, InHandIsSaved DEF Released, At, Stage
<1> DEFINE q == [run EXCEPT !.targets = run.newHead]
<1>2. q \in Runs /\ SamePlan(q, run) /\ SameMoves(q, run) /\ q.receipted = run.receipted /\ Notes(q, run)
    BY <1>1, NotedTargets, NotesOf
<1>3. PICK step \in {"pushed", "repush"} : SaveTo(q, step)
    BY DEF Released
<1> HIDE DEF q
<1>4. Flags(q)
    BY <1>1, <1>2 DEF Flags, Beside, Notes, SamePlan, SameMoves, SameStart, Played, Live
<1>5. NotedAt(q, step)
    BY <1>1, <1>2 DEF NotedAt, PushSteps, WriteSteps, Notes, SamePlan
<1> QED BY <1>2, <1>3, <1>4, <1>5, SaveToControls

LEMMA PushedControls ==
  ASSUME IInv, Control, Pushed
  PROVE  Control'
<1>1. pc = "pushed" /\ run \in Runs /\ Flags(run) /\ NotedAt(run, pc)
    BY AtWork, InHandIsSaved DEF Pushed, At
<1> DEFINE q == [run EXCEPT !.pushed = TRUE]
<1>2. /\ q \in Runs /\ SamePlan(q, run) /\ SameMoves(q, run) /\ q.receipted = run.receipted
      /\ q.pushed /\ q.publishing = run.publishing /\ q.applied = run.applied /\ q.aligned = run.aligned
    BY <1>1, NotedPushed, PushedNote
<1>3. SaveTo(q, "receipts")
    BY DEF Pushed
<1> HIDE DEF q
<1>4. run.publishing /\ run.kind = "push"
    BY <1>1 DEF NotedAt, PushSteps
<1>5. Flags(q)
    BY <1>1, <1>2, <1>4 DEF Flags, SamePlan, SameMoves, Played, Live
<1>6. NotedAt(q, "receipts")
    BY <1>2, <1>4 DEF NotedAt, PushSteps, WriteSteps, SamePlan
<1> QED BY <1>2, <1>3, <1>5, <1>6, SaveToControls

LEMMA ReceiptsControl ==
  ASSUME IInv, Control, RecordReceipts \/ Receipted
  PROVE  Control'
<1>1. /\ pc \in {"receipts", "receipted"} /\ run \in Runs /\ Flags(run) /\ NotedAt(run, pc)
  <2>1. pc \in {"receipts", "receipted"}
      BY DEF RecordReceipts, Receipted, At
  <2> QED BY <2>1, AtWork, InHandIsSaved
<1>2. run.pushed /\ run.kind = "push"
    BY <1>1 DEF NotedAt, PushSteps
<1>3. CASE RecordReceipts
  <2>1. UNCHANGED <<run, disk>> /\ pc' = "receipted"
      BY <1>3 DEF RecordReceipts, Goto
  <2>2. NotedAt(run, pc')
      BY <1>2, <2>1 DEF NotedAt, PushSteps, WriteSteps
  <2> QED BY <1>1, <2>1, <2>2, ControlGoes
<1>4. CASE Receipted
  <2> DEFINE q == [run EXCEPT !.receipted = TRUE]
  <2>1. q \in Runs /\ SamePlan(q, run) /\ SameMoves(q, run) /\ q.receipted /\ Notes(q, run)
      BY <1>1, NotedReceipted, NotesOf
  <2>2. SaveTo(q, "choose")
      BY <1>4 DEF Receipted
  <2> HIDE DEF q
  <2>3. Flags(q)
      BY <1>1, <1>2, <2>1 DEF Flags, Notes, SamePlan, SameMoves, Played, Live
  <2>4. NotedAt(q, "choose")
      BY <1>2, <2>1 DEF NotedAt, PushSteps, WriteSteps, SamePlan
  <2> QED BY <2>1, <2>2, <2>3, <2>4, SaveToControls
<1> QED BY <1>3, <1>4

LEMMA ChooseControls ==
  ASSUME IInv, Control, Choose
  PROVE  Control'
<1>1. pc = "choose" /\ run \in Runs /\ Flags(run) /\ NotedAt(run, pc) /\ Live(run) \subseteq Branches
    BY AtWork, InHandIsSaved DEF Choose, At
<1>2. run.kind = "push"
    BY <1>1 DEF NotedAt, PushSteps
<1>3. CASE run.sourcesMoving /\ GotoOnly("holders")
  <2>1. NotedAt(run, "holders")
      BY <1>2, <1>3 DEF NotedAt, PushSteps, WriteSteps
  <2> QED BY <1>1, <1>3, <2>1, GotoControls
<1>4. CASE SaveTo([run EXCEPT !.sourcesMoving = TRUE, !.moved = Movers(run) \ Stays], "holders")
  <2> DEFINE bs == Movers(run) \ Stays
             q  == [run EXCEPT !.sourcesMoving = TRUE, !.moved = bs]
  <2>1. bs \in SUBSET Branches
      BY <1>1 DEF Movers
  <2>2. SaveTo(q, "holders")
      BY <1>4
  <2> HIDE DEF bs
  <2>3. /\ q \in Runs /\ SamePlan(q, run) /\ q.receipted = run.receipted /\ Notes(q, run) /\ q.sourcesMoving
      BY <1>1, <2>1, ChosenRun, NotesOf, ChosenNote
  <2> HIDE DEF q
  <2>4. Flags(q)
      BY <1>1, <2>3 DEF Flags, Notes, SamePlan, Played, Live
  <2>5. NotedAt(q, "holders")
      BY <1>2, <2>3 DEF NotedAt, PushSteps, WriteSteps, SamePlan
  <2> QED BY <2>2, <2>3, <2>4, <2>5, SaveToControls
<1> QED BY <1>3, <1>4 DEF Choose

LEMMA MovesControl ==
  ASSUME IInv, Control, Holders \/ MoveRefs \/ Align \/ Aligned \/ AlignFails \/ Restore
  PROVE  Control'
<1>1. pc \in {"holders", "refs", "align", "restore"} /\ run \in Runs /\ Flags(run) /\ NotedAt(run, pc) /\ Good(run)
  <2>1. pc \in {"holders", "refs", "align", "restore"}
      BY DEF Holders, MoveRefs, Align, Aligned, AlignFails, Restore, At
  <2> QED BY <2>1, AtWork, InHandIsSaved
<1>2. /\ pc \in {"holders", "refs"} => run.kind = "push"
      /\ run.kind \in {"push", "noPush"} /\ (run.sourcesMoving => run.receipted)
      /\ run.kind = "push" => run.sourcesMoving
      /\ run.kind = "noPush" => run.applied
    BY <1>1, RunFields DEF NotedAt, PushSteps, Good, Shape, Flags
<1>3. CASE Exit
    BY <1>3, ExitControls
<1>4. CASE Idle /\ UNCHANGED disk
    BY <1>4, ControlEnds
<1>5. CASE UNCHANGED <<run, disk>> /\ run.kind = "push" /\ pc' \in {"complete", "refs", "align", "restore"}
  <2>1. NotedAt(run, pc')
      BY <1>2, <1>5 DEF NotedAt, PushSteps, WriteSteps
  <2> QED BY <1>1, <1>5, <2>1, ControlGoes
<1>6. CASE UNCHANGED <<run, disk>> /\ run.kind = "noPush" /\ pc' \in {"align", "aligned"}
  <2>1. NotedAt(run, pc')
      BY <1>2, <1>6 DEF NotedAt, PushSteps, WriteSteps
  <2> QED BY <1>1, <1>6, <2>1, ControlGoes
<1>7. CASE Holders
    BY <1>1, <1>2, <1>3, <1>5, <1>7 DEF Holders, Goto, repo, At
<1>8. CASE MoveRefs
    BY <1>1, <1>2, <1>3, <1>5, <1>8 DEF MoveRefs, Goto, At
<1>9. CASE Align
    BY <1>1, <1>2, <1>5, <1>6, <1>9 DEF Align, At
<1>10. CASE Aligned
    BY <1>1, <1>2, <1>5, <1>6, <1>10 DEF Aligned, GotoOnly, Goto, repo
<1>11. CASE AlignFails
    BY <1>1, <1>2, <1>4, <1>5, <1>11 DEF AlignFails, Goto, repo
<1>12. CASE Restore
    BY <1>4, <1>12 DEF Restore
<1> QED BY <1>7, <1>8, <1>9, <1>10, <1>11, <1>12

LEMMA DropPinsControls ==
  ASSUME IInv, Control,
         \/ DropPins("complete", "clear") \/ DropPins("finish", "clear")
         \/ DropPins("dropAborted", "clearAborted") \/ DropPins("completeAborted", "clearCompleted")
  PROVE  Control'
<1>1. /\ UNCHANGED <<run, disk>> /\ pc' \in {"clear", "clearAborted", "clearCompleted"}
      /\ pc \in {"complete", "finish", "dropAborted", "completeAborted"}
    BY DEF DropPins, At, Goto
<1>2. NotedAt(run, pc')
    BY <1>1 DEF NotedAt, PushSteps, WriteSteps
<1> QED BY <1>1, <1>2, ControlGoes

LEMMA WritesControl ==
  ASSUME IInv, Control, Apply \/ WriteRefs \/ WriteFails \/ SaveAligned
  PROVE  Control'
<1>1. pc \in {"apply", "write", "rewrite", "aligned"} /\ run \in Runs /\ Flags(run) /\ NotedAt(run, pc) /\ Good(run) /\ Played(run)
  <2>1. pc \in {"apply", "write", "rewrite", "aligned"}
      BY DEF Apply, WriteRefs, WriteFails, SaveAligned, At
  <2> QED BY <2>1, AtWork, InHandIsSaved DEF Stage
<1>2. run.kind = "noPush" /\ (pc \in {"write", "rewrite", "aligned"} => run.applied) /\ (pc = "write" => ~run.aligned)
    BY <1>1 DEF NotedAt, WriteSteps
<1>3. CASE Exit
    BY <1>3, ExitControls
<1>4. CASE run.applied /\ GotoOnly("rewrite")
  <2>1. NotedAt(run, "rewrite")
      BY <1>2, <1>4 DEF NotedAt, PushSteps, WriteSteps
  <2> QED BY <1>1, <1>4, <2>1, GotoControls
<1>5. CASE ~run.applied /\ SaveTo([run EXCEPT !.applied = TRUE], "write")
  <2> DEFINE q == [run EXCEPT !.applied = TRUE]
  <2>1. /\ q \in Runs /\ SamePlan(q, run) /\ SameMoves(q, run) /\ q.receipted = run.receipted
        /\ q.applied /\ q.publishing = run.publishing /\ q.pushed = run.pushed /\ q.aligned = run.aligned
      BY <1>1, NotedApplied, AppliedNote
  <2>2. SaveTo(q, "write")
      BY <1>5
  <2> HIDE DEF q
  <2>3. Flags(q)
      BY <1>1, <1>2, <2>1 DEF Flags, SamePlan, SameMoves, Played, Live
  <2>4. NotedAt(q, "write")
      BY <1>1, <1>2, <1>5, <2>1 DEF NotedAt, Flags, PushSteps, WriteSteps, SamePlan
  <2> QED BY <2>1, <2>2, <2>3, <2>4, SaveToControls
<1>6. CASE Apply
    BY <1>3, <1>4, <1>5, <1>6 DEF Apply
<1>7. CASE WriteRefs
  <2>1. UNCHANGED <<run, disk>> /\ pc' = (IF run.aligned THEN "finish" ELSE "align") /\ pc \in {"write", "rewrite"}
      BY <1>7 DEF WriteRefs, Goto
  <2>2. NotedAt(run, pc')
      BY <1>2, <2>1 DEF NotedAt, PushSteps, WriteSteps
  <2> QED BY <2>1, <2>2, ControlGoes
<1>8. CASE WriteFails /\ ~Exit
  <2>1. disk' = [run EXCEPT !.applied = FALSE] /\ Idle /\ pc = "write"
      BY <1>8 DEF WriteFails, At
  <2>2. /\ SamePlan(disk', run) /\ SameMoves(disk', run) /\ disk'.receipted = run.receipted
        /\ ~disk'.applied /\ disk'.publishing = run.publishing /\ disk'.pushed = run.pushed /\ disk'.aligned = run.aligned
      BY <1>1, <2>1, NotedNotApplied, AppliedNote
  <2>3. Flags(disk')
      BY <1>1, <1>2, <2>1, <2>2 DEF Flags, SamePlan, SameMoves, Played, Live
  <2> QED BY <2>1, <2>3, ControlEnds
<1>9. CASE SaveAligned
  <2> DEFINE q == [run EXCEPT !.aligned = TRUE]
  <2>1. /\ q \in Runs /\ SamePlan(q, run) /\ SameMoves(q, run) /\ q.receipted = run.receipted
        /\ q.aligned /\ q.publishing = run.publishing /\ q.pushed = run.pushed /\ q.applied = run.applied
      BY <1>1, NotedAligned, AlignedNote
  <2>2. SaveTo(q, "finish") /\ pc = "aligned"
      BY <1>9 DEF SaveAligned, At
  <2> HIDE DEF q
  <2>3. Flags(q)
      BY <1>1, <1>2, <2>1, <2>2 DEF Flags, SamePlan, SameMoves, Played, Live
  <2>4. NotedAt(q, "finish")
      BY <1>2, <2>1, <2>2 DEF NotedAt, PushSteps, WriteSteps, SamePlan
  <2> QED BY <2>1, <2>2, <2>3, <2>4, SaveToControls
<1> QED BY <1>3, <1>6, <1>7, <1>8, <1>9

LEMMA EndsControl ==
  ASSUME IInv, Control,
         \/ Settle \/ Die
         \/ Clear("clear", "done") \/ Clear("clearAborted", "aborted") \/ Clear("clearCompleted", "completed")
  PROVE  Control'
<1>1. CASE Settle
  <2>1. pc = "settle" /\ run \in Runs
      BY <1>1, AtWork DEF Settle, At
  <2>2. CASE run.receipted /\ GotoOnly("completeAborted")
    <3>1. NotedAt(run, "completeAborted")
        BY <2>2 DEF NotedAt, PushSteps, WriteSteps
    <3> QED BY <2>1, <2>2, <3>1, GotoControls
  <2>3. CASE Exit
      BY <2>3, ExitControls
  <2>4. CASE KeepResolved
    <3>1. UNCHANGED <<run, disk>> /\ pc' = "dropAborted"
        BY <2>4 DEF KeepResolved, Goto
    <3>2. NotedAt(run, pc')
        BY <3>1 DEF NotedAt, PushSteps, WriteSteps
    <3> QED BY <2>1, <3>1, <3>2, ControlGoes
  <2> QED BY <1>1, <2>2, <2>3, <2>4 DEF Settle
<1>2. CASE Die
    BY <1>2, ControlEnds DEF Die, repo
<1>3. CASE \/ Clear("clear", "done") \/ Clear("clearAborted", "aborted") \/ Clear("clearCompleted", "completed")
    BY <1>3, ControlEnds DEF Clear
<1> QED BY <1>1, <1>2, <1>3

LEMMA ControlKeeps ==
  ASSUME IInv, Control, [Next]_vars
  PROVE  Control'
<1>1. CASE Continue \/ Abort
    BY <1>1, CommandControls
<1>2. CASE Replay \/ OpenConflict \/ SaveReplays \/ PinResolved \/ SaveResolved \/ CloseWorkspace
    BY <1>2, ReplayControls, OpenConflictControls, SaveReplaysControls, ConflictControls
<1>3. CASE \/ Sources \/ Landed \/ PinAll
           \/ Recover("recover", "pin") \/ Recover("recoverPush", "publish") \/ Recover("recoverAbort", "settle")
    BY <1>3, SourcesControls, PinAllControls, RecoverControls
<1>4. CASE Publish \/ Push("push", GotoOnly("stale")) \/ Release \/ Released \/ Push("repush", Exit) \/ Pushed
    BY <1>4, PublishControls, PushControls, ReleaseControls, ReleasedControls, PushedControls
<1>5. CASE RecordReceipts \/ Receipted \/ Choose
    BY <1>5, ReceiptsControl, ChooseControls
<1>6. CASE Holders \/ MoveRefs \/ Align \/ Aligned \/ AlignFails \/ Restore
    BY <1>6, MovesControl
<1>7. CASE \/ DropPins("complete", "clear") \/ DropPins("finish", "clear")
           \/ DropPins("dropAborted", "clearAborted") \/ DropPins("completeAborted", "clearCompleted")
    BY <1>7, DropPinsControls
<1>8. CASE Apply \/ WriteRefs \/ WriteFails \/ SaveAligned
    BY <1>8, WritesControl
<1>9. CASE \/ Settle \/ Die
           \/ Clear("clear", "done") \/ Clear("clearAborted", "aborted") \/ Clear("clearCompleted", "completed")
    BY <1>9, EndsControl
<1>10. CASE UNCHANGED <<pc, run, disk>>
    BY <1>10 DEF Control, Synced, Flags, NotedAt, Played, Live, Beside, SameStart, SameMoves
<1>11. CASE \/ Resolve \/ Land \/ UNCHANGED vars
            \/ \E b \in Branches : Commit(b) \/ Edit(b) \/ Discard(b) \/ Switch(b) \/ OtherPush(b)
  <2>1. UNCHANGED <<pc, run, disk>>
      BY <1>11 DEF Resolve, Land, Commit, Edit, Discard, Switch, OtherPush, vars, repo, proc
  <2> QED BY <1>10, <2>1
<1> QED BY <1>1, <1>2, <1>3, <1>4, <1>5, <1>6, <1>7, <1>8, <1>9, <1>11 DEF Next, Drive

-----------------------------------------------------------------------------
\* By whose hand the heads are.

LEMMA OutsideIsNat ==
  ASSUME IInv
  PROVE  outside \in Nat /\ \A b \in Branches : local[b] \in Heads /\ local[b].commit.work <= outside
BY DEF IInv, Remote, Repo, OwnLocal

LEMMA LaterByHand ==
  ASSUME NEW r \in Runs, NEW n \in Nat, NEW m \in Nat, n <= m, ByHand(r, n)
  PROVE  ByHand(r, m)
<1>1. ASSUME NEW b \in Branches PROVE r.source[b].commit.by = "source" /\ r.source[b].commit.work <= m
  <2>1. r.source[b] \in Heads
      BY RunFields
  <2>2. r.source[b].commit.work \in Nat
      BY <2>1, HeadFields
  <2>3. r.source[b].commit.by = "source" /\ r.source[b].commit.work <= n
      BY DEF ByHand
  <2> QED BY <2>2, <2>3
<1> QED BY <1>1 DEF ByHand

LEMMA SameByHand ==
  ASSUME NEW q, NEW r, NEW n, SamePlan(q, r), ByHand(r, n)
  PROVE  ByHand(q, n)
BY DEF SamePlan, ByHand, Live

\* A step that writes down nothing new.
LEMMA HandsStay ==
  ASSUME IInv, IInv', Hands, outside' >= outside, disk' \in {None, disk}, run' \in {None, run, disk},
         \A b \in Branches : local'[b].commit.by = local[b].commit.by, pc' = "write" => pc = "write"
  PROVE  Hands'
<1>1. outside \in Nat /\ outside' \in Nat
    BY OutsideIsNat DEF IInv, Remote
<1>2. disk' # None => ByHand(disk', outside')
    BY <1>1, LaterByHand DEF Hands, IInv, Saved, Good
<1>3. run' # None => ByHand(run', outside')
    BY <1>1, LaterByHand DEF Hands, IInv, Saved, InHand, Good
<1> QED BY <1>2, <1>3 DEF Hands

\* A step that notes what was done.
LEMMA HandsNote ==
  ASSUME IInv, Control, Hands, pc # "idle", UNCHANGED <<local, outside>>,
         NEW q, SamePlan(q, run), q.sourcesMoving \/ q.sourcesMoving = run.sourcesMoving,
         q.applied \/ q.applied = run.applied, disk' = q, run' \in {None, q},
         pc' = "write" => ~run.sourcesMoving /\ ~run.applied
  PROVE  Hands'
<1>1. run # None /\ disk # None /\ Beside(run, disk)
    BY AtWork, InHandIsSaved
<1>2. ByHand(q, outside)
    BY <1>1, SameByHand DEF Hands
<1>3. ~run.sourcesMoving /\ ~run.applied => \A b \in Branches : local[b].commit.by = "source"
    BY <1>1 DEF Hands, Beside, SameMoves
<1> QED BY <1>2, <1>3 DEF Hands

LEMMA HandsGoto ==
  ASSUME IInv, IInv', Hands, NEW step, step # "write", GotoOnly(step)
  PROVE  Hands'
<1>1. UNCHANGED <<local, outside, disk, run>> /\ pc' # "write"
    BY DEF GotoOnly, Goto, repo, world
<1> QED BY <1>1, OutsideIsNat, HandsStay

LEMMA HandsEnd ==
  ASSUME IInv, IInv', Hands, Idle, UNCHANGED <<local, outside>>, disk' \in {None, disk}
  PROVE  Hands'
<1>1. run' = None /\ pc' # "write"
    BY DEF Idle
<1> QED BY <1>1, OutsideIsNat, HandsStay

LEMMA HandsExit ==
  ASSUME IInv, IInv', Hands, Exit
  PROVE  Hands'
BY HandsEnd DEF Exit, repo, world

LEMMA CommandHands ==
  ASSUME IInv, IInv', Hands, Continue \/ Abort
  PROVE  Hands'
<1>1. UNCHANGED <<local, outside, disk>> /\ run' = disk /\ pc' # "write"
    BY DEF Continue, Abort, Goto, repo, world
<1> QED BY <1>1, OutsideIsNat, HandsStay

LEMMA ReplayHands ==
  ASSUME IInv, IInv', Control, Hands, Replay
  PROVE  Hands'
<1> DEFINE b == NextBranch
           h == run'.newHead[b]
<1>1. pc = "drive" /\ pc' = "drive" /\ UNCHANGED <<local, outside, disk>> /\ Unplayed /\ run \in Runs /\ run # None /\ Good(run)
    BY AtWork DEF Replay, At, world
<1>2. b \in Branches /\ b \in Live(run) /\ NewBase(run, b) \in Base /\ run.head[b] \in Own /\ run.newHead[b] = None
    BY <1>1, NextIsLowest, AtWork DEF Good, Entry
<1>3. PICK g \in OrNone(Heads) : /\ run' = [run EXCEPT !.newHead[b] = g]
                                 /\ g.commit.by = run.head[b].commit.by
  <2>1. [run.head[b] EXCEPT !.on = NewBase(run, b), !.commit.copy = 0] \in Heads
      BY <1>2, ReplayedHead DEF Own
  <2>2. [run.head[b] EXCEPT !.on = NewBase(run, b), !.commit.copy = 0].commit.by = run.head[b].commit.by
      BY <1>2 DEF Own, Heads, Patch
  <2>3. run.head[b] \in Heads
      BY <1>2 DEF Own
  <2>4. Heads \subseteq OrNone(Heads)
      BY DEF OrNone
  <2> QED BY <2>1, <2>2, <2>3, <2>4 DEF Replay
<1>4. SameStart(run', run) /\ run'.resolved = run.resolved /\ run'.newHead = [run.newHead EXCEPT ![b] = g]
    BY <1>1, <1>2, <1>3, ReplayedRun
<1>5. ByHand(run, outside) /\ run.newHead \in [Branches -> OrNone(Heads)]
    BY <1>1, RunFields DEF Hands
<1>6. ASSUME NEW c \in run'.resolved \cap Live(run')
      PROVE  (IF run'.newHead[c] = None THEN run'.head[c] ELSE run'.newHead[c]).commit.by = "hand"
  <2>1. c \in run.resolved \cap Live(run) /\ c \in Branches
      BY <1>4, RunFields, <1>1 DEF SameStart, Live
  <2>2. (IF run.newHead[c] = None THEN run.head[c] ELSE run.newHead[c]).commit.by = "hand"
      BY <1>5, <2>1 DEF ByHand
  <2>3. run'.head = run.head
      BY <1>4 DEF SameStart
  <2>4. CASE c = b
      BY <1>2, <1>3, <1>4, <1>5, <2>1, <2>2, <2>3, <2>4
  <2>5. CASE c # b
      BY <1>4, <1>5, <2>1, <2>2, <2>3, <2>5
  <2> QED BY <2>4, <2>5
<1>7. ByHand(run', outside)
  <2>1. run'.source = run.source
      BY <1>4 DEF SameStart
  <2> HIDE DEF b
  <2> QED BY <1>5, <1>6, <2>1 DEF ByHand
<1> QED BY <1>1, <1>7 DEF Hands

LEMMA OpenConflictHands ==
  ASSUME IInv, IInv', Control, Hands, OpenConflict
  PROVE  Hands'
<1>1. pc = "drive" /\ Unplayed /\ run \in Runs /\ Idle /\ UNCHANGED <<local, outside>>
    BY AtWork DEF OpenConflict, At, world
<1>2. PICK b \in OrNone(Branches) : disk' = [run EXCEPT !.conflict = b]
    BY <1>1, NextIsLowest DEF OpenConflict, OrNone
<1>3. SamePlan(disk', run) /\ disk'.sourcesMoving = run.sourcesMoving /\ disk'.applied = run.applied
    BY <1>1, <1>2, ConflictRun, NotesOf DEF Notes
<1> QED BY <1>1, <1>3, HandsNote DEF Idle

LEMMA SaveReplaysHands ==
  ASSUME IInv, Control, Hands, SaveReplays
  PROVE  Hands'
<1>1. pc = "drive" /\ disk' = run /\ run' = run /\ UNCHANGED <<local, outside>> /\ pc' # "write"
    BY DEF SaveReplays, SaveTo, Save, Goto, At, world
<1>2. SamePlan(run, run)
    BY DEF SamePlan
<1> QED BY <1>1, <1>2, HandsNote

LEMMA ConflictHands ==
  ASSUME IInv, IInv', Control, Hands, PinResolved \/ SaveResolved \/ CloseWorkspace
  PROVE  Hands'
<1>1. /\ run \in Runs /\ run # None /\ Good(run) /\ Stage(run, pc) /\ run = disk /\ pc \in {"resume", "resolved"}
      /\ UNCHANGED <<local, outside>>
  <2>1. pc \in {"resume", "resolved"}
      BY DEF PinResolved, SaveResolved, CloseWorkspace, At
  <2>2. UNCHANGED <<local, outside>>
      BY DEF PinResolved, SaveResolved, CloseWorkspace, world
  <2> QED BY <2>1, <2>2, AtWork, InHandIsSaved
<1>2. CASE PinResolved
  <2>1. UNCHANGED <<disk, run>> /\ pc' = "resolved"
      BY <1>2 DEF PinResolved, Goto
  <2> QED BY <1>1, <2>1, OutsideIsNat, HandsStay
<1>3. CASE SaveResolved
  <2> DEFINE b == run.conflict
             h == HandMade(b)
  <2>1. b \in Live(run) /\ b \in Branches /\ \A c \in Below(b) \cap Live(run) : run.newHead[c] # None
      BY <1>1, AtWork DEF Stage, Good, Shape, OrNone
  <2>2. run.head[b] \in Own /\ NewBase(run, b) \in Base
      BY <1>1, <2>1, NewBaseIsBase DEF Good, Entry
  <2>3. h \in Heads /\ h.commit.by = "hand"
    <3>1. h \in Own
        BY <2>2, ReplayedHead DEF HandMade
    <3>2. h.commit.by = "hand"
        BY <2>2 DEF HandMade, Own, Heads, Patch
    <3> QED BY <3>1, <3>2 DEF Own
  <2>4. run' = [run EXCEPT !.newHead[b] = h, !.resolved = @ \cup {b}] /\ disk' = run' /\ pc' = "resume"
      BY <1>3 DEF SaveResolved, Save, Goto
  <2> HIDE DEF b, h
  <2>5. h \in OrNone(Heads) /\ h # None
      BY <2>3, NoneIsNone DEF OrNone
  <2>6. /\ SameStart(run', run) /\ SameMoves(run', run) /\ run'.resolved = run.resolved \cup {b}
        /\ run'.newHead = [run.newHead EXCEPT ![b] = h]
    <3>1. run \in Runs /\ b \in Branches
        BY <1>1, <2>1
    <3> QED BY <2>4, <2>5, <3>1, ResolvedRun
  <2>7. Notes(run', run)
      BY <1>1, <2>1, <2>4, <2>5, NotesOf
  <2>8. ByHand(run, outside) /\ run.newHead \in [Branches -> OrNone(Heads)]
      BY <1>1, RunFields DEF Hands
  <2>9. ASSUME NEW c \in run'.resolved \cap Live(run')
        PROVE  (IF run'.newHead[c] = None THEN run'.head[c] ELSE run'.newHead[c]).commit.by = "hand"
    <3>1. c \in Live(run) /\ c \in Branches /\ run'.head = run.head
        BY <1>1, <2>6, RunFields DEF SameStart, Live
    <3>2. CASE c = b
        BY <2>3, <2>5, <2>6, <2>8, <3>1, <3>2
    <3>3. CASE c # b
      <4>1. c \in run.resolved \cap Live(run) /\ run'.newHead[c] = run.newHead[c]
          BY <2>6, <2>8, <3>1, <3>3
      <4> QED BY <2>8, <3>1, <4>1 DEF ByHand
    <3> QED BY <3>2, <3>3
  <2>10. ByHand(run', outside)
      BY <2>6, <2>8, <2>9 DEF ByHand, SameStart
  <2>11. ~run'.sourcesMoving /\ ~run'.applied => \A c \in Branches : local[c].commit.by = "source"
      BY <1>1, <2>6, <2>7 DEF Hands, SameMoves, Notes
  <2> QED BY <1>1, <2>4, <2>10, <2>11 DEF Hands
<1>4. CASE CloseWorkspace
  <2>1. run' = [run EXCEPT !.conflict = None] /\ disk' = run' /\ pc' = "drive"
      BY <1>4 DEF CloseWorkspace, Save, Goto
  <2>2. None \in OrNone(Branches)
      BY DEF OrNone
  <2>3. SamePlan(run', run) /\ run'.sourcesMoving = run.sourcesMoving
    <3>1. run \in Runs
        BY <1>1
    <3> QED BY <2>1, <2>2, <3>1, ConflictRun
  <2>4. run'.applied = run.applied
    <3>1. run \in Runs
        BY <1>1
    <3> QED BY <2>1, <2>2, <3>1, NotesOf DEF Notes
  <2> QED BY <1>1, <2>1, <2>3, <2>4, HandsNote
<1> QED BY <1>2, <1>3, <1>4

\* A new plan is made while the local branches are as their users made them.
LEMMA PlanByHand ==
  ASSUME IInv, run \in Runs, Played(run), ByHand(run, outside), NEW fresh \in SUBSET Branches,
         \A b \in Branches : local[b].commit.by = "source"
  PROVE  ByHand(NextPlan(fresh), outside)
<1> DEFINE q == NextPlan(fresh)
<1>1. /\ q.source = NewSource(fresh) /\ q.head = Started(fresh) /\ q.newHead = FirstHeads(fresh)
      /\ q.landed = run.landed \cup merged /\ q.resolved = run.resolved \ (fresh \cup run.landed)
    BY PlanFields
<1> HIDE DEF q
<1>2. ASSUME NEW b \in Branches PROVE q.source[b].commit.by = "source" /\ q.source[b].commit.work <= outside
  <2>1. q.source[b] = IF b \in fresh THEN local[b] ELSE run.source[b]
      BY <1>1 DEF NewSource
  <2> QED BY <2>1, OutsideIsNat DEF ByHand
<1>3. ASSUME NEW b \in q.resolved \cap Live(q)
      PROVE  (IF q.newHead[b] = None THEN q.head[b] ELSE q.newHead[b]).commit.by = "hand"
  <2>1. b \in Branches /\ b \in run.resolved \cap Live(run) /\ b \notin fresh /\ b \notin merged
      BY <1>1 DEF Live
  <2>2. q.newHead[b] = None /\ q.head[b] = run.newHead[b] /\ run.newHead[b] # None
      BY <1>1, <2>1 DEF FirstHeads, Started, Played
  <2> QED BY <2>1, <2>2 DEF ByHand
<1>4. ByHand(q, outside)
    BY <1>2, <1>3 DEF ByHand
<1> QED BY <1>4 DEF q

LEMMA ReplanHands ==
  ASSUME IInv, IInv', Control, Hands, pc \notin {"idle", "drive", "released"}, Played(run),
         ~run.sourcesMoving, ~run.applied, NEW fresh \in SUBSET Branches, Replan(fresh)
  PROVE  Hands'
<1>1. CASE Exit
    BY <1>1, HandsExit
<1>2. CASE ~Exit
  <2>1. run' = NextPlan(fresh) /\ disk' = run' /\ UNCHANGED <<local, outside>> /\ pc' # "write"
      BY <1>2, Replans DEF world
  <2>2. run \in Runs /\ run # None /\ run = disk
      BY AtWork, InHandIsSaved
  <2>3. ByHand(run, outside) /\ \A b \in Branches : local[b].commit.by = "source"
      BY <2>2 DEF Hands
  <2>4. ByHand(run', outside)
      BY <2>1, <2>2, <2>3, PlanByHand
  <2> QED BY <2>1, <2>3, <2>4 DEF Hands
<1> QED BY <1>1, <1>2

LEMMA SourcesHands ==
  ASSUME IInv, IInv', Control, Hands, Sources \/ Landed
  PROVE  Hands'
<1>1. /\ pc \in {"sources", "landed"} /\ run \in Runs /\ Played(run) /\ Flags(run) /\ NotedAt(run, pc) /\ Good(run)
      /\ MovedSources(run) \in SUBSET Branches
  <2>1. pc \in {"sources", "landed"}
      BY DEF Sources, Landed, At
  <2> QED BY <2>1, AtWork, InHandIsSaved DEF Stage, MovedSources
<1>2. run.kind = "push" /\ ~run.applied
    BY <1>1 DEF NotedAt, PushSteps, Flags
<1>3. CASE \E fresh \in SUBSET Branches : ~run.publishing /\ Replan(fresh)
  <2>1. ~run.sourcesMoving
      BY <1>1, <1>3 DEF Flags, Good, Shape
  <2> QED BY <1>1, <1>2, <1>3, <2>1, ReplanHands
<1>4. CASE GotoOnly("choose") \/ GotoOnly("recover") \/ GotoOnly("recoverPush")
    BY <1>4, HandsGoto
<1> QED BY <1>1, <1>3, <1>4 DEF Sources, Landed

LEMMA RecoverHands ==
  ASSUME IInv, IInv', Control, Hands,
         Recover("recover", "pin") \/ Recover("recoverPush", "publish") \/ Recover("recoverAbort", "settle")
  PROVE  Hands'
<1>1. PICK from \in {"recover", "recoverPush", "recoverAbort"}, to \in {"pin", "publish", "settle"} :
        Recover(from, to)
    OBVIOUS
<1>2. pc # "idle" /\ run \in Runs
    BY <1>1, AtWork DEF Recover, At
<1> DEFINE q == [run EXCEPT !.pushed = TRUE]
<1>3. CASE SaveTo(q, to)
  <2>1. SamePlan(q, run) /\ q.sourcesMoving = run.sourcesMoving /\ q.applied = run.applied
      BY <1>2, NotedPushed, PushedNote DEF SameMoves
  <2>2. UNCHANGED <<local, outside>> /\ disk' = q /\ run' = q /\ pc' # "write"
      BY <1>3 DEF SaveTo, Save, Goto, world
  <2> HIDE DEF q
  <2> QED BY <1>2, <2>1, <2>2, HandsNote
<1>4. CASE GotoOnly(to)
    BY <1>4, HandsGoto
<1> QED BY <1>1, <1>3, <1>4 DEF Recover

LEMMA PinAllHands ==
  ASSUME IInv, IInv', Hands, PinAll
  PROVE  Hands'
<1>1. CASE Exit
    BY <1>1, HandsExit
<1>2. CASE ~Exit
  <2>1. UNCHANGED <<local, outside, disk, run>> /\ pc' # "write"
      BY <1>2 DEF PinAll, Goto, world
  <2> QED BY <2>1, OutsideIsNat, HandsStay
<1> QED BY <1>1, <1>2

LEMMA PublishHands ==
  ASSUME IInv, IInv', Control, Hands, Publish
  PROVE  Hands'
<1>1. pc = "publish" /\ run \in Runs
    BY AtWork DEF Publish, At
<1> DEFINE q == [run EXCEPT !.publishing = TRUE, !.targets = run.newHead]
<1>2. CASE Exit \/ GotoOnly("receipts")
    BY <1>2, HandsExit, HandsGoto
<1>3. CASE disk' = q /\ run' = q /\ pc' = "push" /\ UNCHANGED <<local, outside>>
  <2>1. SamePlan(q, run) /\ q.sourcesMoving = run.sourcesMoving /\ q.applied = run.applied
      BY <1>1, NotedPublishing, PublishingNote DEF SameMoves
  <2> HIDE DEF q
  <2> QED BY <1>1, <1>3, <2>1, HandsNote
<1> QED BY <1>2, <1>3 DEF Publish, Save, Goto, world

LEMMA PushHands ==
  ASSUME IInv, IInv', Hands, Push("push", GotoOnly("stale")) \/ Push("repush", Exit)
  PROVE  Hands'
<1>1. CASE Exit \/ GotoOnly("stale")
    BY <1>1, HandsExit, HandsGoto
<1>2. CASE UNCHANGED <<local, outside, disk>> /\ (Idle \/ (run' = run /\ pc' = "pushed"))
    BY <1>2, HandsEnd, HandsStay, OutsideIsNat
<1> QED BY <1>1, <1>2 DEF Push, Goto, repo

\* What is adopted carries the patches of what was replayed.
LEMMA ReleaseHands ==
  ASSUME IInv, IInv', Control, Hands, Release
  PROVE  Hands'
<1>1. /\ pc = "stale" /\ run \in Runs /\ run = disk /\ run # None /\ ByHand(run, outside) /\ Live(run) \subseteq Branches
  <2>1. pc = "stale"
      BY DEF Release, At
  <2> QED BY <2>1, AtWork, InHandIsSaved DEF Hands
<1>2. CASE GotoOnly("pushed")
    BY <1>2, HandsGoto
<1>3. CASE Idle /\ UNCHANGED <<local, outside, disk>>
    BY <1>3, HandsEnd
<1>4. CASE /\ run'  = [run EXCEPT !.newHead = [b \in Branches |-> IF b \in Adopted THEN remote[b] ELSE @[b]]]
           /\ pc' = "released" /\ UNCHANGED <<local, outside, disk>>
  <2> DEFINE f == [b \in Branches |-> IF b \in Adopted THEN remote[b] ELSE run.newHead[b]]
  <2>1. f \in [Branches -> OrNone(Heads)] /\ run' = [run EXCEPT !.newHead = f]
    <3>1. run.newHead \in [Branches -> OrNone(Heads)] /\ remote \in [Branches -> OrNone(Heads)]
        BY <1>1, RunFields DEF IInv, Remote
    <3> QED BY <1>1, <1>4, <3>1
  <2>2. \A b \in Branches : f[b] = run.newHead[b] \/ SamePatches(f[b], run.newHead[b])
      BY DEF Adopted, Equivalent
  <2> HIDE DEF f
  <2>3. SameStart(run', run) /\ run'.resolved = run.resolved /\ run'.newHead = f
      BY <1>1, <2>1, AdoptedRun
  <2>4. ASSUME NEW b \in run'.resolved \cap Live(run')
        PROVE  (IF run'.newHead[b] = None THEN run'.head[b] ELSE run'.newHead[b]).commit.by = "hand"
    <3>1. b \in run.resolved \cap Live(run) /\ b \in Branches /\ run'.head = run.head
        BY <1>1, <2>3 DEF SameStart, Live
    <3>2. (IF run.newHead[b] = None THEN run.head[b] ELSE run.newHead[b]).commit.by = "hand"
        BY <1>1, <3>1 DEF ByHand
    <3> QED BY <2>2, <2>3, <3>1, <3>2 DEF SamePatches
  <2>5. ByHand(run', outside)
      BY <1>1, <2>3, <2>4 DEF ByHand, SameStart
  <2> QED BY <1>1, <1>4, <2>5 DEF Hands
<1> QED BY <1>2, <1>3, <1>4 DEF Release, Goto, world

LEMMA NotesHand ==
  ASSUME IInv, IInv', Control, Hands, Released \/ Pushed \/ RecordReceipts \/ Receipted \/ Choose
  PROVE  Hands'
<1>1. pc # "idle" /\ run \in Runs /\ Live(run) \subseteq Branches
  <2>1. pc # "idle"
      BY DEF Released, Pushed, RecordReceipts, Receipted, Choose, At
  <2> QED BY <2>1, AtWork
<1>2. ASSUME NEW q, NEW step \in {"pushed", "repush", "receipts", "choose", "holders"}, SaveTo(q, step),
             SamePlan(q, run), q.sourcesMoving \/ q.sourcesMoving = run.sourcesMoving, q.applied = run.applied
      PROVE  Hands'
  <2>1. UNCHANGED <<local, outside>> /\ disk' = q /\ run' = q /\ pc' # "write"
      BY <1>2 DEF SaveTo, Save, Goto, world
  <2> QED BY <1>1, <1>2, <2>1, HandsNote
<1>3. CASE Released
  <2> DEFINE q == [run EXCEPT !.targets = run.newHead]
  <2>1. SamePlan(q, run) /\ SameMoves(q, run) /\ Notes(q, run)
      BY <1>1, NotedTargets, NotesOf
  <2>2. PICK step \in {"pushed", "repush"} : SaveTo(q, step)
      BY <1>3 DEF Released
  <2> HIDE DEF q
  <2> QED BY <1>2, <2>1, <2>2 DEF SameMoves, Notes
<1>4. CASE Pushed
  <2> DEFINE q == [run EXCEPT !.pushed = TRUE]
  <2>1. SamePlan(q, run) /\ SameMoves(q, run) /\ q.applied = run.applied
      BY <1>1, NotedPushed, PushedNote
  <2>2. SaveTo(q, "receipts")
      BY <1>4 DEF Pushed
  <2> HIDE DEF q
  <2> QED BY <1>2, <2>1, <2>2 DEF SameMoves
<1>5. CASE RecordReceipts
  <2>1. UNCHANGED <<local, outside, disk, run>> /\ pc' # "write"
      BY <1>5 DEF RecordReceipts, Goto, world
  <2> QED BY <2>1, OutsideIsNat, HandsStay
<1>6. CASE Receipted
  <2> DEFINE q == [run EXCEPT !.receipted = TRUE]
  <2>1. SamePlan(q, run) /\ SameMoves(q, run) /\ Notes(q, run)
      BY <1>1, NotedReceipted, NotesOf
  <2>2. SaveTo(q, "choose")
      BY <1>6 DEF Receipted
  <2> HIDE DEF q
  <2> QED BY <1>2, <2>1, <2>2 DEF SameMoves, Notes
<1>7. CASE Choose
  <2>1. CASE GotoOnly("holders")
      BY <2>1, HandsGoto
  <2>2. CASE SaveTo([run EXCEPT !.sourcesMoving = TRUE, !.moved = Movers(run) \ Stays], "holders")
    <3> DEFINE bs == Movers(run) \ Stays
               q  == [run EXCEPT !.sourcesMoving = TRUE, !.moved = bs]
    <3>1. bs \in SUBSET Branches
        BY <1>1 DEF Movers
    <3>2. SaveTo(q, "holders")
        BY <2>2
    <3> HIDE DEF bs
    <3>3. SamePlan(q, run) /\ Notes(q, run) /\ q.sourcesMoving
        BY <1>1, <3>1, ChosenRun, NotesOf, ChosenNote
    <3> HIDE DEF q
    <3> QED BY <1>2, <3>2, <3>3 DEF Notes
  <2> QED BY <1>7, <2>1, <2>2 DEF Choose
<1> QED BY <1>3, <1>4, <1>5, <1>6, <1>7

LEMMA MovesHand ==
  ASSUME IInv, IInv', Control, Hands, Holders \/ MoveRefs \/ Align \/ Aligned \/ AlignFails \/ Restore
  PROVE  Hands'
<1>1. CASE UNCHANGED <<local, outside, disk>> /\ run' \in {None, run} /\ pc' # "write"
    BY <1>1, OutsideIsNat, HandsStay
<1>2. CASE Holders \/ Align \/ Aligned \/ AlignFails
  <2>1. UNCHANGED <<local, outside, disk>> /\ run' \in {None, run} /\ pc' # "write"
      BY <1>2 DEF Holders, Align, Aligned, AlignFails, Exit, Idle, GotoOnly, Goto, At, repo, world
  <2> QED BY <1>1, <2>1
<1>3. CASE MoveRefs \/ Restore
  <2>1. /\ UNCHANGED <<disk, outside>> /\ run' \in {None, run} /\ pc' # "write" /\ pc \in {"refs", "restore"}
      BY <1>3 DEF MoveRefs, Restore, Exit, Idle, Goto, At, repo, world
  <2>2. run = disk /\ run.sourcesMoving
      BY <2>1, InHandIsSaved DEF NotedAt
  <2> QED BY <2>1, <2>2 DEF Hands
<1> QED BY <1>2, <1>3

LEMMA WritesHand ==
  ASSUME IInv, IInv', Control, Hands, Apply \/ WriteRefs \/ WriteFails \/ SaveAligned
  PROVE  Hands'
<1>1. /\ pc \in {"apply", "write", "rewrite", "aligned"} /\ run \in Runs /\ run # None /\ run = disk
      /\ Flags(run) /\ NotedAt(run, pc) /\ Good(run)
  <2>1. pc \in {"apply", "write", "rewrite", "aligned"}
      BY DEF Apply, WriteRefs, WriteFails, SaveAligned, At
  <2> QED BY <2>1, AtWork, InHandIsSaved
<1>2. ~run.sourcesMoving /\ (pc \in {"write", "rewrite", "aligned"} => run.applied)
    BY <1>1 DEF NotedAt, WriteSteps, Flags, Good, Shape
<1>3. CASE Apply
  <2>1. CASE Exit \/ GotoOnly("rewrite")
      BY <2>1, HandsExit, HandsGoto
  <2>2. CASE ~run.applied /\ SaveTo([run EXCEPT !.applied = TRUE], "write")
    <3> DEFINE q == [run EXCEPT !.applied = TRUE]
    <3>1. SamePlan(q, run) /\ q.sourcesMoving = run.sourcesMoving /\ q.applied
      <4>1. run \in Runs
          BY <1>1
      <4> QED BY <4>1, NotedApplied, AppliedNote DEF SameMoves
    <3>2. UNCHANGED <<local, outside>> /\ disk' = q /\ run' = q
        BY <2>2 DEF SaveTo, Save, world
    <3> HIDE DEF q
    <3> QED BY <1>1, <1>2, <2>2, <3>1, <3>2, HandsNote
  <2> QED BY <1>3, <2>1, <2>2 DEF Apply
<1>4. CASE WriteRefs
  <2>1. UNCHANGED <<run, disk, outside>> /\ pc' # "write" /\ pc \in {"write", "rewrite"}
      BY <1>4 DEF WriteRefs, Goto, world
  <2> QED BY <1>1, <1>2, <2>1 DEF Hands
<1>5. CASE WriteFails
  <2>1. CASE Exit
      BY <2>1, HandsExit
  <2>2. CASE pc = "write" /\ disk' = [run EXCEPT !.applied = FALSE] /\ Idle /\ UNCHANGED <<local, outside>>
    <3>1. SamePlan(disk', run)
      <4>1. run \in Runs
          BY <1>1
      <4> QED BY <2>2, <4>1, NotedNotApplied
    <3>2. ByHand(disk', outside) /\ \A b \in Branches : local[b].commit.by = "source"
        BY <1>1, <2>2, <3>1, SameByHand DEF Hands
    <3> QED BY <2>2, <3>2 DEF Hands, Idle
  <2> QED BY <1>5, <2>1, <2>2 DEF WriteFails, At, world
<1>6. CASE SaveAligned
  <2> DEFINE q == [run EXCEPT !.aligned = TRUE]
  <2>1. SamePlan(q, run) /\ q.sourcesMoving = run.sourcesMoving /\ q.applied = run.applied
    <3>1. run \in Runs
        BY <1>1
    <3> QED BY <3>1, NotedAligned, AlignedNote DEF SameMoves
  <2>2. UNCHANGED <<local, outside>> /\ disk' = q /\ run' = q /\ pc' # "write"
      BY <1>6 DEF SaveAligned, SaveTo, Save, Goto, world
  <2> HIDE DEF q
  <2> QED BY <1>1, <2>1, <2>2, HandsNote
<1> QED BY <1>3, <1>4, <1>5, <1>6

LEMMA EndsHand ==
  ASSUME IInv, IInv', Hands,
         \/ Settle \/ Die
         \/ DropPins("complete", "clear") \/ DropPins("finish", "clear")
         \/ DropPins("dropAborted", "clearAborted") \/ DropPins("completeAborted", "clearCompleted")
         \/ Clear("clear", "done") \/ Clear("clearAborted", "aborted") \/ Clear("clearCompleted", "completed")
  PROVE  Hands'
<1>1. CASE Die \/ Clear("clear", "done") \/ Clear("clearAborted", "aborted") \/ Clear("clearCompleted", "completed")
  <2>1. Idle /\ UNCHANGED <<local, outside>> /\ disk' \in {None, disk}
      BY <1>1 DEF Die, Clear, repo, world
  <2> QED BY <2>1, HandsEnd
<1>2. CASE \/ DropPins("complete", "clear") \/ DropPins("finish", "clear")
           \/ DropPins("dropAborted", "clearAborted") \/ DropPins("completeAborted", "clearCompleted")
  <2>1. UNCHANGED <<local, outside, disk, run>> /\ pc' # "write"
      BY <1>2 DEF DropPins, Goto, world
  <2> QED BY <2>1, OutsideIsNat, HandsStay
<1>3. CASE Settle
  <2>1. CASE Exit \/ GotoOnly("completeAborted")
      BY <2>1, HandsExit, HandsGoto
  <2>2. CASE KeepResolved
    <3>1. UNCHANGED <<local, outside, disk, run>> /\ pc' # "write"
        BY <2>2 DEF KeepResolved, Goto, world
    <3> QED BY <3>1, OutsideIsNat, HandsStay
  <2> QED BY <1>3, <2>1, <2>2 DEF Settle
<1> QED BY <1>1, <1>2, <1>3

LEMMA OutsideHands ==
  ASSUME IInv, IInv', Hands,
         \/ Resolve \/ Land \/ UNCHANGED vars
         \/ \E b \in Branches : Commit(b) \/ Edit(b) \/ Discard(b) \/ Switch(b) \/ OtherPush(b)
  PROVE  Hands'
<1>1. UNCHANGED <<disk, run, pc>> /\ outside' >= outside
  <2>1. outside \in Nat /\ outside' \in {outside, outside + 1} => outside' >= outside
      OBVIOUS
  <2> QED BY <2>1, OutsideIsNat DEF Resolve, Land, Commit, Edit, Discard, Switch, OtherPush, vars, repo, proc, world
<1>2. \A b \in Branches : local'[b].commit.by = local[b].commit.by
  <2>1. CASE UNCHANGED local
      BY <2>1
  <2>2. CASE \E b \in Branches : Commit(b)
    <3>1. PICK b \in Branches : Commit(b)
        BY <2>2
    <3>2. local \in [Branches -> Heads] /\ local' = [local EXCEPT ![b].commit = [@ EXCEPT !.work = outside', !.copy = 0]]
        BY <3>1 DEF Commit, IInv, Repo
    <3>3. local[b] \in Heads /\ local'[b].commit.by = local[b].commit.by
        BY <3>2 DEF Heads, Patch
    <3> QED BY <3>2, <3>3
  <2> QED BY <2>1, <2>2 DEF Resolve, Land, Edit, Discard, Switch, OtherPush, vars, repo
<1> QED BY <1>1, <1>2, HandsStay

LEMMA HandsKeep ==
  ASSUME IInv, IInv', Control, Hands, [Next]_vars
  PROVE  Hands'
<1>1. CASE Continue \/ Abort
    BY <1>1, CommandHands
<1>2. CASE Replay \/ OpenConflict \/ SaveReplays \/ PinResolved \/ SaveResolved \/ CloseWorkspace
    BY <1>2, ReplayHands, OpenConflictHands, SaveReplaysHands, ConflictHands
<1>3. CASE \/ Sources \/ Landed \/ PinAll
           \/ Recover("recover", "pin") \/ Recover("recoverPush", "publish") \/ Recover("recoverAbort", "settle")
    BY <1>3, SourcesHands, PinAllHands, RecoverHands
<1>4. CASE \/ Publish \/ Push("push", GotoOnly("stale")) \/ Release \/ Released \/ Push("repush", Exit) \/ Pushed
           \/ RecordReceipts \/ Receipted \/ Choose
    BY <1>4, PublishHands, PushHands, ReleaseHands, NotesHand
<1>5. CASE Holders \/ MoveRefs \/ Align \/ Aligned \/ AlignFails \/ Restore
    BY <1>5, MovesHand
<1>6. CASE Apply \/ WriteRefs \/ WriteFails \/ SaveAligned
    BY <1>6, WritesHand
<1>7. CASE \/ Settle \/ Die
           \/ DropPins("complete", "clear") \/ DropPins("finish", "clear")
           \/ DropPins("dropAborted", "clearAborted") \/ DropPins("completeAborted", "clearCompleted")
           \/ Clear("clear", "done") \/ Clear("clearAborted", "aborted") \/ Clear("clearCompleted", "completed")
    BY <1>7, EndsHand
<1>8. CASE \/ Resolve \/ Land \/ UNCHANGED vars
           \/ \E b \in Branches : Commit(b) \/ Edit(b) \/ Discard(b) \/ Switch(b) \/ OtherPush(b)
    BY <1>8, OutsideHands
<1> QED BY <1>1, <1>2, <1>3, <1>4, <1>5, <1>6, <1>7, <1>8 DEF Next, Drive

-----------------------------------------------------------------------------
\* The checkouts.

\* The steps at which nothing is said of the moves but what is saved.
Elsewhere(step) == step \notin {"align", "restore", "refs", "write", "aligned", "finish", "complete", "clear"}

Aside == Follow /\ Moves

\* As long as a run has noted no move, every checkout is where its branch is.
LEMMA NothingNoted ==
  ASSUME Control, Follow, disk # None, ~disk.receipted \/ ~disk.sourcesMoving, ~disk.applied, disk.sourcesMoving => disk.receipted
  PROVE  Lagging = {} /\ ~disk.aligned
<1>1. disk.moved = {} /\ ~disk.aligned
    BY DEF Control, Flags
<1>2. Going(disk) = {}
    BY <1>1 DEF Going
<1> QED BY <1>1, <1>2 DEF Follow

LEMMA NothingYet ==
  ASSUME IInv, Control, Follow, disk # None, ~Played(disk) \/ (disk.kind = "push" /\ (~disk.pushed \/ ~disk.sourcesMoving))
  PROVE  Lagging = {} /\ ~disk.aligned
<1>1. disk.sourcesMoving => disk.receipted
    BY DEF IInv, Saved, Good, Shape
<1>2. ~disk.applied /\ (~disk.receipted \/ ~disk.sourcesMoving)
    BY DEF Control, Flags
<1> QED BY <1>1, <1>2, NothingNoted

LEMMA StandStill ==
  ASSUME Follow, Moves, UNCHANGED <<local, tree>>, Elsewhere(pc'), ~trailing' => Lagging = {},
         \/ disk' \in {None, disk}
         \/ Lagging = {} /\ ~disk'.aligned
         \/ /\ disk # None /\ disk'.newHead = disk.newHead /\ disk'.source = disk.source /\ disk'.landed = disk.landed
            /\ disk'.applied = disk.applied /\ disk'.moved = disk.moved /\ disk'.aligned = disk.aligned
  PROVE  Aside'
<1>1. Lagging' = Lagging
    BY DEF Lagging
<1>2. /\ pc' \notin {"align", "restore", "refs", "write", "aligned", "finish", "complete", "clear"}
    BY DEF Elsewhere
<1>3. Follow'
  <2>1. disk' # None => \A b \in Lagging : b \in Going(disk') /\ local[b] = disk'.newHead[b]
      BY DEF Follow, Going, Movers, Live
  <2>2. disk' # None /\ disk'.aligned => Lagging = {}
      BY DEF Follow
  <2> QED BY <1>1, <1>2, <2>1, <2>2 DEF Follow, Going, Movers, Live
<1>4. Moves'
  <2>1. disk' # None /\ disk'.aligned => disk # None /\ disk.aligned /\ Movers(disk') = Movers(disk)
                                         /\ disk'.newHead = disk.newHead /\ disk'.source = disk.source
      BY DEF Movers, Live
  <2>2. disk' # None /\ disk'.aligned => \A b \in Movers(disk)' : Placed(disk, b)'
      BY <2>1 DEF Moves, Placed, Movers, Live
  <2> QED BY <1>2, <2>2 DEF Moves
<1> QED BY <1>3, <1>4 DEF Aside

LEMMA ExitStands ==
  ASSUME Follow, Moves, pc \notin {"align", "restore"}, Exit
  PROVE  Aside'
<1>1. UNCHANGED <<local, tree, disk, trailing>> /\ Elsewhere(pc')
    BY DEF Exit, Idle, Elsewhere, repo, ghost
<1> QED BY <1>1, StandStill DEF Follow

LEMMA GotoStands ==
  ASSUME Follow, Moves, pc \notin {"align", "restore"}, NEW step, Elsewhere(step), GotoOnly(step)
  PROVE  Aside'
<1>1. UNCHANGED <<local, tree, disk, trailing>> /\ pc' = step
    BY DEF GotoOnly, Goto, repo, ghost
<1> QED BY <1>1, StandStill DEF Follow

\* A step that saves what it notes of the push.
LEMMA NoteStands ==
  ASSUME IInv, Control, Follow, Moves, pc \notin {"idle", "align", "restore"}, NEW step, Elsewhere(step), NEW q, SaveTo(q, step),
         SamePlan(q, run), q.aligned = run.aligned,
         \/ run = disk /\ q.moved = run.moved /\ q.applied = run.applied
         \/ disk.kind = "push" /\ (~disk.pushed \/ ~disk.sourcesMoving)
  PROVE  Aside'
<1>1. UNCHANGED <<local, tree, trailing>> /\ disk' = q /\ pc' = step
    BY DEF SaveTo, Save, Goto, ghost
<1>2. disk # None /\ Beside(run, disk)
    BY InHandIsSaved
<1>3. \/ Lagging = {} /\ ~disk'.aligned
      \/ run = disk /\ q.moved = run.moved /\ q.applied = run.applied
    BY <1>1, <1>2, NothingYet DEF Beside
<1>4. ~trailing' => Lagging = {}
    BY <1>1 DEF Follow
<1>5. CASE Lagging = {} /\ ~disk'.aligned
    BY <1>1, <1>4, <1>5, StandStill
<1>6. CASE run = disk /\ q.moved = run.moved /\ q.applied = run.applied
    BY <1>1, <1>2, <1>4, <1>6, StandStill DEF SamePlan
<1> QED BY <1>3, <1>5, <1>6

LEMMA CommandStands ==
  ASSUME Follow, Moves, Continue \/ Abort
  PROVE  Aside'
<1>1. UNCHANGED <<local, tree, disk, trailing>> /\ Elsewhere(pc') /\ pc = "idle"
    BY DEF Continue, Abort, At, Goto, Elsewhere, repo, ghost
<1> QED BY <1>1, StandStill DEF Follow

LEMMA ReplayStands ==
  ASSUME IInv, Control, Follow, Moves, Replay \/ OpenConflict \/ SaveReplays
  PROVE  Aside'
<1>1. pc = "drive" /\ UNCHANGED <<local, tree, trailing>> /\ Elsewhere(pc') /\ run \in Runs
  <2>1. pc = "drive" /\ UNCHANGED <<local, tree, trailing>>
      BY DEF Replay, OpenConflict, SaveReplays, SaveTo, At, ghost
  <2>2. Elsewhere(pc')
      BY <2>1 DEF Replay, OpenConflict, SaveReplays, SaveTo, Idle, Goto, Elsewhere
  <2> QED BY <2>1, <2>2, AtWork
<1>2. disk # None /\ Beside(run, disk) /\ (Played(disk) => run = disk)
    BY <1>1, InHandIsSaved DEF Control, Synced
<1>3. ~trailing' => Lagging = {}
    BY <1>1 DEF Follow
<1>4. CASE Replay
    BY <1>1, <1>3, <1>4, StandStill DEF Replay
<1>5. CASE OpenConflict
  <2>1. PICK b \in OrNone(Branches) : disk' = [run EXCEPT !.conflict = b]
      BY <1>1, <1>5, NextIsLowest DEF OpenConflict, OrNone
  <2>2. ~Played(disk)
      BY <1>2, <1>5 DEF OpenConflict, Unplayed, Played
  <2>3. Lagging = {} /\ ~run.aligned
      BY <1>2, <2>2, NothingYet DEF Beside
  <2>4. ~disk'.aligned
      BY <1>1, <2>1, <2>3, NotesOf DEF Notes
  <2> QED BY <1>1, <2>3, <2>4, StandStill
<1>6. CASE SaveReplays
  <2>1. disk' = run
      BY <1>6 DEF SaveReplays, SaveTo, Save
  <2>2. CASE Played(disk)
      BY <1>1, <1>2, <1>3, <2>1, <2>2, StandStill
  <2>3. CASE ~Played(disk)
    <3>1. Lagging = {} /\ ~run.aligned
        BY <1>2, <2>3, NothingYet DEF Beside
    <3> QED BY <1>1, <2>1, <3>1, StandStill
  <2> QED BY <2>2, <2>3
<1> QED BY <1>4, <1>5, <1>6 DEF Replay, OpenConflict, SaveReplays

LEMMA ConflictStands ==
  ASSUME IInv, Control, Follow, Moves, PinResolved \/ SaveResolved \/ CloseWorkspace
  PROVE  Aside'
<1>1. /\ pc \in {"resume", "resolved"} /\ UNCHANGED <<local, tree, trailing>> /\ Elsewhere(pc')
      /\ run \in Runs /\ run = disk /\ disk # None /\ Good(run) /\ Stage(run, pc) /\ NotedAt(run, pc)
  <2>1. pc \in {"resume", "resolved"} /\ UNCHANGED <<local, tree, trailing>>
      BY DEF PinResolved, SaveResolved, CloseWorkspace, At, ghost
  <2>2. Elsewhere(pc')
      BY DEF PinResolved, SaveResolved, CloseWorkspace, Goto, Elsewhere
  <2> QED BY <2>1, <2>2, AtWork, InHandIsSaved
<1>2. ~trailing' => Lagging = {}
    BY <1>1 DEF Follow
<1>3. CASE PinResolved
    BY <1>1, <1>2, <1>3, StandStill DEF PinResolved
<1>4. CASE SaveResolved
  <2> DEFINE b == run.conflict
             h == HandMade(b)
  <2>1. pc = "resolved" /\ disk' = [run EXCEPT !.newHead[b] = h, !.resolved = @ \cup {b}]
      BY <1>4 DEF SaveResolved, At, Save
  <2>2. b \in Live(run) /\ b \in Branches /\ run.newHead[b] = None /\ \A c \in Below(b) \cap Live(run) : run.newHead[c] # None
      BY <1>1, <2>1, AtWork DEF Stage, NotedAt, Good, Shape, OrNone
  <2>3. h \in OrNone(Heads)
    <3>1. run.head[b] \in Own /\ NewBase(run, b) \in Base
        BY <1>1, <2>2, NewBaseIsBase DEF Good, Entry
    <3>2. h \in Own
        BY <3>1, ReplayedHead DEF HandMade
    <3> QED BY <3>2 DEF Own, OrNone
  <2> HIDE DEF b, h
  <2>4. Notes(disk', run)
    <3>1. run \in Runs
        BY <1>1
    <3> QED BY <2>1, <2>2, <2>3, <3>1, NotesOf
  <2>5. ~Played(disk)
      BY <1>1, <2>2 DEF Played
  <2>6. Lagging = {} /\ ~disk'.aligned
      BY <1>1, <2>4, <2>5, NothingYet DEF Notes
  <2> QED BY <1>1, <2>6, StandStill
<1>5. CASE CloseWorkspace
  <2>1. disk' = [run EXCEPT !.conflict = None] /\ None \in OrNone(Branches)
      BY <1>5 DEF CloseWorkspace, Save, OrNone
  <2>2. SamePlan(disk', run) /\ disk'.moved = run.moved /\ Notes(disk', run)
    <3>1. run \in Runs
        BY <1>1
    <3> QED BY <2>1, <3>1, ConflictRun, NotesOf
  <2> QED BY <1>1, <1>2, <2>2, StandStill DEF SamePlan, Notes
<1> QED BY <1>3, <1>4, <1>5

LEMMA PlansStand ==
  ASSUME IInv, Control, Follow, Moves, Sources \/ Landed
  PROVE  Aside'
<1>1. /\ pc \in {"sources", "landed"} /\ run \in Runs /\ run = disk /\ disk # None /\ Flags(run) /\ NotedAt(run, pc)
  <2>1. pc \in {"sources", "landed"}
      BY DEF Sources, Landed, At
  <2> QED BY <2>1, AtWork, InHandIsSaved
<1>2. run.kind = "push"
    BY <1>1 DEF NotedAt, PushSteps
<1>3. CASE \E fresh \in SUBSET Branches : ~run.publishing /\ Replan(fresh)
  <2>1. PICK fresh \in SUBSET Branches : ~run.publishing /\ Replan(fresh)
      BY <1>3
  <2>2. CASE Exit
      BY <1>1, <2>2, ExitStands
  <2>3. CASE ~Exit
    <3>1. disk' = NextPlan(fresh) /\ UNCHANGED <<local, tree, trailing>> /\ Elsewhere(pc')
        BY <2>1, <2>3, Replans DEF ghost, Elsewhere
    <3>2. ~disk'.aligned
        BY <3>1, PlanFields
    <3>3. Lagging = {}
        BY <1>1, <1>2, <2>1, NothingYet DEF Flags
    <3> QED BY <3>1, <3>2, <3>3, StandStill
  <2> QED BY <2>2, <2>3
<1>4. CASE GotoOnly("choose") \/ GotoOnly("recover") \/ GotoOnly("recoverPush")
    BY <1>1, <1>4, GotoStands DEF Elsewhere
<1>5. MovedSources(run) \in SUBSET Branches
    BY <1>1, AtWork DEF MovedSources
<1> QED BY <1>1, <1>3, <1>4, <1>5 DEF Sources, Landed

LEMMA RecoverStands ==
  ASSUME IInv, Control, Follow, Moves,
         Recover("recover", "pin") \/ Recover("recoverPush", "publish") \/ Recover("recoverAbort", "settle")
  PROVE  Aside'
<1>1. PICK from \in {"recover", "recoverPush", "recoverAbort"}, to \in {"pin", "publish", "settle"} :
        Recover(from, to)
    OBVIOUS
<1>2. pc \in {"recover", "recoverPush", "recoverAbort"} /\ run \in Runs /\ run = disk /\ Elsewhere(to)
  <2>1. pc \in {"recover", "recoverPush", "recoverAbort"}
      BY <1>1 DEF Recover, At
  <2> QED BY <2>1, AtWork, InHandIsSaved DEF Elsewhere
<1> DEFINE q == [run EXCEPT !.pushed = TRUE]
<1>3. CASE SaveTo(q, to)
  <2>1. SamePlan(q, run) /\ q.moved = run.moved /\ q.applied = run.applied /\ q.aligned = run.aligned
    <3>1. run \in Runs
        BY <1>2
    <3> QED BY <3>1, NotedPushed, PushedNote DEF SameMoves
  <2> HIDE DEF q
  <2> QED BY <1>2, <1>3, <2>1, NoteStands
<1>4. CASE GotoOnly(to)
    BY <1>2, <1>4, GotoStands
<1> QED BY <1>1, <1>3, <1>4 DEF Recover

LEMMA PushStands ==
  ASSUME IInv, Control, Follow, Moves,
         PinAll \/ Publish \/ Push("push", GotoOnly("stale")) \/ Push("repush", Exit) \/ Release
  PROVE  Aside'
<1>1. /\ pc \in {"pin", "publish", "push", "repush", "stale"} /\ run \in Runs /\ run = disk /\ Flags(run)
  <2>1. pc \in {"pin", "publish", "push", "repush", "stale"}
      BY DEF PinAll, Publish, Push, Release, At
  <2> QED BY <2>1, AtWork, InHandIsSaved
<1>2. CASE Exit \/ GotoOnly("receipts") \/ GotoOnly("stale") \/ GotoOnly("pushed")
    BY <1>1, <1>2, ExitStands, GotoStands DEF Elsewhere
<1>3. CASE UNCHANGED <<local, tree, disk, trailing>> /\ pc' \in {"landed", "pushed", "released", "idle"}
    BY <1>1, <1>3, StandStill DEF Follow, Elsewhere
<1>4. CASE PinAll
    BY <1>2, <1>3, <1>4 DEF PinAll, Goto, ghost
<1>5. CASE Publish
  <2> DEFINE q == [run EXCEPT !.publishing = TRUE, !.targets = run.newHead]
  <2>1. CASE /\ disk' = q /\ pc' = "push" /\ UNCHANGED <<local, tree, trailing>>
    <3>1. SamePlan(q, run) /\ q.moved = run.moved /\ q.applied = run.applied /\ q.aligned = run.aligned
      <4>1. run \in Runs
          BY <1>1
      <4> QED BY <4>1, NotedPublishing, PublishingNote DEF SameMoves
    <3> HIDE DEF q
    <3>2. ~trailing' => Lagging = {}
        BY <1>1, <2>1 DEF Follow
    <3>3. Elsewhere(pc') /\ disk # None
        BY <1>1, <2>1, NoneIsNone DEF Elsewhere
    <3> QED BY <1>1, <2>1, <3>1, <3>2, <3>3, StandStill DEF SamePlan
  <2> QED BY <1>2, <1>5, <2>1 DEF Publish, Save, Goto, ghost
<1>6. CASE Push("push", GotoOnly("stale")) \/ Push("repush", Exit)
    BY <1>2, <1>3, <1>6 DEF Push, Goto, Idle, repo, ghost
<1>7. CASE Release
    BY <1>2, <1>3, <1>7 DEF Release, Goto, Idle, ghost
<1> QED BY <1>4, <1>5, <1>6, <1>7

LEMMA NotesStand ==
  ASSUME IInv, Control, Follow, Moves, Released \/ Pushed \/ RecordReceipts \/ Receipted \/ Choose
  PROVE  Aside'
<1>1. /\ pc \in {"released", "pushed", "receipts", "receipted", "choose"} /\ run \in Runs /\ disk # None
      /\ (pc # "released" => run = disk) /\ Live(run) \subseteq Branches /\ NotedAt(run, pc) /\ Beside(run, disk)
  <2>1. pc \in {"released", "pushed", "receipts", "receipted", "choose"}
      BY DEF Released, Pushed, RecordReceipts, Receipted, Choose, At
  <2> QED BY <2>1, AtWork, InHandIsSaved
<1>2. CASE Released
  <2> DEFINE q == [run EXCEPT !.targets = run.newHead]
  <2>1. SamePlan(q, run) /\ Notes(q, run)
      BY <1>1, NotedTargets, NotesOf
  <2>2. PICK step \in {"pushed", "repush"} : SaveTo(q, step)
      BY <1>2 DEF Released
  <2>3. disk.kind = "push" /\ ~disk.pushed
      BY <1>1, <1>2 DEF Released, At, NotedAt, PushSteps, Beside, SameStart
  <2> HIDE DEF q
  <2>4. Elsewhere(step)
      BY DEF Elsewhere
  <2> QED BY <1>1, <2>1, <2>2, <2>3, <2>4, NoteStands DEF Notes
<1>3. CASE Pushed
  <2> DEFINE q == [run EXCEPT !.pushed = TRUE]
  <2>1. SamePlan(q, run) /\ q.moved = run.moved /\ q.applied = run.applied /\ q.aligned = run.aligned
    <3>1. run \in Runs
        BY <1>1
    <3> QED BY <3>1, NotedPushed, PushedNote DEF SameMoves
  <2>2. SaveTo(q, "receipts") /\ run = disk
      BY <1>1, <1>3 DEF Pushed, At
  <2> HIDE DEF q
  <2> QED BY <1>1, <2>1, <2>2, NoteStands DEF Elsewhere
<1>4. CASE RecordReceipts
  <2>1. UNCHANGED <<local, tree, disk, trailing>> /\ Elsewhere(pc')
      BY <1>4 DEF RecordReceipts, Goto, ghost, Elsewhere
  <2> QED BY <1>1, <2>1, StandStill DEF Follow
<1>5. CASE Receipted
  <2> DEFINE q == [run EXCEPT !.receipted = TRUE]
  <2>1. SamePlan(q, run) /\ q.moved = run.moved /\ q.applied = run.applied /\ q.aligned = run.aligned
    <3>1. run \in Runs
        BY <1>1
    <3> QED BY <3>1, NotedReceipted, NotesOf DEF SameMoves, Notes
  <2>2. SaveTo(q, "choose") /\ run = disk
      BY <1>1, <1>5 DEF Receipted, At
  <2> HIDE DEF q
  <2> QED BY <1>1, <2>1, <2>2, NoteStands DEF Elsewhere
<1>6. CASE Choose
  <2>1. CASE GotoOnly("holders")
      BY <1>1, <2>1, GotoStands DEF Elsewhere
  <2>2. CASE ~run.sourcesMoving /\ SaveTo([run EXCEPT !.sourcesMoving = TRUE, !.moved = Movers(run) \ Stays], "holders")
    <3> DEFINE bs == Movers(run) \ Stays
               q  == [run EXCEPT !.sourcesMoving = TRUE, !.moved = bs]
    <3>1. bs \in SUBSET Branches
        BY <1>1 DEF Movers
    <3>2. SaveTo(q, "holders")
        BY <2>2
    <3> HIDE DEF bs
    <3>3. SamePlan(q, run) /\ Notes(q, run)
      <4>1. run \in Runs
          BY <1>1
      <4> QED BY <3>1, <4>1, ChosenRun, NotesOf
    <3>4. disk.kind = "push" /\ ~disk.sourcesMoving
        BY <1>1, <1>6, <2>2 DEF Choose, At, NotedAt, PushSteps
    <3> HIDE DEF q
    <3> QED BY <1>1, <3>2, <3>3, <3>4, NoteStands DEF Notes, Elsewhere
  <2> QED BY <1>6, <2>1, <2>2 DEF Choose
<1> QED BY <1>2, <1>3, <1>4, <1>5, <1>6

-----------------------------------------------------------------------------
\* The moves.

\* What a run that moves its branches has in hand.
LEMMA InMotion ==
  ASSUME IInv, Control, pc \in {"holders", "refs", "align", "restore", "aligned", "write", "rewrite", "finish", "complete"}
  PROVE  /\ run \in Runs /\ run = disk /\ disk # None /\ Good(run) /\ Flags(run) /\ NotedAt(run, pc) /\ Played(run)
         /\ pc \in {"holders", "refs", "restore", "complete"} => run.kind = "push"
         /\ pc \in {"aligned", "write", "rewrite", "finish"} => run.kind = "noPush" /\ run.applied
         /\ run.kind = "push" => ~run.applied /\ ~run.aligned /\ Going(disk) = run.moved
         /\ run.kind = "noPush" => (run.applied => Going(disk) = Movers(run))
         /\ pc = "align" /\ run.kind # "push" => run.kind = "noPush" /\ run.applied
         /\ run.moved \subseteq Live(run) /\ Movers(run) \subseteq Live(run) /\ Live(run) \subseteq Branches
<1>1. /\ run \in Runs /\ run = disk /\ disk # None /\ Good(run) /\ Flags(run) /\ NotedAt(run, pc) /\ Stage(run, pc)
      /\ Live(run) \subseteq Branches
    BY AtWork, InHandIsSaved
<1>2. run.kind \in {"push", "noPush"} /\ run.moved \subseteq Live(run) /\ Movers(run) \subseteq Live(run)
    BY <1>1, RunFields DEF Good, Shape, Movers
<1>3. run.kind = "push" => ~run.applied /\ ~run.aligned
    BY <1>1 DEF Flags
<1>4. /\ pc \in {"holders", "refs", "restore", "complete"} => run.kind = "push"
      /\ pc \in {"aligned", "write", "rewrite", "finish"} => run.kind = "noPush" /\ run.applied
      /\ pc = "align" /\ run.kind # "push" => run.applied
    BY <1>1 DEF NotedAt, PushSteps, WriteSteps
<1>5. Played(run)
    BY <1>1 DEF Stage
<1> QED BY <1>1, <1>2, <1>3, <1>4, <1>5 DEF Going

\* A branch that is where the run found it or put it, and that was placed, is
\* where the run put it: only its user's next commit takes it elsewhere.
LEMMA PlacedIsThere ==
  ASSUME NEW r \in Runs, Good(r), Played(r), NEW b \in Live(r), Placed(r, b), local[b] \in {r.source[b], r.newHead[b]}
  PROVE  local[b] = r.newHead[b]
<1>1. b \in Branches /\ r.source[b] \in Heads
    BY RunFields
<1>2. r.newHead[b].commit.work = r.source[b].commit.work /\ r.source[b].commit.work \in Int
    BY <1>1, HeadFields DEF Good, Entry, Played
<1>3. CASE local[b] = r.newHead[b]
    BY <1>3
<1>4. CASE local[b].commit.work > r.source[b].commit.work
    BY <1>2, <1>4
<1> QED BY <1>3, <1>4 DEF Placed

LEMMA HoldersStand ==
  ASSUME IInv, Control, Follow, Moves, Holders
  PROVE  Aside'
<1>1. pc = "holders"
    BY DEF Holders, At
<1> DEFINE go   == {b \in run.moved : local[b] \in {run.source[b], run.newHead[b]}}
           wait == {b \in go : local[b] # run.newHead[b]}
<1>2. CASE Exit
    BY <1>1, <1>2, ExitStands
<1>3. CASE /\ moving' = go /\ pending' = wait /\ pc' = (IF go = {} THEN "complete" ELSE "refs")
           /\ UNCHANGED <<local, tree, disk, run, trailing>>
  <2>1. run = disk /\ disk # None /\ run.kind = "push" /\ ~run.aligned /\ Going(disk) = run.moved
      BY <1>1, InMotion
  <2>2. \A b \in Lagging : b \in run.moved /\ local[b] = run.newHead[b]
      BY <2>1 DEF Follow
  <2>3. Lagging \subseteq go /\ wait \subseteq go /\ go \subseteq run.moved /\ \A b \in wait : run.source[b] # run.newHead[b]
      BY <2>2
  <2>4. Lagging' = Lagging
      BY <1>3 DEF Lagging
  <2>5. ~trailing => Lagging = {}
      BY <1>1 DEF Follow
  <2> HIDE DEF go, wait
  <2>6. pc' = "complete" => Lagging = {}
      BY <1>3, <2>3
  <2>7. Follow'
    <3>1. disk' # None => \A b \in Lagging' : b \in Going(disk)' /\ local'[b] = disk'.newHead[b]
        BY <1>3, <2>1, <2>2, <2>4 DEF Going
    <3> QED BY <1>3, <2>1, <2>4, <2>5, <2>6, <3>1 DEF Follow
  <2>8. Moves'
      BY <1>3, <2>1, <2>3, <2>4 DEF Moves
  <2> QED BY <2>7, <2>8 DEF Aside
<1> QED BY <1>2, <1>3 DEF Holders, Goto, repo, ghost

LEMMA MoveRefsStands ==
  ASSUME IInv, Control, Follow, Moves, MoveRefs
  PROVE  Aside'
<1>1. pc = "refs"
    BY DEF MoveRefs, At
<1>2. CASE Exit
    BY <1>1, <1>2, ExitStands
<1>3. CASE ~Exit
  <2>1. /\ \A b \in moving : Expected(b)
        /\ local' = [b \in Branches |-> IF b \in moving THEN run.newHead[b] ELSE local[b]]
        /\ todo' = moving /\ pc' = "align"
        /\ UNCHANGED <<tree, disk, run, moving, pending, trailing>>
      BY <1>3 DEF MoveRefs, Goto, ghost
  <2>2. run = disk /\ disk # None /\ run.kind = "push" /\ ~run.aligned /\ Going(disk) = run.moved
        /\ run.moved \subseteq Branches
      BY <1>1, InMotion
  <2>3. /\ Lagging \subseteq moving /\ pending \subseteq moving /\ moving \subseteq run.moved
        /\ \A b \in pending : run.source[b] # run.newHead[b]
      BY <1>1 DEF Moves
  <2>4. \A b \in Lagging : local[b] = run.newHead[b]
      BY <2>2 DEF Follow
  <2>5. Lagging' \subseteq moving
      BY <2>1, <2>3 DEF Lagging
  <2>6. \A b \in moving : local'[b] = run.newHead[b]
      BY <2>1, <2>2, <2>3
  <2>7. \A b \in pending : tree[b] \in {None, run.source[b]}
    <3>1. SUFFICES ASSUME NEW b \in pending PROVE tree[b] \in {None, run.source[b]}
        OBVIOUS
    <3>2. b \in Branches /\ local[b] = run.source[b] /\ local[b] # run.newHead[b]
        BY <2>1, <2>2, <2>3 DEF Expected
    <3> QED BY <2>4, <3>2 DEF Lagging
  <2>8. ~trailing => Lagging' \subseteq pending
    <3>1. SUFFICES ASSUME ~trailing, NEW b \in Lagging' PROVE b \in pending
        OBVIOUS
    <3>2. Lagging = {} /\ b \in moving /\ b \in Branches
        BY <1>1, <2>5, <3>1 DEF Follow, Lagging
    <3>3. b \notin pending => local'[b] = local[b]
        BY <2>1, <2>6, <3>2 DEF Expected
    <3> QED BY <2>1, <3>2, <3>3 DEF Lagging
  <2>9. Follow'
    <3>1. disk' # None => \A b \in Lagging' : b \in Going(disk)' /\ local'[b] = disk'.newHead[b]
        BY <2>1, <2>2, <2>3, <2>5, <2>6 DEF Going, Movers, Live
    <3> QED BY <2>1, <2>2, <3>1 DEF Follow
  <2>10. \A b \in moving : Placed(run, b)'
      BY <2>1, <2>6 DEF Placed
  <2>11. Moves'
      BY <2>1, <2>2, <2>3, <2>5, <2>7, <2>8, <2>10 DEF Moves
  <2> QED BY <2>9, <2>11 DEF Aside
<1> QED BY <1>2, <1>3

\* What is left to align is at and above the lowest of it.
LEMMA TodoIsAbove ==
  ASSUME NEW bs \in SUBSET Branches, bs # {}
  PROVE  /\ LowestOf(bs) \in bs /\ bs \subseteq From(LowestOf(bs))
         /\ \A b \in bs \ {LowestOf(bs)} : LowestOf(bs) \in Below(b)
<1>1. LowestOf(bs) \in bs /\ Below(LowestOf(bs)) \cap bs = {}
    BY LowestExists
<1>2. LowestOf(bs) \in Branches
    BY <1>1
<1> QED BY <1>1, <1>2, UpToIsOrder DEF Below, From

LEMMA AlignStands ==
  ASSUME IInv, Control, Follow, Moves, Align
  PROVE  Aside'
<1> DEFINE b == LowestOf(todo)
           bound == IF run.kind = "push" THEN moving ELSE Movers(run)
<1>1. /\ pc = "align" /\ todo # {} /\ pc' = "align" /\ todo' = todo \ {b}
      /\ tree[b] = None \/ CanFollow(b)
      /\ tree' = [tree EXCEPT ![b] = IF @ = None THEN None ELSE run.newHead[b]]
      /\ UNCHANGED <<local, disk, run, moving, pending, trailing>>
    BY DEF Align, At, ghost
<1>2. /\ run \in Runs /\ run = disk /\ disk # None /\ Good(run) /\ Played(run) /\ Live(run) \subseteq Branches
      /\ run.moved \subseteq Live(run) /\ Movers(run) \subseteq Live(run)
    BY <1>1, InMotion
<1>3. /\ Lagging \subseteq todo /\ todo \subseteq bound /\ \A c \in bound : Placed(run, c)
      /\ run.kind = "push" => moving \subseteq run.moved /\ pending \subseteq moving
    BY <1>1 DEF Moves
<1>4. bound \subseteq Live(run)
    BY <1>2, <1>3
<1>5. todo \in SUBSET Branches /\ b \in todo /\ \A c \in todo \ {b} : b \in Below(c)
    BY <1>1, TodoIsAbove DEF IInv, InHand
<1> HIDE DEF b, bound
<1>6. b \in Live(run) /\ b \in Branches /\ Placed(run, b)
    BY <1>2, <1>3, <1>4, <1>5
<1>7. tree \in [Branches -> OrNone(Heads)]
    BY DEF IInv, Repo
<1>8. b \notin Lagging'
  <2>1. CASE tree[b] = None
      BY <1>1, <1>6, <1>7, <2>1 DEF Lagging
  <2>2. CASE tree[b] # None
    <3>1. tree'[b] = run.newHead[b] /\ tree[b] \in {run.source[b], run.newHead[b]}
        BY <1>1, <1>6, <1>7, <2>2 DEF CanFollow
    <3>2. local[b] = run.newHead[b]
      <4>1. CASE b \in Lagging
          BY <1>2, <4>1 DEF Follow
      <4>2. CASE b \notin Lagging
        <5>1. local[b] \in {run.source[b], run.newHead[b]}
            BY <1>6, <2>2, <3>1, <4>2 DEF Lagging
        <5> QED BY <1>2, <1>6, <5>1, PlacedIsThere
      <4> QED BY <4>1, <4>2
    <3> QED BY <1>1, <3>1, <3>2 DEF Lagging
  <2> QED BY <2>1, <2>2
<1>9. Lagging' \subseteq Lagging \ {b} /\ \A c \in Branches : c # b => tree'[c] = tree[c]
    BY <1>1, <1>7, <1>8 DEF Lagging
<1>10. Follow'
  <2>1. disk' # None => \A c \in Lagging' : c \in Going(disk)' /\ local'[c] = disk'.newHead[c]
      BY <1>1, <1>9 DEF Follow, Going, Movers, Live
  <2>2. disk' # None /\ disk'.aligned => Lagging' = {}
      BY <1>1, <1>9 DEF Follow
  <2> QED BY <1>1, <2>1, <2>2 DEF Follow
<1>11. Moves'
  <2>1. disk' # None /\ disk'.aligned => \A c \in Movers(disk)' : Placed(disk, c)'
      BY <1>1 DEF Moves, Placed, Movers, Live
  <2>2. /\ Lagging' \subseteq todo' /\ todo' \subseteq bound' /\ \A c \in bound' : Placed(run, c)'
      BY <1>1, <1>3, <1>9 DEF bound, Placed, Movers, Live
  <2>3. run'.kind = "push" => /\ \A c \in pending' \cap todo' : local'[c] = run'.newHead[c] => tree'[c] \in {None, run'.source[c]}
                              /\ ~trailing' => Lagging' \subseteq pending'
      BY <1>1, <1>5, <1>9 DEF Moves
  <2>4. run'.kind = "push" => \A c \in pending' \ todo' : \A d \in todo' : c \in Below(d)
    <3>1. run.kind = "push" => \A c \in pending \ todo : \A d \in todo : c \in Below(d)
        BY <1>1 DEF Moves
    <3> QED BY <1>1, <1>5, <3>1
  <2>5. run'.kind = "push" => moving' \subseteq run'.moved /\ pending' \subseteq moving'
      BY <1>1, <1>3
  <2> QED BY <1>1, <2>1, <2>2, <2>3, <2>4, <2>5 DEF Moves, bound
<1> QED BY <1>10, <1>11 DEF Aside

LEMMA AlignedStands ==
  ASSUME IInv, Control, Follow, Moves, Aligned
  PROVE  Aside'
<1>1. /\ pc = "align" /\ todo = {} /\ pc' = (IF run.kind = "push" THEN "complete" ELSE "aligned")
      /\ UNCHANGED <<local, tree, disk, run, trailing>>
    BY DEF Aligned, At, GotoOnly, Goto, repo, ghost
<1>2. Lagging = {} /\ Lagging' = {} /\ (run.kind # "push" => \A c \in Movers(run) : Placed(run, c))
  <2>1. Lagging = {} /\ (run.kind # "push" => \A c \in Movers(run) : Placed(run, c))
      BY <1>1 DEF Moves
  <2> QED BY <1>1, <2>1 DEF Lagging
<1>3. Follow'
    BY <1>1, <1>2 DEF Follow
<1>4. disk' # None /\ disk'.aligned => \A c \in Movers(disk)' : Placed(disk, c)'
    BY <1>1 DEF Moves, Placed, Movers, Live
<1>5. run'.kind # "push" => \A c \in Movers(run)' : Placed(run, c)'
    BY <1>1, <1>2 DEF Placed, Movers, Live
<1>6. Moves'
    BY <1>1, <1>4, <1>5 DEF Moves
<1> QED BY <1>3, <1>6 DEF Aside

LEMMA AlignFailsStands ==
  ASSUME IInv, Control, Follow, Moves, AlignFails
  PROVE  Aside'
<1>1. /\ pc = "align" /\ todo # {} /\ todo \in SUBSET Branches
    BY DEF AlignFails, At, IInv, InHand
<1>2. /\ Lagging \subseteq todo /\ todo \subseteq From(LowestOf(todo)) /\ LowestOf(todo) \in todo
      /\ LowestOf(todo) \in Branches
    BY <1>1, TodoIsAbove DEF Moves
<1>3. CASE run.kind = "push"
  <2>1. /\ pending' = pending \cap From(LowestOf(todo)) /\ pc' = "restore"
        /\ UNCHANGED <<local, tree, disk, run, moving, todo, trailing>>
      BY <1>3 DEF AlignFails, Goto, repo, ghost
  <2>2. Lagging' = Lagging
      BY <2>1 DEF Lagging
  <2>3. /\ todo \subseteq moving /\ moving \subseteq run.moved /\ pending \subseteq moving
        /\ \A b \in pending \cap todo : local[b] = run.newHead[b] => tree[b] \in {None, run.source[b]}
        /\ ~trailing => Lagging \subseteq pending
        /\ \A c \in pending \ todo : \A b \in todo : c \in Below(b)
        /\ \A b \in moving : Placed(run, b)
      BY <1>1, <1>3 DEF Moves
  <2>4. pending' \subseteq todo
      BY <1>2, <2>1, <2>3 DEF Below, From
  <2>5. ~trailing => Lagging \subseteq pending'
      BY <1>2, <2>1, <2>3
  <2>6. Follow'
    <3>1. disk' # None => \A c \in Lagging : c \in Going(disk)' /\ local'[c] = disk'.newHead[c]
        BY <2>1 DEF Follow, Going, Movers, Live
    <3>2. disk' # None /\ disk'.aligned => Lagging = {}
        BY <2>1 DEF Follow
    <3> QED BY <2>1, <2>2, <3>1, <3>2 DEF Follow
  <2>7. Moves'
    <3>1. disk' # None /\ disk'.aligned => \A c \in Movers(disk)' : Placed(disk, c)'
        BY <2>1 DEF Moves, Placed, Movers, Live
    <3>2. \A b \in moving : Placed(run, b)'
        BY <2>1, <2>3 DEF Placed
    <3> QED BY <1>2, <1>3, <2>1, <2>2, <2>3, <2>4, <2>5, <3>1, <3>2 DEF Moves
  <2> QED BY <2>6, <2>7 DEF Aside
<1>4. CASE run.kind # "push"
  <2>1. trailing' /\ UNCHANGED <<local, tree, disk>> /\ Elsewhere(pc')
      BY <1>4 DEF AlignFails, Idle, Elsewhere, repo
  <2> QED BY <2>1, StandStill
<1> QED BY <1>3, <1>4

LEMMA RestoreStands ==
  ASSUME IInv, Control, Follow, Moves, Restore
  PROVE  Aside'
<1>1. /\ pc = "restore" /\ Idle /\ UNCHANGED <<tree, disk>>
    BY DEF Restore, At
<1>2. /\ run \in Runs /\ run = disk /\ disk # None /\ run.kind = "push" /\ ~run.aligned
    BY <1>1, InMotion
<1>3. pc' = "idle"
    BY <1>1 DEF Idle
<1>4. CASE /\ \A b \in pending : local[b] = run.newHead[b]
           /\ local' = [b \in Branches |-> IF b \in pending THEN run.source[b] ELSE local[b]]
           /\ UNCHANGED trailing
  <2>1. /\ pending \subseteq todo
        /\ \A b \in pending \cap todo : local[b] = run.newHead[b] => tree[b] \in {None, run.source[b]}
        /\ ~trailing => Lagging \subseteq pending
      BY <1>1, <1>2 DEF Moves
  <2>2. Lagging' \subseteq Lagging \ pending
    <3>1. SUFFICES ASSUME NEW b \in Lagging' PROVE b \in Lagging \ pending
        OBVIOUS
    <3>2. b \in Branches
        BY DEF Lagging
    <3>3. b \notin pending
        BY <1>1, <1>4, <2>1, <3>2 DEF Lagging
    <3> QED BY <1>1, <1>4, <3>2, <3>3 DEF Lagging
  <2>3. Follow'
    <3>1. \A b \in Lagging' : b \in Going(disk) /\ local'[b] = disk.newHead[b]
      <4>1. SUFFICES ASSUME NEW b \in Lagging' PROVE b \in Going(disk) /\ local'[b] = disk.newHead[b]
          OBVIOUS
      <4>2. b \in Lagging /\ b \notin pending /\ b \in Branches
          BY <2>2 DEF Lagging
      <4>3. b \in Going(disk) /\ local[b] = disk.newHead[b]
          BY <1>2, <4>2 DEF Follow
      <4> QED BY <1>4, <4>2, <4>3
    <3>2. ~trailing' => Lagging' = {}
        BY <1>4, <2>1, <2>2
    <3>3. disk' # None => \A b \in Lagging' : b \in Going(disk)' /\ local'[b] = disk'.newHead[b]
        BY <1>1, <3>1 DEF Going, Movers, Live
    <3> QED BY <1>1, <1>2, <1>3, <3>2, <3>3 DEF Follow
  <2>4. Moves'
      BY <1>1, <1>2, <1>3 DEF Moves
  <2> QED BY <2>3, <2>4 DEF Aside
<1>5. CASE trailing' /\ UNCHANGED local
  <2>1. Elsewhere(pc')
      BY <1>3 DEF Elsewhere
  <2> QED BY <1>1, <1>5, <2>1, StandStill
<1> QED BY <1>4, <1>5 DEF Restore

LEMMA WriteRefsStands ==
  ASSUME IInv, Control, Follow, Moves, WriteRefs
  PROVE  Aside'
<1>1. /\ pc \in {"write", "rewrite"} /\ Writable
      /\ local' = [b \in Branches |-> IF b \in Movers(run) THEN run.newHead[b] ELSE local[b]]
      /\ todo' = (IF run.aligned THEN {} ELSE Movers(run))
      /\ pc' = (IF run.aligned THEN "finish" ELSE "align")
      /\ UNCHANGED <<tree, disk, run, moving, pending, trailing>>
    BY DEF WriteRefs, Goto, ghost
<1>2. /\ run \in Runs /\ run = disk /\ disk # None /\ Good(run) /\ Played(run) /\ Live(run) \subseteq Branches
      /\ run.kind = "noPush" /\ run.applied /\ Going(disk) = Movers(run) /\ Movers(run) \subseteq Live(run)
    BY <1>1, InMotion
<1>3. \A b \in Lagging : b \in Movers(run) /\ local[b] = run.newHead[b]
    BY <1>2 DEF Follow
<1>4. Lagging' \subseteq Movers(run) /\ \A b \in Movers(run) : local'[b] = run.newHead[b]
    BY <1>1, <1>2, <1>3 DEF Lagging
<1>5. Movers(run)' = Movers(run) /\ \A b \in Movers(run) : Placed(run, b)'
    BY <1>1, <1>2, <1>4 DEF Placed, Movers, Live
<1>6. run.aligned => Lagging' = {}
  <2>1. SUFFICES ASSUME run.aligned PROVE Lagging' = {}
      OBVIOUS
  <2>2. \A b \in Movers(run) : local[b] = run.newHead[b]
    <3>1. SUFFICES ASSUME NEW b \in Movers(run) PROVE local[b] = run.newHead[b]
        OBVIOUS
    <3>2. Placed(run, b) /\ b \in Live(run)
        BY <1>2, <2>1 DEF Moves
    <3>3. local[b] \in {run.source[b], run.newHead[b]}
        BY <1>1 DEF Writable
    <3> QED BY <1>2, <3>2, <3>3, PlacedIsThere
  <2>3. \A b \in Branches : local'[b] = local[b]
      BY <1>1, <2>2
  <2>4. Lagging = {}
      BY <1>2, <2>1 DEF Follow
  <2> QED BY <1>1, <2>3, <2>4 DEF Lagging
<1>7. Follow'
  <2>1. disk' # None => \A b \in Lagging' : b \in Going(disk)' /\ local'[b] = disk'.newHead[b]
      BY <1>1, <1>2, <1>4 DEF Going, Movers, Live
  <2> QED BY <1>1, <1>2, <1>6, <2>1 DEF Follow
<1>8. Moves'
    BY <1>1, <1>2, <1>4, <1>5 DEF Moves
<1> QED BY <1>7, <1>8 DEF Aside

LEMMA WritesStand ==
  ASSUME IInv, Control, Follow, Moves, Apply \/ WriteFails \/ SaveAligned
  PROVE  Aside'
<1>1. pc \in {"apply", "write", "rewrite", "aligned"} /\ run \in Runs /\ run = disk /\ disk # None /\ Flags(run) /\ NotedAt(run, pc) /\ Good(run)
  <2>1. pc \in {"apply", "write", "rewrite", "aligned"}
      BY DEF Apply, WriteFails, SaveAligned, At
  <2> QED BY <2>1, AtWork, InHandIsSaved
<1>2. CASE Exit \/ GotoOnly("rewrite")
    BY <1>1, <1>2, ExitStands, GotoStands DEF Elsewhere
<1>3. CASE Apply
  <2>1. CASE ~run.applied /\ SaveTo([run EXCEPT !.applied = TRUE], "write")
    <3> DEFINE q == [run EXCEPT !.applied = TRUE]
    <3>1. q.aligned = run.aligned
      <4>1. run \in Runs
          BY <1>1
      <4> QED BY <4>1, AppliedNote
    <3>2. UNCHANGED <<local, tree, trailing>> /\ disk' = q /\ run' = q /\ pc' = "write"
        BY <2>1 DEF SaveTo, Save, Goto, ghost
    <3> HIDE DEF q
    <3>3. ~run.sourcesMoving /\ ~run.aligned
        BY <1>1, <1>3, <2>1 DEF NotedAt, WriteSteps, Flags, Good, Shape, Apply, At
    <3>4. Lagging = {} /\ Lagging' = {}
      <4>1. Lagging = {}
          BY <1>1, <2>1, <3>3, NothingNoted
      <4> QED BY <3>2, <4>1 DEF Lagging
    <3>5. Follow'
        BY <3>1, <3>2, <3>3, <3>4 DEF Follow
    <3>6. Moves'
        BY <3>1, <3>2, <3>3 DEF Moves
    <3> QED BY <3>5, <3>6 DEF Aside
  <2> QED BY <1>2, <1>3, <2>1 DEF Apply
<1>4. CASE WriteFails
  <2>1. CASE pc = "write" /\ disk' = [run EXCEPT !.applied = FALSE] /\ Idle /\ UNCHANGED <<local, tree, trailing>>
    <3>1. ~disk'.aligned
      <4>1. disk'.aligned = run.aligned
          BY <1>1, <2>1, AppliedNote
      <4> QED BY <1>1, <2>1, <4>1 DEF NotedAt
    <3>2. Lagging = {} /\ Elsewhere(pc')
        BY <2>1 DEF Follow, Idle, Elsewhere
    <3> QED BY <2>1, <3>1, <3>2, StandStill
  <2> QED BY <1>2, <1>4, <2>1 DEF WriteFails, At, ghost
<1>5. CASE SaveAligned
  <2> DEFINE q == [run EXCEPT !.aligned = TRUE]
  <2>1. SamePlan(q, run)
    <3>1. run \in Runs
        BY <1>1
    <3> QED BY <3>1, NotedAligned
  <2>2. UNCHANGED <<local, tree, trailing>> /\ disk' = q /\ run' = q /\ pc' = "finish" /\ pc = "aligned"
      BY <1>5 DEF SaveAligned, SaveTo, Save, Goto, At, ghost
  <2> HIDE DEF q
  <2>3. Lagging = {} /\ \A b \in Movers(run) : Placed(run, b)
      BY <2>2 DEF Follow, Moves
  <2>4. Lagging' = {}
      BY <2>2, <2>3 DEF Lagging
  <2>5. \A b \in Movers(run)' : Placed(run, b)'
      BY <2>1, <2>2, <2>3 DEF Placed, Movers, Live, SamePlan
  <2>6. Follow'
      BY <2>2, <2>4 DEF Follow
  <2>7. Moves'
      BY <2>2, <2>5 DEF Moves
  <2> QED BY <2>6, <2>7 DEF Aside
<1> QED BY <1>3, <1>4, <1>5

LEMMA EndsStand ==
  ASSUME IInv, Control, Follow, Moves,
         \/ Settle \/ Die
         \/ DropPins("complete", "clear") \/ DropPins("finish", "clear")
         \/ DropPins("dropAborted", "clearAborted") \/ DropPins("completeAborted", "clearCompleted")
         \/ Clear("clear", "done") \/ Clear("clearAborted", "aborted") \/ Clear("clearCompleted", "completed")
  PROVE  Aside'
<1>1. CASE Die
  <2>1. UNCHANGED <<local, tree, disk>> /\ trailing' = (trailing \/ todo # {}) /\ Elsewhere(pc') /\ pc # "restore"
      BY <1>1 DEF Die, Idle, Elsewhere, repo
  <2>2. ~trailing' => Lagging = {}
    <3>1. CASE pc = "align"
        BY <2>1, <3>1 DEF Moves
    <3>2. CASE pc # "align"
        BY <2>1, <3>2 DEF Follow
    <3> QED BY <3>1, <3>2
  <2> QED BY <2>1, <2>2, StandStill
<1>2. CASE Clear("clear", "done") \/ Clear("clearAborted", "aborted") \/ Clear("clearCompleted", "completed")
  <2>1. /\ UNCHANGED <<local, tree>> /\ disk' = None /\ Elsewhere(pc')
        /\ pc \in {"clear", "clearAborted", "clearCompleted"}
        /\ pc # "clear" /\ trailing => trailing'
      BY <1>2 DEF Clear, Idle, Elsewhere, At
  <2>2. ~trailing' => Lagging = {}
      BY <2>1 DEF Follow
  <2> QED BY <2>1, <2>2, StandStill
<1>3. CASE DropPins("dropAborted", "clearAborted") \/ DropPins("completeAborted", "clearCompleted")
  <2>1. UNCHANGED <<local, tree, disk, trailing>> /\ Elsewhere(pc') /\ pc \in {"dropAborted", "completeAborted"}
      BY <1>3 DEF DropPins, Goto, At, Elsewhere, ghost
  <2> QED BY <2>1, StandStill DEF Follow
<1>4. CASE DropPins("complete", "clear") \/ DropPins("finish", "clear")
  <2>1. UNCHANGED <<local, tree, disk, run, trailing>> /\ pc' = "clear" /\ pc \in {"complete", "finish"}
      BY <1>4 DEF DropPins, Goto, At, ghost
  <2>2. Lagging = {} /\ Lagging' = {}
    <3>1. Lagging = {}
        BY <2>1 DEF Follow
    <3> QED BY <2>1, <3>1 DEF Lagging
  <2>3. Follow'
      BY <2>1, <2>2 DEF Follow
  <2>4. Moves'
    <3>1. disk' # None /\ disk'.aligned => \A b \in Movers(disk)' : Placed(disk, b)'
        BY <2>1 DEF Moves, Placed, Movers, Live
    <3> QED BY <2>1, <3>1 DEF Moves
  <2> QED BY <2>3, <2>4 DEF Aside
<1>5. CASE Settle
  <2>1. pc = "settle"
      BY <1>5 DEF Settle, At
  <2>2. CASE Exit \/ GotoOnly("completeAborted")
      BY <2>1, <2>2, ExitStands, GotoStands DEF Elsewhere
  <2>3. CASE KeepResolved
    <3>1. UNCHANGED <<local, tree, disk, trailing>> /\ Elsewhere(pc')
        BY <2>3 DEF KeepResolved, Goto, Elsewhere, ghost
    <3> QED BY <2>1, <3>1, StandStill DEF Follow
  <2> QED BY <1>5, <2>2, <2>3 DEF Settle
<1> QED BY <1>1, <1>2, <1>3, <1>4, <1>5

\* A user commits where the checkout follows, and from there goes beyond the
\* source of the run.
PutAt(r, b, h) == /\ h.commit.by = r.newHead[b].commit.by
                  /\ h = r.newHead[b] \/ h.commit.work > r.source[b].commit.work

LEMMA CommitPlaces ==
  ASSUME IInv, Hands, NEW b \in Branches, Commit(b)
  PROVE  /\ local' \in [Branches -> Heads] /\ \A c \in Branches : c # b => local'[c] = local[c]
         /\ Lagging' = Lagging /\ b \notin Lagging
         /\ \A r \in {disk, run} \ {None} : \A c \in Live(r) : Placed(r, c) => PutAt(r, c, local'[c])
         /\ run # None /\ b \in Live(run) /\ run.newHead[b] # None => local'[b] # run.newHead[b]
<1>1. /\ outside' = outside + 1 /\ tree[b] \in {None, local[b]}
      /\ local' = [local EXCEPT ![b].commit = [@ EXCEPT !.work = outside', !.copy = 0]]
      /\ tree' = [tree EXCEPT ![b] = IF @ = None THEN None ELSE local'[b]]
      /\ UNCHANGED <<disk, run>>
    BY DEF Commit, proc
<1>2. /\ local \in [Branches -> Heads] /\ outside \in Nat /\ outside' \in 0..MaxOutside /\ tree \in [Branches -> OrNone(Heads)]
  <2>1. outside < MaxOutside /\ MaxOutside \in Nat /\ outside \in 0..MaxOutside
      BY DEF Commit, IInv, Remote
  <2> QED BY <1>1, <2>1 DEF IInv, Repo
<1>3. local'[b] = [local[b] EXCEPT !.commit = [local[b].commit EXCEPT !.work = outside', !.copy = 0]]
    BY <1>1, <1>2
<1>4. local'[b] \in Heads /\ local'[b].commit.work = outside + 1 /\ local'[b].commit.by = local[b].commit.by
  <2>1. local[b] \in Own
      BY DEF IInv, Repo, OwnLocal
  <2>2. PICK h \in Own : /\ h = [local[b] EXCEPT !.commit = [@ EXCEPT !.work = outside', !.copy = 0]]
                         /\ h.commit.work = outside'
      BY <1>2, <2>1, CommittedHead
  <2>3. local[b] \in Heads
      BY <1>2
  <2>4. local'[b].commit.by = local[b].commit.by
      BY <1>3, <2>3 DEF Heads, Patch
  <2>5. local'[b] = h
      BY <1>1, <1>2, <2>2
  <2> QED BY <1>1, <2>2, <2>4, <2>5 DEF Own
<1>5. local' \in [Branches -> Heads] /\ \A c \in Branches : c # b => local'[c] = local[c] /\ tree'[c] = tree[c]
    BY <1>1, <1>2, <1>4
<1>6. tree'[b] \in {None, local'[b]}
    BY <1>1, <1>2
<1>7. Lagging' = Lagging /\ b \notin Lagging
    BY <1>1, <1>5, <1>6 DEF Lagging
<1>8. ASSUME NEW r \in {disk, run} \ {None}, NEW c \in Live(r)
      PROVE  r \in Runs /\ Good(r) /\ r.source[c] \in Heads /\ r.source[c].commit.work <= outside /\ c \in Branches
  <2>1. r \in Runs /\ Good(r) /\ ByHand(r, outside)
      BY DEF IInv, Saved, InHand, Good, Hands
  <2> QED BY <2>1, RunFields DEF ByHand
<1>9. ASSUME NEW r \in {disk, run} \ {None}, NEW c \in Live(r), Placed(r, c)
      PROVE  PutAt(r, c, local'[c])
  <2>1. r.source[c].commit.work \in Nat /\ r.source[c].commit.work <= outside /\ c \in Branches
      BY <1>8, HeadFields
  <2>2. CASE c = b
      BY <1>2, <1>4, <1>9, <2>1, <2>2 DEF Placed, PutAt
  <2>3. CASE c # b
      BY <1>5, <1>9, <2>1, <2>3 DEF Placed, PutAt
  <2> QED BY <2>2, <2>3
<1>10. \A r \in {disk, run} \ {None} : \A c \in Live(r) : Placed(r, c) => PutAt(r, c, local'[c])
    BY <1>9
<1>11. ASSUME run # None, b \in Live(run), run.newHead[b] # None PROVE local'[b] # run.newHead[b]
  <2>1. run.source[b].commit.work \in Nat /\ run.source[b].commit.work <= outside /\ Good(run)
      BY <1>8, <1>11, HeadFields
  <2>2. run.newHead[b].commit.work = run.source[b].commit.work
      BY <1>11, <2>1 DEF Good, Entry
  <2> QED BY <1>2, <1>4, <2>1, <2>2
<1> QED BY <1>5, <1>7, <1>10, <1>11

LEMMA CommitStands ==
  ASSUME IInv, Control, Hands, Follow, Moves, NEW b \in Branches, Commit(b)
  PROVE  Aside'
<1>1. UNCHANGED <<disk, run, pc, trailing, moving, pending, todo>>
    BY DEF Commit, proc, ghost
<1>2. /\ \A c \in Branches : c # b => local'[c] = local[c]
      /\ Lagging' = Lagging /\ b \notin Lagging
      /\ \A r \in {disk, run} \ {None} : \A c \in Live(r) : Placed(r, c) => PutAt(r, c, local'[c])
      /\ run # None /\ b \in Live(run) /\ run.newHead[b] # None => local'[b] # run.newHead[b]
    BY CommitPlaces
<1>3. \A c \in Branches : c # b => tree'[c] = tree[c]
    BY DEF Commit, IInv, Repo
<1>4. Lagging \subseteq Branches /\ \A c \in Lagging : local'[c] = local[c]
    BY <1>2 DEF Lagging
<1>5. disk # None /\ disk.aligned => \A c \in Movers(disk) : PutAt(disk, c, local'[c])
    BY <1>2 DEF Moves, Movers
<1>6. pc \in {"aligned", "finish", "align", "restore"} => /\ run # None /\ Played(run) /\ run.moved \subseteq Live(run)
                                                          /\ Movers(run) \subseteq Live(run) /\ Live(run) \subseteq Branches
    BY InMotion, AtWork
<1>7. Follow'
  <2>1. disk' # None => \A c \in Lagging' : c \in Going(disk)' /\ local'[c] = disk'.newHead[c]
      BY <1>1, <1>2, <1>4 DEF Follow, Going, Movers, Live
  <2>2. disk' # None /\ disk'.aligned => Lagging' = {}
      BY <1>1, <1>2 DEF Follow
  <2> QED BY <1>1, <1>2, <2>1, <2>2 DEF Follow
<1>8. Moves'
  <2>1. disk' # None /\ disk'.aligned => \A c \in Movers(disk)' : Placed(disk, c)'
      BY <1>1, <1>5 DEF Movers, Live, Placed, PutAt
  <2>2. pc' \in {"aligned", "finish"} => \A c \in Movers(run)' : Placed(run, c)'
    <3>1. pc \in {"aligned", "finish"} => \A c \in Movers(run) : PutAt(run, c, local'[c])
        BY <1>2, <1>6 DEF Moves
    <3> QED BY <1>1, <3>1 DEF Movers, Live, Placed, PutAt
  <2>3. pc' \in {"align", "restore"} =>
          LET bound == IF run.kind = "push" THEN moving ELSE Movers(run)
          IN  Lagging' \subseteq todo /\ todo \subseteq bound /\ \A c \in bound : Placed(run, c)'
    <3>1. SUFFICES ASSUME pc \in {"align", "restore"}
                   PROVE  LET bound == IF run.kind = "push" THEN moving ELSE Movers(run)
                          IN  Lagging \subseteq todo /\ todo \subseteq bound /\ \A c \in bound : Placed(run, c)'
        BY <1>1, <1>2
    <3> DEFINE bound == IF run.kind = "push" THEN moving ELSE Movers(run)
    <3>2. Lagging \subseteq todo /\ todo \subseteq bound /\ \A c \in bound : Placed(run, c)
        BY <3>1 DEF Moves
    <3>3. bound \subseteq Live(run)
      <4>1. pc = "restore" => run.kind = "push"
          BY InMotion
      <4>2. run.kind = "push" => moving \subseteq run.moved
          BY <3>1, <4>1 DEF Moves
      <4> QED BY <1>6, <3>1, <4>2
    <3> HIDE DEF bound
    <3>4. \A c \in bound : PutAt(run, c, local'[c])
        BY <1>2, <1>6, <3>1, <3>2, <3>3
    <3>5. \A c \in bound : Placed(run, c)'
        BY <1>1, <3>4 DEF Placed, PutAt
    <3> QED BY <3>2, <3>5 DEF bound
  <2>4. pc' \in {"align", "restore"} /\ run'.kind = "push" =>
          /\ \A c \in pending' \cap todo' : local'[c] = run'.newHead[c] => tree'[c] \in {None, run'.source[c]}
          /\ ~trailing' => Lagging' \subseteq pending'
    <3>1. SUFFICES ASSUME pc \in {"align", "restore"}, run.kind = "push"
                   PROVE  /\ \A c \in pending \cap todo : local'[c] = run.newHead[c] => tree'[c] \in {None, run.source[c]}
                          /\ ~trailing => Lagging \subseteq pending
        BY <1>1, <1>2
    <3>2. /\ \A c \in pending \cap todo : local[c] = run.newHead[c] => tree[c] \in {None, run.source[c]}
          /\ ~trailing => Lagging \subseteq pending
          /\ pending \subseteq moving /\ moving \subseteq run.moved
        BY <3>1 DEF Moves
    <3>3. ASSUME NEW c \in pending \cap todo, local'[c] = run.newHead[c] PROVE tree'[c] \in {None, run.source[c]}
      <4>1. c \in Live(run) /\ c \in Branches /\ run.newHead[c] # None
          BY <1>6, <3>1, <3>2, <3>3 DEF Played
      <4>2. c # b
          BY <1>2, <1>6, <3>1, <3>3, <4>1
      <4> QED BY <1>2, <1>3, <3>2, <3>3, <4>1, <4>2
    <3> QED BY <3>2, <3>3
  <2>5. /\ pc' = "refs" => /\ Lagging' \subseteq moving' /\ pending' \subseteq moving'
                           /\ \A c \in pending' : run'.source[c] # run'.newHead[c]
        /\ pc' \in {"refs", "restore"} \/ (pc' = "align" /\ run'.kind = "push") =>
              moving' \subseteq run'.moved /\ pending' \subseteq moving'
        /\ pc' = "restore" => pending' \subseteq todo'
        /\ pc' = "align" /\ run'.kind = "push" => \A c \in pending' \ todo' : \A d \in todo' : c \in Below(d)
      BY <1>1, <1>2 DEF Moves
  <2> QED BY <1>1, <2>1, <2>2, <2>3, <2>4, <2>5 DEF Moves, Movers, Live
<1> QED BY <1>7, <1>8 DEF Aside

LEMMA OutsideStands ==
  ASSUME IInv, Control, Hands, Follow, Moves,
         \/ Resolve \/ Land \/ UNCHANGED vars
         \/ \E b \in Branches : Commit(b) \/ Edit(b) \/ Discard(b) \/ Switch(b) \/ OtherPush(b)
  PROVE  Aside'
<1>1. CASE \E b \in Branches : Commit(b)
    BY <1>1, CommitStands
<1>2. CASE UNCHANGED <<local, tree, disk, run, pc, trailing, moving, pending, todo>>
    BY <1>2 DEF Aside, Follow, Moves, Lagging, Placed, Going, Movers, Live
<1>3. CASE \E b \in Branches : Switch(b)
  <2>1. PICK b \in Branches : Switch(b)
      BY <1>3
  <2>2. /\ pc \notin {"align", "restore"} /\ tree[b] \in {None, local[b]}
        /\ tree' = [tree EXCEPT ![b] = IF @ = None THEN local[b] ELSE None] /\ tree \in [Branches -> OrNone(Heads)]
        /\ UNCHANGED <<local, disk, run, pc, trailing, moving, pending, todo>>
      BY <2>1 DEF Switch, proc, ghost, IInv, Repo
  <2>3. Lagging' = Lagging
      BY <2>2 DEF Lagging
  <2>4. Follow'
      BY <2>2, <2>3 DEF Follow, Going, Movers, Live
  <2>5. Moves'
      BY <2>2, <2>3 DEF Moves, Placed, Movers, Live
  <2> QED BY <2>4, <2>5 DEF Aside
<1>4. Resolve \/ Land \/ UNCHANGED vars \/ (\E b \in Branches : Edit(b) \/ Discard(b) \/ OtherPush(b))
        => UNCHANGED <<local, tree, disk, run, pc, trailing, moving, pending, todo>>
    BY DEF Resolve, Land, Edit, Discard, OtherPush, vars, repo, proc, ghost
<1> QED BY <1>1, <1>2, <1>3, <1>4

LEMMA AsideKeeps ==
  ASSUME IInv, Control, Hands, Aside, [Next]_vars
  PROVE  Aside'
<1>1. Follow /\ Moves
    BY DEF Aside
<1>2. CASE Continue \/ Abort
    BY <1>1, <1>2, CommandStands
<1>3. CASE Replay \/ OpenConflict \/ SaveReplays \/ PinResolved \/ SaveResolved \/ CloseWorkspace
    BY <1>1, <1>3, ReplayStands, ConflictStands
<1>4. CASE \/ Sources \/ Landed
           \/ Recover("recover", "pin") \/ Recover("recoverPush", "publish") \/ Recover("recoverAbort", "settle")
    BY <1>1, <1>4, PlansStand, RecoverStands
<1>5. CASE \/ PinAll \/ Publish \/ Push("push", GotoOnly("stale")) \/ Push("repush", Exit) \/ Release
           \/ Released \/ Pushed \/ RecordReceipts \/ Receipted \/ Choose
    BY <1>1, <1>5, PushStands, NotesStand
<1>6. CASE Holders \/ MoveRefs \/ Align \/ Aligned \/ AlignFails \/ Restore
    BY <1>1, <1>6, HoldersStand, MoveRefsStands, AlignStands, AlignedStands, AlignFailsStands, RestoreStands
<1>7. CASE Apply \/ WriteRefs \/ WriteFails \/ SaveAligned
    BY <1>1, <1>7, WriteRefsStands, WritesStand
<1>8. CASE \/ Settle \/ Die
           \/ DropPins("complete", "clear") \/ DropPins("finish", "clear")
           \/ DropPins("dropAborted", "clearAborted") \/ DropPins("completeAborted", "clearCompleted")
           \/ Clear("clear", "done") \/ Clear("clearAborted", "aborted") \/ Clear("clearCompleted", "completed")
    BY <1>1, <1>8, EndsStand
<1>9. CASE \/ Resolve \/ Land \/ UNCHANGED vars
           \/ \E b \in Branches : Commit(b) \/ Edit(b) \/ Discard(b) \/ Switch(b) \/ OtherPush(b)
    BY <1>1, <1>9, OutsideStands
<1> QED BY <1>2, <1>3, <1>4, <1>5, <1>6, <1>7, <1>8, <1>9 DEF Next, Drive

-----------------------------------------------------------------------------
\* Where a resolved head is.

\* q asks no more of the pins and receipts than r does.
AsksNoMore(q, r) ==
    /\ q.source = r.source /\ q.resolved = r.resolved /\ q.landed = r.landed
    /\ (r.receipted => q.receipted) /\ (r.aligned => q.aligned)
    /\ q.receipted => r.receipted /\ q.newHead = r.newHead

LEMMA KeptStays ==
  ASSUME Kept, UNCHANGED <<pins, kept, receipt>>,
         disk' = None \/ (disk # None /\ AsksNoMore(disk', disk)),
         pc' \in {"resolved", "dropAborted", "receipted"} => UNCHANGED <<pc, run>>
  PROVE  Kept'
<1>1. disk' # None => \A b \in disk'.resolved \cap Live(disk') : Somewhere(disk, b)'
  <2>1. SUFFICES ASSUME disk' # None, NEW b \in disk'.resolved \cap Live(disk')
                 PROVE  Somewhere(disk, b)'
      OBVIOUS
  <2>2. disk # None /\ AsksNoMore(disk', disk) /\ b \in disk.resolved \cap Live(disk)
      BY <2>1 DEF AsksNoMore, Live
  <2>3. Somewhere(disk, b)
      BY <2>2 DEF Kept
  <2> QED BY <2>2, <2>3 DEF Somewhere, AsksNoMore
<1>2. disk' # None /\ disk'.receipted => \A b \in Live(disk') : receipt'[b].head = disk'.newHead[b]
    BY DEF Kept, AsksNoMore, Live
<1> QED BY <1>1, <1>2 DEF Kept, Live

LEMMA KeptExits ==
  ASSUME Kept, Exit
  PROVE  Kept'
<1>1. UNCHANGED <<pins, kept, receipt, disk>> /\ pc' = "idle"
    BY DEF Exit, Idle, repo
<1> QED BY <1>1, KeptStays DEF AsksNoMore

LEMMA KeptGoes ==
  ASSUME Kept, NEW step, step \notin {"resolved", "dropAborted", "receipted"}, GotoOnly(step)
  PROVE  Kept'
<1>1. UNCHANGED <<pins, kept, receipt, disk>> /\ pc' = step
    BY DEF GotoOnly, Goto, repo
<1> QED BY <1>1, KeptStays DEF AsksNoMore

\* What was resolved of a run in hand, and its work.
LEMMA ResolvedByHand ==
  ASSUME IInv, Hands, run # None, NEW b \in run.resolved \cap Live(run)
  PROVE  /\ b \in Branches /\ run.source[b].commit.work \in Nat
         /\ LET h == IF run.newHead[b] = None THEN run.head[b] ELSE run.newHead[b]
            IN  h \in Heads /\ h # None /\ h.commit.by = "hand" /\ h.commit.work = run.source[b].commit.work
<1>1. run \in Runs /\ Good(run) /\ ByHand(run, outside)
    BY DEF IInv, InHand, Good, Hands
<1>2. b \in Branches /\ Entry(run, b)
    BY <1>1, RunFields DEF Good
<1>3. run.source[b].commit.work \in Nat
    BY <1>1, <1>2, RunFields, HeadFields
<1>4. \A h \in Own : h \in Heads /\ h # None
    BY NoneIsNone DEF Own
<1> DEFINE h == IF run.newHead[b] = None THEN run.head[b] ELSE run.newHead[b]
<1>5. h \in Own /\ h.commit.work = run.source[b].commit.work
    BY <1>2 DEF Entry, OrNone
<1>6. h.commit.by = "hand"
    BY <1>1 DEF ByHand
<1> QED BY <1>2, <1>3, <1>4, <1>5, <1>6

\* A step that keeps some pins and moves others onto heads that carry what was
\* resolved.
LEMMA KeptPins ==
  ASSUME Kept, UNCHANGED <<kept, receipt, disk>>, pc' \notin {"resolved", "dropAborted", "receipted"},
         disk # None => \A b \in disk.resolved \cap Live(disk) :
                          \/ pins'[b] = pins[b]
                          \/ ByHandAt(pins'[b], disk.source[b].commit.work)
                          \/ disk.receipted \/ disk.aligned
                          \/ \E g \in kept[b] : ByHandAt(g, disk.source[b].commit.work)
  PROVE  Kept'
<1>1. disk' # None => \A b \in disk'.resolved \cap Live(disk') : Somewhere(disk, b)'
  <2>1. SUFFICES ASSUME disk # None, NEW b \in disk.resolved \cap Live(disk)
                 PROVE  Somewhere(disk, b)'
      OBVIOUS
  <2>2. Somewhere(disk, b)
      BY <2>1 DEF Kept
  <2> QED BY <2>1, <2>2 DEF Somewhere
<1> QED BY <1>1 DEF Kept, Live

LEMMA ReplayKept ==
  ASSUME IInv, Control, Hands, Kept, Replay \/ OpenConflict \/ SaveReplays
  PROVE  Kept'
<1>1. pc = "drive" /\ run \in Runs /\ run # None /\ disk # None /\ Beside(run, disk) /\ Good(run)
      /\ (Played(disk) => run = disk) /\ Flags(disk)
  <2>1. pc = "drive"
      BY DEF Replay, OpenConflict, SaveReplays, At
  <2> QED BY <2>1, AtWork, InHandIsSaved DEF Control, Synced
<1>2. pc' \notin {"resolved", "dropAborted", "receipted"}
    BY <1>1 DEF Replay, OpenConflict, SaveReplays, SaveTo, Idle, Goto
<1>3. CASE Replay
  <2> DEFINE b == NextBranch
             h == [run.head[b] EXCEPT !.on = NewBase(run, b), !.commit.copy = 0]
  <2>1. UNCHANGED <<kept, receipt, disk>> /\ Unplayed /\ (pins' = pins \/ pins' = [pins EXCEPT ![b] = h])
      BY <1>3 DEF Replay
  <2>2. b \in Branches /\ b \in Live(run) /\ NewBase(run, b) \in Base /\ run.head[b] \in Own /\ run.newHead[b] = None
      BY <1>1, <2>1, NextIsLowest DEF Good, Entry
  <2>3. h \in Own /\ h.commit.work = run.head[b].commit.work /\ h.commit.by = run.head[b].commit.by
    <3>1. h.commit.by = run.head[b].commit.by
        BY <2>2 DEF Own, Heads, Patch
    <3> QED BY <2>2, <3>1, ReplayedHead
  <2> HIDE DEF b, h
  <2>4. pins \in [Branches -> OrNone(Heads)]
      BY DEF IInv, Repo
  <2>5. ASSUME NEW c \in disk.resolved \cap Live(disk)
        PROVE  pins'[c] = pins[c] \/ ByHandAt(pins'[c], disk.source[c].commit.work)
    <3>1. c \in run.resolved \cap Live(run) /\ run.source = disk.source /\ c \in Branches
        BY <1>1 DEF Beside, SameStart, Live
    <3>2. CASE c # b
        BY <2>1, <2>4, <3>1, <3>2
    <3>3. CASE c = b /\ pins' = [pins EXCEPT ![b] = h]
      <4>1. pins'[c] = h
          BY <2>2, <2>4, <3>3
      <4>2. /\ run.head[b].commit.by = "hand" /\ run.head[b].commit.work = run.source[b].commit.work
            /\ run.source[b].commit.work \in Nat
          BY <1>1, <2>2, <3>1, <3>3, ResolvedByHand
      <4>3. h # None
          BY <2>3, NoneIsNone
      <4> QED BY <2>3, <3>1, <3>3, <4>1, <4>2, <4>3 DEF ByHandAt
    <3> QED BY <2>1, <3>2, <3>3
  <2> QED BY <1>2, <2>1, <2>5, KeptPins
<1>4. CASE OpenConflict
  <2>1. PICK b \in OrNone(Branches) : disk' = [run EXCEPT !.conflict = b]
      BY <1>1, <1>4, NextIsLowest DEF OpenConflict, OrNone
  <2>2. ~Played(disk)
      BY <1>1, <1>4 DEF OpenConflict, Unplayed, Played, Beside, SameStart, Live
  <2>3. ~disk.receipted /\ ~disk.aligned
      BY <1>1, <2>2 DEF Flags
  <2>4. SamePlan(disk', run) /\ disk'.receipted = run.receipted
      BY <1>1, <2>1, ConflictRun
  <2>5. AsksNoMore(disk', disk)
      BY <1>1, <2>3, <2>4 DEF AsksNoMore, Beside, SameStart, SamePlan
  <2>6. UNCHANGED <<pins, kept, receipt>>
      BY <1>4 DEF OpenConflict
  <2> QED BY <1>1, <1>2, <2>5, <2>6, KeptStays
<1>5. CASE SaveReplays
  <2>1. disk' = run /\ UNCHANGED <<pins, kept, receipt>>
      BY <1>5 DEF SaveReplays, SaveTo, Save
  <2>2. disk.receipted => run = disk
      BY <1>1 DEF Flags
  <2>3. AsksNoMore(disk', disk)
      BY <1>1, <2>1, <2>2 DEF AsksNoMore, Beside, SameStart
  <2> QED BY <1>1, <1>2, <2>1, <2>3, KeptStays
<1> QED BY <1>3, <1>4, <1>5

LEMMA ConflictKept ==
  ASSUME IInv, Control, Hands, Kept, PinResolved \/ SaveResolved \/ CloseWorkspace
  PROVE  Kept'
<1> DEFINE b == run.conflict
           h == HandMade(b)
<1>1. /\ pc \in {"resume", "resolved"} /\ run \in Runs /\ run = disk /\ run # None /\ Good(run) /\ NotedAt(run, pc)
      /\ Stage(run, pc) /\ Flags(run)
  <2>1. pc \in {"resume", "resolved"}
      BY DEF PinResolved, SaveResolved, CloseWorkspace, At
  <2> QED BY <2>1, AtWork, InHandIsSaved
<1>2. b \in Live(run) /\ b \in Branches /\ \A c \in Below(b) \cap Live(run) : run.newHead[c] # None
    BY <1>1, AtWork DEF Stage, Good, Shape, OrNone
<1>3. run.head[b] \in Own /\ NewBase(run, b) \in Base /\ run.head[b].commit.work = run.source[b].commit.work
    BY <1>1, <1>2, NewBaseIsBase DEF Good, Entry
<1>4. h \in Heads /\ h # None /\ h.commit.by = "hand" /\ h.commit.work = run.source[b].commit.work
  <2>1. h \in Own /\ h.commit.work = run.source[b].commit.work
      BY <1>3, ReplayedHead DEF HandMade
  <2>2. h.commit.by = "hand"
      BY <1>3 DEF HandMade, Own, Heads, Patch
  <2> QED BY <2>1, <2>2, NoneIsNone DEF Own
<1>5. run.source[b].commit.work \in Nat
    BY <1>1, <1>2, RunFields, HeadFields
<1>6. ByHandAt(h, run.source[b].commit.work)
    BY <1>4, <1>5 DEF ByHandAt
<1>7. pins \in [Branches -> OrNone(Heads)]
    BY DEF IInv, Repo
<1> HIDE DEF h
<1>8. CASE PinResolved
  <2>1. /\ pins' = [pins EXCEPT ![b] = h] /\ pc' = "resolved" /\ UNCHANGED <<kept, receipt, disk, run>>
      BY <1>8 DEF PinResolved, Goto, h
  <2>2. ASSUME NEW c \in disk.resolved \cap Live(disk) PROVE Somewhere(disk, c)'
    <3>1. Somewhere(disk, c)
        BY <1>1 DEF Kept
    <3>2. CASE c = b
        BY <1>1, <1>2, <1>6, <1>7, <2>1, <3>2 DEF Somewhere
    <3>3. CASE c # b
        BY <1>7, <2>1, <3>1, <3>3 DEF Somewhere
    <3> QED BY <3>2, <3>3
  <2>3. ByHandAt(pins'[run'.conflict], run'.source[run'.conflict].commit.work)
      BY <1>2, <1>6, <1>7, <2>1
  <2> QED BY <2>1, <2>2, <2>3 DEF Kept, Live
<1>9. CASE SaveResolved
  <2>1. /\ disk' = [run EXCEPT !.newHead[b] = h, !.resolved = @ \cup {b}] /\ pc = "resolved" /\ pc' = "resume"
        /\ UNCHANGED <<pins, kept, receipt>>
      BY <1>9 DEF SaveResolved, Save, Goto, At, h
  <2>2. ByHandAt(pins[b], run.source[b].commit.work)
      BY <2>1 DEF Kept
  <2> HIDE DEF b
  <2>3. h \in OrNone(Heads) /\ run \in Runs
      BY <1>1, <1>4 DEF OrNone
  <2>4. SameStart(disk', run) /\ Notes(disk', run) /\ disk'.resolved = run.resolved \cup {b}
      BY <1>2, <2>1, <2>3, ResolvedRun, NotesOf
  <2>5. run.newHead[b] = None
      BY <1>1, <2>1 DEF NotedAt, b
  <2>6. ~run.receipted
      BY <1>1, <1>2, <2>5 DEF Flags, Played
  <2>7. ASSUME NEW c \in disk'.resolved \cap Live(disk') PROVE Somewhere(disk, c)'
    <3>1. c \in Live(run) /\ (c \in run.resolved \/ c = b)
        BY <2>4 DEF SameStart, Live
    <3>2. CASE c = b
        BY <2>1, <2>2, <2>4, <3>2 DEF Somewhere, SameStart
    <3>3. CASE c # b
      <4>1. Somewhere(disk, c)
          BY <1>1, <3>1, <3>3 DEF Kept
      <4> QED BY <1>1, <2>1, <2>4, <4>1 DEF Somewhere, SameStart, Notes
    <3> QED BY <3>2, <3>3
  <2>8. ~disk'.receipted
      BY <2>4, <2>6 DEF SameStart
  <2> QED BY <2>1, <2>7, <2>8 DEF Kept, Live
<1>10. CASE CloseWorkspace
  <2>1. /\ disk' = [run EXCEPT !.conflict = None] /\ None \in OrNone(Branches) /\ pc' = "drive"
        /\ UNCHANGED <<pins, kept, receipt>>
      BY <1>10 DEF CloseWorkspace, Save, OrNone, Goto
  <2>2. SamePlan(disk', run) /\ disk'.receipted = run.receipted /\ Notes(disk', run)
    <3>1. run \in Runs
        BY <1>1
    <3> QED BY <2>1, <3>1, ConflictRun, NotesOf
  <2>3. AsksNoMore(disk', disk)
      BY <1>1, <2>2 DEF AsksNoMore, SamePlan, Notes
  <2> QED BY <1>1, <2>1, <2>3, KeptStays
<1> QED BY <1>8, <1>9, <1>10

LEMMA PlansKept ==
  ASSUME IInv, Control, Hands, Kept, Sources \/ Landed
  PROVE  Kept'
<1>1. /\ pc \in {"sources", "landed"} /\ run \in Runs /\ run = disk /\ disk # None /\ Flags(run) /\ NotedAt(run, pc)
  <2>1. pc \in {"sources", "landed"}
      BY DEF Sources, Landed, At
  <2> QED BY <2>1, AtWork, InHandIsSaved
<1>2. run.kind = "push" /\ MovedSources(run) \in SUBSET Branches
    BY <1>1, AtWork DEF NotedAt, PushSteps, MovedSources
<1>3. CASE \E fresh \in SUBSET Branches : ~run.publishing /\ Replan(fresh)
  <2>1. PICK fresh \in SUBSET Branches : ~run.publishing /\ Replan(fresh)
      BY <1>3
  <2>2. CASE Exit
      BY <2>2, KeptExits
  <2>3. CASE ~Exit
    <3> DEFINE q == NextPlan(fresh)
    <3>1. /\ disk' = q /\ pc' = "drive" /\ UNCHANGED <<kept, receipt>>
          /\ pins' = [b \in Branches |-> IF b \in run.landed THEN None ELSE pins[b]]
        BY <2>1, <2>3, Replans
    <3>2. /\ q.source = NewSource(fresh) /\ q.landed = run.landed \cup merged
          /\ q.resolved = run.resolved \ (fresh \cup run.landed) /\ ~q.receipted
        BY PlanFields
    <3> HIDE DEF q
    <3>3. ~run.receipted /\ ~run.aligned
        BY <1>1, <1>2, <2>1 DEF Flags
    <3>4. ASSUME NEW b \in q.resolved \cap Live(q) PROVE Somewhere(disk, b)'
      <4>1. b \in Branches /\ b \in run.resolved \cap Live(run) /\ b \notin fresh /\ b \notin run.landed
          BY <3>2 DEF Live
      <4>2. Somewhere(run, b)
          BY <1>1, <4>1 DEF Kept
      <4>3. q.source[b] = run.source[b] /\ pins'[b] = pins[b]
          BY <3>1, <3>2, <4>1 DEF NewSource
      <4> QED BY <3>1, <3>3, <4>2, <4>3 DEF Somewhere
    <3> QED BY <3>1, <3>2, <3>4 DEF Kept, Live
  <2> QED BY <2>2, <2>3
<1>4. CASE GotoOnly("choose") \/ GotoOnly("recover") \/ GotoOnly("recoverPush")
    BY <1>4, KeptGoes
<1> QED BY <1>1, <1>2, <1>3, <1>4 DEF Sources, Landed

\* A step that notes what was done without touching a ref.
LEMMA KeptNotes ==
  ASSUME IInv, Control, Kept, pc \notin {"idle", "drive", "released"}, NEW step,
         step \notin {"resolved", "dropAborted", "receipted"}, NEW q, SaveTo(q, step),
         SamePlan(q, run), q.receipted = run.receipted, run.aligned => q.aligned
  PROVE  Kept'
<1>1. disk' = q /\ pc' = step /\ UNCHANGED <<pins, kept, receipt>>
    BY DEF SaveTo, Save, Goto
<1>2. run = disk /\ disk # None
    BY InHandIsSaved
<1>3. AsksNoMore(disk', disk)
    BY <1>1, <1>2 DEF AsksNoMore, SamePlan
<1> QED BY <1>1, <1>2, <1>3, KeptStays

LEMMA RecoverKept ==
  ASSUME IInv, Control, Kept,
         Recover("recover", "pin") \/ Recover("recoverPush", "publish") \/ Recover("recoverAbort", "settle")
  PROVE  Kept'
<1>1. PICK from \in {"recover", "recoverPush", "recoverAbort"}, to \in {"pin", "publish", "settle"} :
        Recover(from, to)
    OBVIOUS
<1>2. pc \in {"recover", "recoverPush", "recoverAbort"} /\ run \in Runs
  <2>1. pc \in {"recover", "recoverPush", "recoverAbort"}
      BY <1>1 DEF Recover, At
  <2> QED BY <2>1, AtWork
<1> DEFINE q == [run EXCEPT !.pushed = TRUE]
<1>3. CASE SaveTo(q, to)
  <2>1. SamePlan(q, run) /\ q.receipted = run.receipted /\ q.aligned = run.aligned
    <3>1. run \in Runs
        BY <1>2
    <3> QED BY <3>1, NotedPushed, PushedNote
  <2> HIDE DEF q
  <2> QED BY <1>2, <1>3, <2>1, KeptNotes
<1>4. CASE GotoOnly(to)
    BY <1>4, KeptGoes
<1> QED BY <1>1, <1>3, <1>4 DEF Recover

LEMMA PinAllKept ==
  ASSUME IInv, Control, Hands, Kept, PinAll
  PROVE  Kept'
<1>1. pc = "pin" /\ run = disk /\ run # None /\ Played(run)
  <2>1. pc = "pin"
      BY DEF PinAll, At
  <2> QED BY <2>1, AtWork, InHandIsSaved DEF Stage
<1>2. CASE Exit
    BY <1>2, KeptExits
<1>3. CASE ~Exit
  <2>1. /\ pins' = [b \in Branches |-> IF b \in Live(run) THEN run.newHead[b] ELSE pins[b]]
        /\ pc' = "landed" /\ UNCHANGED <<kept, receipt, disk>>
      BY <1>3 DEF PinAll, Goto
  <2>2. ASSUME NEW b \in disk.resolved \cap Live(disk)
        PROVE  ByHandAt(pins'[b], disk.source[b].commit.work)
    <3>1. /\ b \in Branches /\ run.newHead[b] # None /\ run.newHead[b].commit.by = "hand"
          /\ run.newHead[b].commit.work = run.source[b].commit.work /\ run.source[b].commit.work \in Nat
        BY <1>1, ResolvedByHand DEF Played
    <3>2. pins'[b] = run.newHead[b]
        BY <1>1, <2>1, <3>1
    <3> QED BY <1>1, <3>1, <3>2 DEF ByHandAt
  <2> QED BY <2>1, <2>2, KeptPins
<1> QED BY <1>2, <1>3

\* What is adopted carries what was resolved.
LEMMA ReleaseKept ==
  ASSUME IInv, Control, Hands, Kept, Release
  PROVE  Kept'
<1>1. pc = "stale" /\ run = disk /\ run # None /\ Played(run)
  <2>1. pc = "stale"
      BY DEF Release, At
  <2> QED BY <2>1, AtWork, InHandIsSaved DEF Stage
<1>2. CASE GotoOnly("pushed")
    BY <1>2, KeptGoes
<1>3. ASSUME NEW bs \in SUBSET Adopted, Adopt(bs), UNCHANGED <<kept, receipt, disk>>, pc' \in {"idle", "released"}
      PROVE  Kept'
  <2>1. ASSUME NEW b \in disk.resolved \cap Live(disk)
        PROVE  pins'[b] = pins[b] \/ ByHandAt(pins'[b], disk.source[b].commit.work)
    <3>1. /\ b \in Branches /\ run.newHead[b] # None /\ run.newHead[b].commit.by = "hand"
          /\ run.newHead[b].commit.work = run.source[b].commit.work /\ run.source[b].commit.work \in Nat
        BY <1>1, ResolvedByHand DEF Played
    <3>2. CASE b \in bs
      <4>1. pins'[b] = remote[b] /\ SamePatches(remote[b], run.newHead[b])
          BY <1>3, <3>1, <3>2 DEF Adopt, Adopted, Equivalent
      <4> QED BY <1>1, <3>1, <4>1 DEF SamePatches, ByHandAt
    <3>3. CASE b \notin bs
        BY <1>3, <3>1, <3>3 DEF Adopt
    <3> QED BY <3>2, <3>3
  <2> QED BY <1>3, <2>1, KeptPins
<1>4. CASE Adopt(Adopted \cap UpTo(LowestOf(Refused))) /\ Idle /\ UNCHANGED <<kept, receipt, disk>>
    BY <1>3, <1>4 DEF Idle
<1>5. CASE Adopt(Adopted) /\ pc' = "released" /\ UNCHANGED <<kept, receipt, disk>>
    BY <1>3, <1>5
<1> QED BY <1>2, <1>4, <1>5 DEF Release, Goto

LEMMA PushKept ==
  ASSUME IInv, Control, Kept, Publish \/ Push("push", GotoOnly("stale")) \/ Push("repush", Exit) \/ Pushed
  PROVE  Kept'
<1>1. /\ pc \in {"publish", "push", "repush", "pushed"} /\ run \in Runs /\ run = disk
  <2>1. pc \in {"publish", "push", "repush", "pushed"}
      BY DEF Publish, Push, Pushed, At
  <2> QED BY <2>1, AtWork, InHandIsSaved
<1>2. CASE Exit \/ GotoOnly("receipts") \/ GotoOnly("stale")
    BY <1>2, KeptExits, KeptGoes
<1>3. CASE Publish
  <2> DEFINE q == [run EXCEPT !.publishing = TRUE, !.targets = run.newHead]
  <2>1. CASE disk' = q /\ pc' = "push" /\ UNCHANGED <<pins, kept, receipt>>
    <3>1. SamePlan(q, run) /\ q.receipted = run.receipted /\ q.aligned = run.aligned
      <4>1. run \in Runs
          BY <1>1
      <4> QED BY <4>1, NotedPublishing, PublishingNote
    <3> HIDE DEF q
    <3>2. AsksNoMore(disk', disk) /\ disk # None
        BY <1>1, <2>1, <3>1, NoneIsNone DEF AsksNoMore, SamePlan
    <3> QED BY <2>1, <3>2, KeptStays
  <2> QED BY <1>2, <1>3, <2>1 DEF Publish, Save, Goto
<1>4. CASE Push("push", GotoOnly("stale")) \/ Push("repush", Exit)
  <2>1. CASE UNCHANGED <<pins, kept, receipt, disk>> /\ pc' \in {"pushed", "idle"}
      BY <2>1, KeptStays DEF AsksNoMore
  <2> QED BY <1>2, <1>4, <2>1 DEF Push, Goto, Idle, repo
<1>5. CASE Pushed
  <2> DEFINE q == [run EXCEPT !.pushed = TRUE]
  <2>1. SamePlan(q, run) /\ q.receipted = run.receipted /\ q.aligned = run.aligned
    <3>1. run \in Runs
        BY <1>1
    <3> QED BY <3>1, NotedPushed, PushedNote
  <2>2. SaveTo(q, "receipts")
      BY <1>5 DEF Pushed
  <2> HIDE DEF q
  <2> QED BY <1>1, <2>1, <2>2, KeptNotes
<1> QED BY <1>3, <1>4, <1>5

LEMMA ReceiptsKept ==
  ASSUME IInv, Control, Kept, Released \/ RecordReceipts \/ Receipted \/ Choose
  PROVE  Kept'
<1>1. /\ pc \in {"released", "receipts", "receipted", "choose"} /\ run \in Runs /\ disk # None
      /\ (pc # "released" => run = disk) /\ NotedAt(run, pc) /\ Beside(run, disk) /\ Flags(disk) /\ Live(run) \subseteq Branches
  <2>1. pc \in {"released", "receipts", "receipted", "choose"}
      BY DEF Released, RecordReceipts, Receipted, Choose, At
  <2> QED BY <2>1, AtWork, InHandIsSaved
<1>2. CASE Released
  <2> DEFINE q == [run EXCEPT !.targets = run.newHead]
  <2>1. SamePlan(q, run) /\ q.receipted = run.receipted /\ Notes(q, run)
      BY <1>1, NotedTargets, NotesOf
  <2>2. PICK step \in {"pushed", "repush"} : SaveTo(q, step)
      BY <1>2 DEF Released
  <2> HIDE DEF q
  <2>3. disk' = q /\ pc' = step /\ UNCHANGED <<pins, kept, receipt>>
      BY <2>2 DEF SaveTo, Save, Goto
  <2>4. ~disk.receipted
      BY <1>1, <1>2 DEF Released, At, NotedAt, Beside, Flags
  <2>5. AsksNoMore(disk', disk)
      BY <1>1, <2>1, <2>3, <2>4 DEF AsksNoMore, Beside, SameStart, SamePlan, Notes
  <2> QED BY <1>1, <2>3, <2>5, KeptStays
<1>3. CASE RecordReceipts
  <2>1. /\ receipt' = [b \in Branches |-> IF b \in Live(run) THEN Receipt(run.source[b], run.newHead[b]) ELSE receipt[b]]
        /\ pc' = "receipted" /\ UNCHANGED <<pins, kept, disk, run>> /\ run = disk
      BY <1>1, <1>3 DEF RecordReceipts, Goto, At
  <2>2. \A b \in Live(run) : receipt'[b].head = run.newHead[b]
      BY <1>1, <2>1 DEF Receipt
  <2>3. \A b \in disk.resolved \cap Live(disk) : Somewhere(disk, b)'
      BY <1>1, <2>1 DEF Kept, Somewhere
  <2> QED BY <2>1, <2>2, <2>3 DEF Kept, Live
<1>4. CASE Receipted
  <2> DEFINE q == [run EXCEPT !.receipted = TRUE]
  <2>1. SamePlan(q, run) /\ q.receipted
    <3>1. run \in Runs
        BY <1>1
    <3> QED BY <3>1, NotedReceipted
  <2>2. disk' = q /\ pc' = "choose" /\ UNCHANGED <<pins, kept, receipt>> /\ pc = "receipted"
      BY <1>4 DEF Receipted, At, SaveTo, Save, Goto
  <2> HIDE DEF q
  <2>3. \A b \in Live(q) : receipt[b].head = q.newHead[b]
      BY <2>1, <2>2 DEF Kept, SamePlan, Live
  <2>4. \A b \in disk'.resolved \cap Live(disk') : Somewhere(disk, b)'
      BY <2>1, <2>2 DEF Somewhere
  <2> QED BY <2>2, <2>3, <2>4 DEF Kept, Live
<1>5. CASE Choose
  <2>1. CASE GotoOnly("holders")
      BY <2>1, KeptGoes
  <2>2. CASE SaveTo([run EXCEPT !.sourcesMoving = TRUE, !.moved = Movers(run) \ Stays], "holders")
    <3> DEFINE bs == Movers(run) \ Stays
               q  == [run EXCEPT !.sourcesMoving = TRUE, !.moved = bs]
    <3>1. bs \in SUBSET Branches
        BY <1>1 DEF Movers
    <3>2. SaveTo(q, "holders")
        BY <2>2
    <3> HIDE DEF bs
    <3>3. SamePlan(q, run) /\ q.receipted = run.receipted /\ Notes(q, run)
      <4>1. run \in Runs
          BY <1>1
      <4> QED BY <3>1, <4>1, ChosenRun, NotesOf
    <3>4. pc = "choose"
        BY <1>5 DEF Choose, At
    <3> HIDE DEF q
    <3> QED BY <3>2, <3>3, <3>4, KeptNotes DEF Notes
  <2> QED BY <1>5, <2>1, <2>2 DEF Choose
<1> QED BY <1>2, <1>3, <1>4, <1>5

LEMMA MovesKept ==
  ASSUME IInv, Control, Kept, Holders \/ MoveRefs \/ Align \/ Aligned \/ AlignFails \/ Restore
  PROVE  Kept'
<1>1. pc' \notin {"resolved", "dropAborted", "receipted"}
  <2>1. pc \in {"holders", "refs", "align", "restore"}
      BY DEF Holders, MoveRefs, Align, Aligned, AlignFails, Restore, At
  <2> QED BY <2>1 DEF Holders, MoveRefs, Align, Aligned, AlignFails, Restore, Exit, Idle, GotoOnly, Goto
<1>2. CASE UNCHANGED <<pins, kept, receipt, disk>>
    BY <1>1, <1>2, KeptStays DEF AsksNoMore
<1>3. CASE UNCHANGED <<pins, kept, disk>> /\ \A b \in Branches : receipt'[b].head = receipt[b].head
  <2>1. disk # None => Live(disk) \subseteq Branches
      BY RunFields DEF IInv, Saved, Good
  <2>2. disk # None /\ disk.receipted => \A b \in Live(disk) : receipt'[b].head = disk.newHead[b]
      BY <1>3, <2>1 DEF Kept
  <2>3. disk # None => \A b \in disk.resolved \cap Live(disk) : Somewhere(disk, b)'
      BY <1>3 DEF Kept, Somewhere
  <2> QED BY <1>1, <1>3, <2>2, <2>3 DEF Kept, Live
<1>4. CASE Holders \/ Align \/ Aligned \/ AlignFails
    BY <1>2, <1>4 DEF Holders, Align, Aligned, AlignFails, Exit, GotoOnly, repo
<1>5. CASE MoveRefs
    BY <1>2, <1>3, <1>5 DEF MoveRefs, Exit, repo, Receipt
<1>6. CASE Restore
    BY <1>2, <1>3, <1>6 DEF Restore, Receipt
<1> QED BY <1>4, <1>5, <1>6

LEMMA WritesKept ==
  ASSUME IInv, Control, Kept, Apply \/ WriteRefs \/ WriteFails \/ SaveAligned
  PROVE  Kept'
<1>1. pc \in {"apply", "write", "rewrite", "aligned"} /\ run \in Runs /\ run = disk /\ disk # None
  <2>1. pc \in {"apply", "write", "rewrite", "aligned"}
      BY DEF Apply, WriteRefs, WriteFails, SaveAligned, At
  <2> QED BY <2>1, AtWork, InHandIsSaved
<1>2. CASE Exit \/ GotoOnly("rewrite")
    BY <1>2, KeptExits, KeptGoes
<1>3. CASE Apply
  <2>1. CASE SaveTo([run EXCEPT !.applied = TRUE], "write")
    <3> DEFINE q == [run EXCEPT !.applied = TRUE]
    <3>1. SamePlan(q, run) /\ q.receipted = run.receipted /\ q.aligned = run.aligned
      <4>1. run \in Runs
          BY <1>1
      <4> QED BY <4>1, NotedApplied, AppliedNote
    <3>2. SaveTo(q, "write")
        BY <2>1
    <3> HIDE DEF q
    <3> QED BY <1>1, <3>1, <3>2, KeptNotes
  <2> QED BY <1>2, <1>3, <2>1 DEF Apply
<1>4. CASE WriteRefs
  <2>1. UNCHANGED <<pins, kept, receipt, disk>> /\ pc' \in {"finish", "align"}
      BY <1>4 DEF WriteRefs, Goto
  <2> QED BY <2>1, KeptStays DEF AsksNoMore
<1>5. CASE WriteFails
  <2>1. CASE disk' = [run EXCEPT !.applied = FALSE] /\ Idle /\ UNCHANGED <<pins, kept, receipt>>
    <3>1. SamePlan(disk', run) /\ disk'.receipted = run.receipted /\ disk'.aligned = run.aligned
      <4>1. run \in Runs
          BY <1>1
      <4> QED BY <2>1, <4>1, NotedNotApplied, AppliedNote
    <3>2. AsksNoMore(disk', disk) /\ pc' = "idle"
        BY <1>1, <2>1, <3>1 DEF AsksNoMore, SamePlan, Idle
    <3> QED BY <1>1, <2>1, <3>2, KeptStays
  <2> QED BY <1>2, <1>5, <2>1 DEF WriteFails
<1>6. CASE SaveAligned
  <2> DEFINE q == [run EXCEPT !.aligned = TRUE]
  <2>1. SamePlan(q, run) /\ q.receipted = run.receipted /\ q.aligned
    <3>1. run \in Runs
        BY <1>1
    <3> QED BY <3>1, NotedAligned, AlignedNote
  <2>2. SaveTo(q, "finish")
      BY <1>6 DEF SaveAligned
  <2> HIDE DEF q
  <2> QED BY <1>1, <2>1, <2>2, KeptNotes
<1> QED BY <1>3, <1>4, <1>5, <1>6

\* The pins go when a receipt, the local branch or a kept head has what they had.
LEMMA EndsKept ==
  ASSUME IInv, Control, Hands, Kept,
         \/ Settle \/ Die
         \/ DropPins("complete", "clear") \/ DropPins("finish", "clear")
         \/ DropPins("dropAborted", "clearAborted") \/ DropPins("completeAborted", "clearCompleted")
         \/ Clear("clear", "done") \/ Clear("clearAborted", "aborted") \/ Clear("clearCompleted", "completed")
  PROVE  Kept'
<1>1. CASE Die \/ Clear("clear", "done") \/ Clear("clearAborted", "aborted") \/ Clear("clearCompleted", "completed")
  <2>1. UNCHANGED <<pins, kept, receipt>> /\ disk' \in {None, disk} /\ pc' = "idle"
      BY <1>1 DEF Die, Clear, Idle, repo
  <2> QED BY <2>1, KeptStays DEF AsksNoMore
<1>2. CASE \/ DropPins("complete", "clear") \/ DropPins("finish", "clear")
           \/ DropPins("dropAborted", "clearAborted") \/ DropPins("completeAborted", "clearCompleted")
  <2>1. /\ pc \in {"complete", "finish", "dropAborted", "completeAborted"}
        /\ pc' \in {"clear", "clearAborted", "clearCompleted"} /\ UNCHANGED <<kept, receipt, disk>>
      BY <1>2 DEF DropPins, At, Goto
  <2>2. run = disk /\ NotedAt(run, pc)
      BY <2>1, InHandIsSaved
  <2>3. CASE pc = "dropAborted"
    <3>1. \A b \in disk.resolved \cap Live(disk) : \E g \in kept[b] : ByHandAt(g, disk.source[b].commit.work)
        BY <2>2, <2>3 DEF Kept
    <3> QED BY <2>1, <3>1, KeptPins
  <2>4. CASE pc # "dropAborted"
    <3>1. disk.receipted \/ disk.aligned
        BY <2>1, <2>2, <2>4 DEF NotedAt
    <3> QED BY <2>1, <3>1, KeptPins
  <2> QED BY <2>3, <2>4
<1>3. CASE Settle
  <2>1. pc = "settle" /\ run = disk /\ run # None
    <3>1. pc = "settle"
        BY <1>3 DEF Settle, At
    <3> QED BY <3>1, AtWork, InHandIsSaved
  <2>2. CASE Exit \/ GotoOnly("completeAborted")
      BY <2>2, KeptExits, KeptGoes
  <2>3. CASE KeepResolved
    <3>1. /\ kept' = [b \in Branches |-> IF b \in run.resolved
                                         THEN kept[b] \cup {IF run.newHead[b] = None THEN run.head[b] ELSE run.newHead[b]}
                                         ELSE kept[b]]
          /\ UNCHANGED <<pins, receipt, disk, run>> /\ pc' = "dropAborted"
        BY <2>3 DEF KeepResolved, Goto
    <3>2. ASSUME NEW b \in run.resolved \cap Live(run)
          PROVE  \E g \in kept'[b] : ByHandAt(g, run.source[b].commit.work)
      <4> DEFINE h == IF run.newHead[b] = None THEN run.head[b] ELSE run.newHead[b]
      <4>1. h \in kept'[b]
          BY <2>1, <3>1, <3>2, ResolvedByHand
      <4>2. ByHandAt(h, run.source[b].commit.work)
          BY <2>1, ResolvedByHand DEF ByHandAt
      <4> QED BY <4>1, <4>2
    <3>3. \A b \in disk.resolved \cap Live(disk) : Somewhere(disk, b)'
        BY <2>1, <3>1, <3>2 DEF Somewhere
    <3> QED BY <2>1, <3>1, <3>2, <3>3 DEF Kept, Live
  <2> QED BY <1>3, <2>2, <2>3 DEF Settle
<1> QED BY <1>1, <1>2, <1>3

LEMMA KeptKeeps ==
  ASSUME IInv, Control, Hands, Kept, [Next]_vars
  PROVE  Kept'
<1>1. CASE Continue \/ Abort
  <2>1. UNCHANGED <<pins, kept, receipt, disk>> /\ pc' \in {"drive", "resume", "recoverAbort"}
      BY <1>1 DEF Continue, Abort, Goto, repo
  <2> QED BY <2>1, KeptStays DEF AsksNoMore
<1>2. CASE Replay \/ OpenConflict \/ SaveReplays \/ PinResolved \/ SaveResolved \/ CloseWorkspace
    BY <1>2, ReplayKept, ConflictKept
<1>3. CASE \/ Sources \/ Landed \/ PinAll
           \/ Recover("recover", "pin") \/ Recover("recoverPush", "publish") \/ Recover("recoverAbort", "settle")
    BY <1>3, PlansKept, PinAllKept, RecoverKept
<1>4. CASE \/ Publish \/ Push("push", GotoOnly("stale")) \/ Push("repush", Exit) \/ Release
           \/ Released \/ Pushed \/ RecordReceipts \/ Receipted \/ Choose
    BY <1>4, PushKept, ReleaseKept, ReceiptsKept
<1>5. CASE Holders \/ MoveRefs \/ Align \/ Aligned \/ AlignFails \/ Restore
    BY <1>5, MovesKept
<1>6. CASE Apply \/ WriteRefs \/ WriteFails \/ SaveAligned
    BY <1>6, WritesKept
<1>7. CASE \/ Settle \/ Die
           \/ DropPins("complete", "clear") \/ DropPins("finish", "clear")
           \/ DropPins("dropAborted", "clearAborted") \/ DropPins("completeAborted", "clearCompleted")
           \/ Clear("clear", "done") \/ Clear("clearAborted", "aborted") \/ Clear("clearCompleted", "completed")
    BY <1>7, EndsKept
<1>8. CASE \/ Resolve \/ Land \/ UNCHANGED vars
           \/ \E b \in Branches : Commit(b) \/ Edit(b) \/ Discard(b) \/ Switch(b) \/ OtherPush(b)
  <2>1. UNCHANGED <<pins, kept, receipt, disk, run, pc>>
      BY <1>8 DEF Resolve, Land, Commit, Edit, Discard, Switch, OtherPush, vars, repo, proc
  <2> QED BY <2>1, KeptStays DEF AsksNoMore
<1> QED BY <1>2, <1>3, <1>4, <1>5, <1>6, <1>7, <1>8, <1>1 DEF Next, Drive

-----------------------------------------------------------------------------
\* The invariant, and what follows from it.

LEMMA RefsInitially == Init => Refs
<1> SUFFICES ASSUME Init PROVE Refs
    OBVIOUS
<1>1. IInv
    BY Initially
<1>2. PICK k \in Kinds : disk = Run(k, local, remote, local)
    BY DEF Init
<1>3. run = disk /\ pc = "drive" /\ run # None /\ trailing = FALSE
    BY <1>1 DEF Init, IInv, InHand
<1>4. /\ disk.source = local /\ disk.resolved = {} /\ disk.moved = {} /\ ~disk.sourcesMoving /\ ~disk.publishing
      /\ ~disk.pushed /\ ~disk.receipted /\ ~disk.applied /\ ~disk.aligned
    BY <1>2 DEF Run
<1>5. \A b \in Branches : local[b].commit.by = "source" /\ local[b].commit.work <= outside
    BY DEF Init, FirstHead, FirstCommit
<1>6. Lagging = {}
    BY DEF Init, Lagging
<1>7. Control
    BY <1>3, <1>4 DEF Control, Synced, Beside, SameStart, SameMoves, NotedAt, PushSteps, WriteSteps, Flags
<1>8. Hands
    BY <1>3, <1>4, <1>5 DEF Hands, ByHand
<1>9. Follow /\ Moves
    BY <1>3, <1>4, <1>6 DEF Follow, Moves
<1>10. Kept
    BY <1>3, <1>4 DEF Kept
<1> QED BY <1>7, <1>8, <1>9, <1>10 DEF Refs

LEMMA RefsKeep ==
  ASSUME IInv, IInv', Refs, [Next]_vars
  PROVE  Refs'
<1>1. Control /\ Hands /\ Follow /\ Moves /\ Kept
    BY DEF Refs
<1>2. Control'
    BY <1>1, ControlKeeps
<1>3. Hands'
    BY <1>1, HandsKeep
<1>4. Follow' /\ Moves'
    BY <1>1, AsideKeeps DEF Aside
<1>5. Kept'
    BY <1>1, KeptKeeps
<1> QED BY <1>2, <1>3, <1>4, <1>5 DEF Refs

\* What a run notes never runs ahead of what it has done, and what it noted
\* last says where the resolved heads and the checkouts are.
THEOREM RefsInvariance == Spec => [](IInv /\ Refs)
<1>1. Init => IInv /\ Refs
    BY Initially, RefsInitially
<1>2. IInv /\ Refs /\ [Next]_vars => (IInv /\ Refs)'
    BY NextKeeps, RefsKeep
<1> QED BY <1>1, <1>2, PTL DEF Spec

LEMMA ResolvedIsKept ==
  ASSUME IInv, Refs
  PROVE  ResolvedKept
<1> SUFFICES ASSUME disk # None, NEW b \in disk.resolved \ disk.landed
             PROVE  LET h == IF disk.newHead[b] = None THEN disk.head[b] ELSE disk.newHead[b]
                    IN  Reachable(b, h)
    BY DEF ResolvedKept
<1> DEFINE h == IF disk.newHead[b] = None THEN disk.head[b] ELSE disk.newHead[b]
           n == disk.source[b].commit.work
<1>1. disk \in Runs /\ Good(disk) /\ Received(disk) /\ ByHand(disk, outside) /\ Flags(disk)
    BY DEF IInv, Saved, Good, Refs, Hands, Control
<1>2. b \in Branches /\ b \in disk.resolved \cap Live(disk) /\ Entry(disk, b) /\ n \in Nat
  <2>1. b \in Branches /\ b \in disk.resolved \cap Live(disk)
      BY <1>1, RunFields DEF Live
  <2> QED BY <1>1, <2>1, RunFields, HeadFields DEF Good
<1>3. h.commit.by = "hand" /\ h.commit.work = n /\ h # None
  <2>1. h.commit.by = "hand"
      BY <1>1, <1>2 DEF ByHand
  <2> QED BY <1>2, <2>1, NoneIsNone DEF Entry
<1>4. ASSUME NEW g, ByHandAt(g, n) PROVE Carries(g, h)
    BY <1>3, <1>4 DEF ByHandAt, Carries
<1>5. CASE ByHandAt(pins[b], n) \/ \E g \in kept[b] : ByHandAt(g, n)
    BY <1>4, <1>5 DEF Reachable
<1>6. CASE disk.receipted
  <2>1. h = disk.newHead[b] /\ receipt[b].head = disk.newHead[b] /\ receipt[b] # None
    <3>1. Played(disk)
        BY <1>1, <1>6 DEF Flags
    <3>2. receipt[b] \in Receipts
        BY <1>1, <1>2, <1>6 DEF Received
    <3>3. receipt[b].head = disk.newHead[b]
        BY <1>2, <1>6 DEF Refs, Kept
    <3> QED BY <1>2, <3>1, <3>2, <3>3, NoneIsNone DEF Played
  <2>2. Carries(receipt[b].head, h)
      BY <1>2, <1>3, <2>1 DEF Carries
  <2> QED BY <2>1, <2>2 DEF Reachable
<1>7. CASE disk.aligned
  <2>1. h = disk.newHead[b]
      BY <1>1, <1>2, <1>7 DEF Flags, Played
  <2>2. b \in Movers(disk)
      BY <1>1, <1>2, <1>3, <2>1 DEF ByHand, Movers
  <2>3. Placed(disk, b)
      BY <1>7, <2>2 DEF Refs, Moves
  <2>4. local[b] \in Heads /\ local[b] # None /\ local[b].commit.work \in Nat
      BY <1>2, NoneIsNone, HeadFields DEF IInv, Repo
  <2>5. Carries(local[b], h)
      BY <1>2, <1>3, <2>1, <2>3, <2>4 DEF Placed, Carries
  <2> QED BY <2>5 DEF Reachable
<1>8. Somewhere(disk, b)
    BY <1>2 DEF Refs, Kept
<1> QED BY <1>5, <1>6, <1>7, <1>8 DEF Somewhere

\* What a user resolved by hand stays reachable as long as the saved run says
\* that it was resolved: from the pins until they are dropped, then from the
\* receipts, the rewritten branch or the refs an abort keeps.
THEOREM ResolvedStays == Spec => []ResolvedKept
<1>1. IInv /\ Refs => ResolvedKept
    BY ResolvedIsKept
<1> QED BY <1>1, RefsInvariance, PTL

\* When no process moves branches, no checkout is left behind its branch,
\* unless a process died in the middle or said so.
THEOREM CheckoutsFollowed == Spec => []CheckoutsFollow
<1>1. Refs => CheckoutsFollow
    BY DEF Refs, Follow, Lagging, CheckoutsFollow, At
<1> QED BY <1>1, RefsInvariance, PTL
===============================================================================
