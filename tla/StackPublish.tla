---------------------------- MODULE StackPublish ----------------------------
(***************************************************************************)
(* One run of `ccx vcs stack rebase' from its saved plan to its end        *)
(* (internal/cli/stackpublish.go and stackrebase.go): the branches are     *)
(* replayed onto the trunk, pushed under leases, their receipts written,   *)
(* and the local branches moved onto what was published.  A run without a  *)
(* push (--no-push) rewrites the local branches at once.  Any step may be  *)
(* the last one of its process; `continue' takes up the saved run and      *)
(* `abort' settles it, while users commit and edit, others push to the     *)
(* remote and pull requests land.                                          *)
(*                                                                         *)
(* A head is its patches (work, which grows with each commit of the user,  *)
(* and by whose hand they got their form), the head or trunk they sit on,  *)
(* and a number that tells copies of one commit apart.  One process drives *)
(* the run at a time (StackClaims).                                        *)
(***************************************************************************)
EXTENDS Integers, Sequences, FiniteSets, SequencesExt

CONSTANTS
    Stack,        \* the branches of the run, bottom first
    Kinds,        \* whether runs push: a subset of {"push", "noPush"}
    Held,         \* the branches that have a checkout when the run starts
    Conflicting,  \* the branches whose patches may conflict with the trunk
    None,         \* no head, no branch, no run
    MaxOutside,   \* bound on what users and others do: commits, edits, pushes, landings
    MaxTrunk      \* bound on heads of the trunk

Branches == Range(Stack)

ASSUME StackAssumption == Stack \in Seq(Branches) \ {<<>>} /\ IsInjective(Stack)
ASSUME KindAssumption  == Kinds \subseteq {"push", "noPush"} /\ {Held, Conflicting} \subseteq SUBSET Branches
ASSUME BoundAssumption == MaxOutside \in Nat /\ MaxTrunk \in Nat \ {0}

UpTo(b)      == LET i == CHOOSE i \in DOMAIN Stack : Stack[i] = b IN Range(SubSeq(Stack, 1, i))
\* Mutant: the branch whose checkout did not follow is itself left out.
FromAbove(b) == Branches \ UpTo(b)
From(b)      == (Branches \ UpTo(b)) \cup {b}
LowestOf(bs) == CHOOSE b \in bs : UpTo(b) \cap bs = {b}

VARIABLES
  \* The repository.
    local,      \* the head of each local branch
    tree,       \* the head the checkout of a branch has its files and index at
    edited,     \* the branches whose checkout has uncommitted edits
    pins,       \* the replayed head of each branch, kept from collection
    kept,       \* refs/ccx/resolved: the resolved heads an abort kept
    receipt,    \* the publication receipt of each branch
    disk,       \* the saved run
    workspace,  \* the conflict workspace: "none", "open" or "resolved"
  \* The remote.
    remote,     \* the head of each branch
    trunk,      \* the head of the trunk
    merged,     \* the branches whose pull request has landed
  \* The process that drives the run.
    pc,         \* its next step
    run,        \* its copy of the run
    asks,       \* the lease of each branch it pushes
    moving, pending, todo,  \* the branches to move, those not there yet, those to align
  \* What the properties speak of.
    shown,      \* every head the remote has shown
    stops,      \* the branches whose conflict was resolved
    trailing,   \* a checkout may trail its branch: its process died, or said so
    ended,      \* how the run ended
    outside     \* what users and others have done so far

repo  == <<local, tree, edited, pins, kept, receipt, disk, workspace>>
world == <<remote, trunk, merged, shown, outside>>
proc  == <<pc, run, asks, moving, pending, todo>>
ghost == <<stops, trailing, ended>>
vars  == <<repo, world, proc, ghost>>

-----------------------------------------------------------------------------
\* Heads.

Patch == [work : 0..MaxOutside, by : {"source", "hand", "other"}, copy : 0..1]
Base  == [trunk : 0..MaxTrunk, below : Seq(Patch)]
Heads  == [commit : Patch, on : Base]

TrunkAt(n) == [trunk |-> n, below |-> <<>>]
OnTopOf(h) == [h.on EXCEPT !.below = Append(@, h.commit)]

\* The same patches, on whatever base.
SamePatches(h, g) == /\ h # None /\ g # None
                     /\ h.commit.work = g.commit.work /\ h.commit.by = g.commit.by

\* Everything h resolved by hand is still in g.
Carries(g, h) == g # None /\ g.commit.by = h.commit.by /\ g.commit.work >= h.commit.work

FirstCommit  == [work |-> 0, by |-> "source", copy |-> 0]
FirstHead(b) == [commit |-> FirstCommit,
                 on |-> [trunk |-> 0, below |-> [i \in 1..(Cardinality(UpTo(b)) - 1) |-> FirstCommit]]]

-----------------------------------------------------------------------------
\* The saved run.

NoHeads == [b \in Branches |-> None]

OrNone(S) == S \cup {None}

Receipts == [source : Heads, head : Heads]

Runs == [kind : {"push", "noPush"}, pin : 1..MaxTrunk, source : [Branches -> Heads],
         lease : [Branches -> OrNone(Heads)], head : [Branches -> OrNone(Heads)],
         newHead : [Branches -> OrNone(Heads)], targets : [Branches -> OrNone(Heads)],
         resolved : SUBSET Branches, landed : SUBSET Branches, conflict : OrNone(Branches),
         applied : BOOLEAN, aligned : BOOLEAN, publishing : BOOLEAN, pushed : BOOLEAN,
         receipted : BOOLEAN, sourcesMoving : BOOLEAN, moved : SUBSET Branches]

ASSUME NoneAssumption == None \notin Branches \cup Heads \cup Receipts \cup Runs

Run(kind, source, lease, head) ==
    [kind |-> kind, pin |-> trunk, source |-> source, lease |-> lease, head |-> head,
     newHead |-> NoHeads, resolved |-> {}, landed |-> {}, conflict |-> None,
     applied |-> FALSE, aligned |-> FALSE, publishing |-> FALSE, targets |-> NoHeads, pushed |-> FALSE,
     receipted |-> FALSE, sourcesMoving |-> FALSE, moved |-> {}]

Live(r) == Branches \ r.landed

\* headOf the lowest parent that has not landed.
NewBase(r, b) == LET below == (UpTo(b) \ {b}) \cap Live(r)
                 IN  IF below = {} THEN TrunkAt(r.pin)
                     ELSE OnTopOf(r.newHead[CHOOSE p \in below : below \subseteq UpTo(p)])

Movers(r) == {b \in Live(r) : r.newHead[b] # r.source[b]}

\* stackCheckSources, and stackMovedSources.
MovedSources(r)  == {b \in Live(r) : local[b] # r.source[b]}
SourcesStand(r)  == MovedSources(r) = {}

\* Mutant: a branch that is there is enough.
MatchesAny(r, heads) == \A b \in Live(r) : remote[b] # None

\* stackRemoteMatchesPublication.
Matches(r, heads) == \A b \in Live(r) : remote[b] = heads[b]

\* Some ref keeps what was resolved by hand in h.
Reachable(b, h) ==
    \/ \E g \in {pins[b], local[b], remote[b]} \cup kept[b] : Carries(g, h)
    \/ receipt[b] # None /\ Carries(receipt[b].head, h)

Init ==
    /\ local = [b \in Branches |-> FirstHead(b)]
    /\ tree = [b \in Branches |-> IF b \in Held THEN FirstHead(b) ELSE None]
    /\ edited = {}
    /\ pins = NoHeads
    /\ kept = [b \in Branches |-> {}]
    /\ receipt = NoHeads
    /\ workspace = "none"
    /\ remote = local
    /\ trunk = 1
    /\ merged = {}
    /\ \E k \in Kinds : disk = Run(k, local, remote, local)
    /\ pc = "drive" /\ run = disk
    /\ asks = NoHeads /\ moving = {} /\ pending = {} /\ todo = {}
    /\ shown = [b \in Branches |-> {remote[b]}]
    /\ stops = {} /\ trailing = FALSE /\ ended = "no"
    /\ outside = 0

-----------------------------------------------------------------------------
\* Building blocks of the driver's steps.

At(step)   == pc = step
Goto(step) == pc' = step
Save(r)    == disk' = r /\ run' = r
Idle       == /\ pc' = "idle" /\ run' = None /\ asks' = NoHeads
              /\ moving' = {} /\ pending' = {} /\ todo' = {}

\* The process returns an error, having changed nothing more.
Exit == Idle /\ UNCHANGED <<repo, world, ghost>>

\* Only the run and the next step change.
SaveTo(r, step) == /\ Save(r) /\ Goto(step)
                   /\ UNCHANGED <<local, tree, edited, pins, kept, receipt, workspace, world, ghost,
                                  asks, moving, pending, todo>>
GotoOnly(step)  == Goto(step) /\ UNCHANGED <<repo, world, ghost, run, asks, moving, pending, todo>>

-----------------------------------------------------------------------------
\* Commands.

\* runStackContinue, without a conflict or with one whose files are resolved,
\* and runStackAbort.
Continue == /\ At("idle") /\ disk # None
            /\ disk.conflict # None /\ disk.newHead[disk.conflict] = None => workspace = "resolved"
            /\ run' = disk
            /\ Goto(IF disk.conflict = None THEN "drive" ELSE "resume")
            /\ UNCHANGED <<repo, world, ghost, asks, moving, pending, todo>>

Abort == /\ At("idle") /\ disk # None
         /\ run' = disk /\ Goto("recoverAbort")
         /\ UNCHANGED <<repo, world, ghost, asks, moving, pending, todo>>

\* A process dies, or a request of it fails: what it has saved stays.
Die == /\ pc \notin {"idle", "restore"} /\ Idle
       /\ trailing' = (trailing \/ todo # {})
       /\ UNCHANGED <<repo, world, stops, ended>>

-----------------------------------------------------------------------------
\* stackDrive: the replays.

NextBranch == LowestOf({b \in Live(run) : run.newHead[b] = None})
Unplayed   == \E b \in Live(run) : run.newHead[b] = None

\* A branch that sits on its base already keeps its head; another is replayed
\* and pinned, which may conflict unless somebody resolved it.
Replay ==
    /\ At("drive") /\ Unplayed
    /\ LET b == NextBranch
           h == [run.head[b] EXCEPT !.on = NewBase(run, b), !.commit.copy = 0]
       IN  IF run.head[b].on = NewBase(run, b)
           THEN /\ run' = [run EXCEPT !.newHead[b] = run.head[b]]
                /\ UNCHANGED pins
           ELSE /\ run' = [run EXCEPT !.newHead[b] = h]
                /\ pins' = [pins EXCEPT ![b] = h]
    /\ UNCHANGED <<local, tree, edited, kept, receipt, disk, workspace, world, ghost,
                   pc, asks, moving, pending, todo>>

\* stackOpenConflict: the process ends, and the workspace waits for its user,
\* who resolved the branch before, maybe, on an older trunk.
OpenConflict ==
    /\ At("drive") /\ Unplayed
    /\ LET b == NextBranch
       IN  /\ b \in Conflicting
           /\ run.head[b].on # NewBase(run, b)
           /\ disk' = [run EXCEPT !.conflict = b]
    /\ workspace' = "open" /\ Idle
    /\ UNCHANGED <<local, tree, edited, pins, kept, receipt, world, ghost>>

SaveReplays == /\ At("drive") /\ ~Unplayed
               /\ SaveTo(run, IF run.kind = "noPush" THEN "apply" ELSE "sources")

\* stackPinResolved: the pin is made before the run says so.
HandMade(b) == [run.head[b] EXCEPT !.on = NewBase(run, b), !.commit.by = "hand"]

\* Mutant: the run says so without the pin.
PinNothing ==
    /\ At("resume") /\ run.newHead[run.conflict] = None
    /\ Goto("resolved")
    /\ UNCHANGED <<repo, world, ghost, run, asks, moving, pending, todo>>

PinResolved ==
    /\ At("resume") /\ run.newHead[run.conflict] = None
    /\ pins' = [pins EXCEPT ![run.conflict] = HandMade(run.conflict)]
    /\ Goto("resolved")
    /\ UNCHANGED <<local, tree, edited, kept, receipt, disk, workspace, world, ghost,
                   run, asks, moving, pending, todo>>

SaveResolved ==
    /\ At("resolved")
    /\ LET b == run.conflict
       IN  /\ Save([run EXCEPT !.newHead[b] = HandMade(b), !.resolved = @ \cup {b}])
           /\ stops' = stops \cup {<<b, HandMade(b)>>}
    /\ Goto("resume")
    /\ UNCHANGED <<local, tree, edited, pins, kept, receipt, workspace, world, trailing, ended,
                   asks, moving, pending, todo>>

\* stackCloseWorkspace.
CloseWorkspace ==
    /\ At("resume") /\ run.newHead[run.conflict] # None
    /\ Save([run EXCEPT !.conflict = None]) /\ Goto("drive")
    /\ workspace' = "none"
    /\ UNCHANGED <<local, tree, edited, pins, kept, receipt, world, ghost, asks, moving, pending, todo>>

\* stackReplan: the branches that did not move start from what was replayed,
\* those that did from their source.  A remote head that carries other patches
\* refuses the plan, and so does a source that moves meanwhile.  A branch that
\* had landed before is no part of the new plan, and loses its pin.
Plannable == \A b \in Live(run) : remote[b] = run.lease[b] \/ SamePatches(remote[b], run.lease[b])

Replan(fresh) ==
    LET started == [b \in Branches |-> IF b \in fresh THEN local[b] ELSE run.newHead[b]]
        next    == [Run(run.kind, [b \in Branches |-> IF b \in fresh THEN local[b] ELSE run.source[b]],
                        remote, started)
                    EXCEPT !.landed   = run.landed \cup merged,
                           !.newHead  = [b \in Branches |-> IF b \in merged THEN started[b] ELSE None],
                           !.resolved = run.resolved \ (fresh \cup run.landed)]
    IN  IF MovedSources(run) \subseteq fresh /\ Plannable
        THEN /\ Save(next) /\ Goto("drive")
             /\ pins' = [b \in Branches |-> IF b \in run.landed THEN None ELSE pins[b]]
             /\ UNCHANGED <<local, tree, edited, kept, receipt, workspace, world, ghost,
                            asks, moving, pending, todo>>
        ELSE Exit

-----------------------------------------------------------------------------
\* stackFinishPublication: the push.

\* Nothing is published yet: sources that moved are replayed first.
Sources ==
    /\ At("sources")
    /\ CASE run.sourcesMoving -> GotoOnly("choose")
         [] ~run.sourcesMoving /\ ~run.publishing /\ MovedSources(run) # {} -> Replan(MovedSources(run))
         [] OTHER -> GotoOnly("recover")

\* stackRecoverPublication: a push nobody noted.
Recovered(r) == r.publishing /\ ~r.pushed /\ Matches(r, r.targets)

Recover(from, to) == /\ At(from)
                     /\ IF Recovered(run) THEN SaveTo([run EXCEPT !.pushed = TRUE], to) ELSE GotoOnly(to)

\* stackPinPublication.
PinAll ==
    /\ At("pin")
    /\ IF run.pushed \/ SourcesStand(run)
       THEN /\ pins' = [b \in Branches |-> IF b \in Live(run) THEN run.newHead[b] ELSE pins[b]]
            /\ Goto("landed")
            /\ UNCHANGED <<local, tree, edited, kept, receipt, disk, workspace, world, ghost,
                           run, asks, moving, pending, todo>>
       ELSE Exit

\* stackLandedSince, stackReplanLanded.
Landed ==
    /\ At("landed")
    /\ IF ~run.publishing /\ merged \cap Live(run) # {} THEN Replan({}) ELSE GotoOnly("recoverPush")

\* stackPushPublication up to the push: what is pushed already must still be
\* there, and what is not goes out under the leases of the plan.
Publish ==
    /\ At("publish")
    /\ CASE run.publishing /\ run.targets # run.newHead -> Exit
         [] run.pushed /\ run.targets = run.newHead -> IF Matches(run, run.newHead) THEN GotoOnly("receipts") ELSE Exit
         [] ~run.pushed /\ ~SourcesStand(run) -> Exit
         [] OTHER -> /\ Save([run EXCEPT !.publishing = TRUE, !.targets = run.newHead])
                     /\ asks' = run.lease
                     /\ Goto("push")
                     /\ UNCHANGED <<local, tree, edited, pins, kept, receipt, workspace, world, ghost,
                                    moving, pending, todo>>

\* gtRunPush: every branch or none.  A head the remote has already needs no
\* lease.  The answer may be lost though the heads are there.
Leased == \A b \in Live(run) : remote[b] \in {asks[b], run.newHead[b]}

Push(from, stale) ==
    /\ At(from)
    /\ IF Leased
       THEN /\ remote' = [b \in Branches |-> IF b \in Live(run) THEN run.newHead[b] ELSE remote[b]]
            /\ shown' = [b \in Branches |-> shown[b] \cup {remote'[b]}]
            /\ \/ Goto("pushed") /\ UNCHANGED <<run, asks, moving, pending, todo>>
               \/ Idle
            /\ UNCHANGED <<repo, trunk, merged, outside, ghost>>
       ELSE stale

\* stackRepushOverEquivalent, on the heads the remote shows now: one that
\* carries the same patches is leased instead, and adopted if it sits on the
\* base of ours and nothing of the run sits on ours.
\* Mutant: whatever the remote shows is leased.
EquivalentAlways(b) == remote[b] # None

Equivalent(b) == remote[b] = asks[b] \/ SamePatches(remote[b], run.newHead[b])

Adopted == {b \in Live(run) : /\ remote[b] \notin {None, asks[b], run.newHead[b]}
                              /\ Equivalent(b)
                              /\ remote[b].on = run.newHead[b].on
                              /\ \A c \in Live(run) : NewBase(run, c) # OnTopOf(run.newHead[b])}

Refused == {b \in Live(run) : ~Equivalent(b)}

Adopt(bs) == pins' = [b \in Branches |-> IF b \in bs THEN remote[b] ELSE pins[b]]

\* A head that carries other patches ends the process, which has pinned what it
\* adopted by then.
Release ==
    /\ At("stale")
    /\ CASE Matches(run, run.newHead) -> GotoOnly("pushed")
         [] ~Matches(run, run.newHead) /\ Refused # {} ->
              /\ Adopt(Adopted \cap UpTo(LowestOf(Refused))) /\ Idle
              /\ UNCHANGED <<local, tree, edited, kept, receipt, disk, workspace, world, ghost>>
         [] OTHER ->
              /\ asks' = [b \in Branches |-> IF b \in Live(run) THEN remote[b] ELSE asks[b]]
              /\ Adopt(Adopted)
              /\ run'  = [run EXCEPT !.newHead = [b \in Branches |-> IF b \in Adopted THEN remote[b] ELSE @[b]]]
              /\ Goto("released")
              /\ UNCHANGED <<local, tree, edited, kept, receipt, disk, workspace, world, ghost,
                             moving, pending, todo>>

Released ==
    /\ At("released")
    /\ SaveTo([run EXCEPT !.targets = run.newHead],
              IF \A b \in Live(run) : run.newHead[b] = asks[b] THEN "pushed" ELSE "repush")

Pushed == At("pushed") /\ SaveTo([run EXCEPT !.pushed = TRUE], "receipts")

\* stackRecordPublication.
Receipt(source, head) == [source |-> source, head |-> head]

RecordReceipts ==
    /\ At("receipts")
    /\ receipt' = [b \in Branches |-> IF b \in Live(run) THEN Receipt(run.source[b], run.newHead[b])
                                      ELSE receipt[b]]
    /\ Goto("receipted")
    /\ UNCHANGED <<local, tree, edited, pins, kept, disk, workspace, world, ghost,
                   run, asks, moving, pending, todo>>

Receipted == At("receipted") /\ SaveTo([run EXCEPT !.receipted = TRUE], "choose")

-----------------------------------------------------------------------------
\* stackFinishSourceMoves: the local branches follow what was published.

\* stackChooseSourceMoves: a branch stays if its user moved it or has edits in
\* its checkout, and so does every branch above one that stays.
Stays == LET stays[i \in DOMAIN Stack] ==
                 LET b == Stack[i]
                 IN  /\ b \in Movers(run)
                     /\ \/ receipt[b].head # run.newHead[b]
                        \/ /\ local[b] # run.newHead[b]
                           /\ \/ i > 1 /\ stays[i - 1]
                              \/ local[b] # run.source[b]
                              \/ tree[b] # None /\ b \in edited
         IN  {Stack[i] : i \in {j \in DOMAIN Stack : stays[j]}}

\* Mutant: a branch that has landed moves too.
ChooseLanded ==
    /\ At("choose")
    /\ IF run.sourcesMoving THEN GotoOnly("holders")
       ELSE SaveTo([run EXCEPT !.sourcesMoving = TRUE,
                               !.moved = Branches \ Stays], "holders")

Choose ==
    /\ At("choose")
    /\ IF run.sourcesMoving THEN GotoOnly("holders")
       ELSE SaveTo([run EXCEPT !.sourcesMoving = TRUE,
                               !.moved = Movers(run) \ Stays], "holders")

\* The moves are read, and the checkouts that hold them checked.
Holders ==
    /\ At("holders")
    /\ LET go   == {b \in run.moved : local[b] \in {run.source[b], run.newHead[b]}}
           wait == {b \in go : local[b] # run.newHead[b]}
       IN  IF \E b \in wait : tree[b] # None /\ b \in edited THEN Exit
           ELSE /\ moving' = go /\ pending' = wait /\ todo' = {}
                /\ Goto(IF go = {} THEN "complete" ELSE "refs")
                /\ UNCHANGED <<repo, world, ghost, run, asks>>

\* One transaction moves the branches and their receipts, or none.
\* Mutant: a branch still to move is moved from wherever it is.
ExpectedMoved(b) == b \in pending \/ local[b] = run.newHead[b]

Expected(b) == local[b] = (IF b \in pending THEN run.source[b] ELSE run.newHead[b])

MoveRefs ==
    /\ At("refs")
    /\ IF \A b \in moving : Expected(b)
       THEN /\ local' = [b \in Branches |-> IF b \in moving THEN run.newHead[b] ELSE local[b]]
            /\ receipt' = [b \in Branches |-> IF b \in moving THEN Receipt(receipt[b].head, receipt[b].head)
                                              ELSE receipt[b]]
            /\ todo' = moving
            /\ Goto("align")
            /\ UNCHANGED <<tree, edited, pins, kept, disk, workspace, world, ghost, run, asks, moving, pending>>
       ELSE Exit

\* gtRestackAlignHolder: the checkout follows, unless its edits are in the way.
CanFollow(b) == tree[b] \in {run.source[b], run.newHead[b]}

Align ==
    /\ At("align") /\ todo # {}
    /\ LET b == LowestOf(todo)
       IN  /\ tree[b] = None \/ CanFollow(b)
           /\ tree' = [tree EXCEPT ![b] = IF @ = None THEN None ELSE run.newHead[b]]
           /\ todo' = todo \ {b}
    /\ UNCHANGED <<local, edited, pins, kept, receipt, disk, workspace, world, ghost, pc, run, asks, moving, pending>>

Aligned == /\ At("align") /\ todo = {}
           /\ GotoOnly(IF run.kind = "push" THEN "complete" ELSE "aligned")

Blocked(b) == tree[b] # None /\ (~CanFollow(b) \/ (tree[b] # run.newHead[b] /\ b \in edited))

AlignFails ==
    /\ At("align") /\ todo # {} /\ Blocked(LowestOf(todo))
    /\ IF run.kind = "push"
       THEN /\ pending' = pending \cap From(LowestOf(todo)) /\ Goto("restore")
            /\ UNCHANGED <<repo, world, ghost, run, asks, moving, todo>>
       ELSE /\ trailing' = TRUE /\ Idle
            /\ UNCHANGED <<repo, world, stops, ended>>

\* stackRestoreSources: the branches whose checkouts did not follow go back.
\* If one was moved meanwhile none does, and the error says what trails.
Restore ==
    /\ At("restore")
    /\ IF \A b \in pending : local[b] = run.newHead[b]
       THEN /\ local' = [b \in Branches |-> IF b \in pending THEN run.source[b] ELSE local[b]]
            /\ receipt' = [b \in Branches |-> IF b \in pending THEN Receipt(run.source[b], receipt[b].head)
                                              ELSE receipt[b]]
            /\ UNCHANGED trailing
       ELSE /\ trailing' = TRUE /\ UNCHANGED <<local, receipt>>
    /\ Idle
    /\ UNCHANGED <<tree, edited, pins, kept, disk, workspace, world, stops, ended>>

\* stackCompletePublication: the pins go, then the run.
DropPins(from, to) ==
    /\ At(from)
    /\ pins' = NoHeads
    /\ Goto(to)
    /\ UNCHANGED <<local, tree, edited, kept, receipt, disk, workspace, world, ghost,
                   run, asks, moving, pending, todo>>

Clear(from, how) ==
    /\ At(from)
    /\ disk' = None /\ ended' = how /\ Idle
    /\ trailing' = (trailing /\ how # "done")
    /\ UNCHANGED <<local, tree, edited, pins, kept, receipt, workspace, world, stops>>

-----------------------------------------------------------------------------
\* stackFinish without a push: the branches are rewritten in place.

Apply ==
    /\ At("apply")
    /\ CASE run.applied -> GotoOnly("rewrite")
         [] ~run.applied /\ (\E b \in Movers(run) : tree[b] # None /\ b \in edited) -> Exit
         [] OTHER -> SaveTo([run EXCEPT !.applied = TRUE], "write")

Parent(b, c) == b # c /\ UpTo(c) = UpTo(b) \cup {c}

\* stackWriteRefs: all of them, on parents that stand, or none.
Writable == /\ \A b \in Movers(run) : local[b] \in {run.source[b], run.newHead[b]}
            /\ \A b \in Live(run) \ Movers(run) :
                  (\E c \in Movers(run) : Parent(b, c)) => local[b] = run.source[b]

WriteRefs ==
    /\ pc \in {"write", "rewrite"} /\ Writable
    /\ local' = [b \in Branches |-> IF b \in Movers(run) THEN run.newHead[b] ELSE local[b]]
    /\ todo' = IF run.aligned THEN {} ELSE Movers(run)
    /\ Goto(IF run.aligned THEN "finish" ELSE "align")
    /\ UNCHANGED <<tree, edited, pins, kept, receipt, disk, workspace, world, ghost, run, asks, moving, pending>>

WriteFails ==
    /\ pc \in {"write", "rewrite"} /\ ~Writable
    /\ IF At("write")
       THEN /\ disk' = [run EXCEPT !.applied = FALSE] /\ Idle
            /\ UNCHANGED <<local, tree, edited, pins, kept, receipt, workspace, world, ghost>>
       ELSE Exit

SaveAligned == At("aligned") /\ SaveTo([run EXCEPT !.aligned = TRUE], "finish")

-----------------------------------------------------------------------------
\* stackSettle: what an abort leaves.

RewriteHeld == \A b \in Live(run) : local[b] = run.newHead[b]

\* stackKeepResolved, stackReleaseWorkspace.
KeepResolved ==
    /\ kept' = [b \in Branches |-> IF b \in run.resolved
                                   THEN kept[b] \cup {IF run.newHead[b] = None THEN run.head[b] ELSE run.newHead[b]}
                                   ELSE kept[b]]
    /\ workspace' = "none"
    /\ Goto("dropAborted")
    /\ UNCHANGED <<local, tree, edited, pins, receipt, disk, world, ghost, run, asks, moving, pending, todo>>

Settle ==
    /\ At("settle")
    /\ CASE run.receipted -> GotoOnly("completeAborted")
         [] ~run.receipted /\ run.pushed /\ Matches(run, run.targets) -> Exit
         [] run.applied /\ RewriteHeld -> Exit
         [] OTHER -> KeepResolved

Drive == \/ Replay \/ OpenConflict \/ SaveReplays
         \/ PinResolved \/ SaveResolved \/ CloseWorkspace
         \/ Sources \/ Recover("recover", "pin") \/ PinAll \/ Landed \/ Recover("recoverPush", "publish")
         \/ Publish \/ Push("push", GotoOnly("stale")) \/ Release \/ Released \/ Push("repush", Exit)
         \/ Pushed \/ RecordReceipts \/ Receipted
         \/ Choose \/ Holders \/ MoveRefs \/ Align \/ Aligned \/ AlignFails \/ Restore
         \/ DropPins("complete", "clear") \/ Clear("clear", "done")
         \/ Apply \/ WriteRefs \/ WriteFails \/ SaveAligned \/ DropPins("finish", "clear")
         \/ Recover("recoverAbort", "settle") \/ Settle
         \/ DropPins("dropAborted", "clearAborted") \/ Clear("clearAborted", "aborted")
         \/ DropPins("completeAborted", "clearCompleted") \/ Clear("clearCompleted", "completed")
         \/ Die

-----------------------------------------------------------------------------
\* The users, and everybody else.

\* A user who finds a checkout behind its branch does not commit in it.
Commit(b) == /\ outside < MaxOutside /\ tree[b] \in {None, local[b]}
             /\ outside' = outside + 1
             /\ local' = [local EXCEPT ![b].commit = [@ EXCEPT !.work = outside', !.copy = 0]]
             /\ tree' = [tree EXCEPT ![b] = IF @ = None THEN None ELSE local'[b]]
             /\ edited' = edited \ {b}
             /\ UNCHANGED <<pins, kept, receipt, disk, workspace, proc, ghost, remote, trunk, merged, shown>>

Edit(b) == /\ outside < MaxOutside /\ tree[b] # None /\ b \notin edited
           /\ outside' = outside + 1 /\ edited' = edited \cup {b}
           /\ UNCHANGED <<local, tree, pins, kept, receipt, disk, workspace, proc, ghost,
                          remote, trunk, merged, shown>>

Discard(b) == /\ b \in edited /\ edited' = edited \ {b}
              /\ UNCHANGED <<local, tree, pins, kept, receipt, disk, workspace, proc, ghost, world>>

\* The checkouts are read once for an alignment: one that leaves or takes up a
\* branch in the middle of it is left out.
Switch(b) == /\ pc \notin {"align", "restore"}
             /\ outside < MaxOutside /\ b \notin edited /\ tree[b] \in {None, local[b]}
             /\ outside' = outside + 1
             /\ tree' = [tree EXCEPT ![b] = IF @ = None THEN local[b] ELSE None]
             /\ UNCHANGED <<local, edited, pins, kept, receipt, disk, workspace, proc, ghost,
                            remote, trunk, merged, shown>>

Resolve == /\ workspace = "open" /\ workspace' = "resolved"
           /\ UNCHANGED <<local, tree, edited, pins, kept, receipt, disk, proc, ghost, world>>

\* Others push patches of their own, replay a branch onto the trunk, commit it
\* anew, or delete it.
OtherPush(b) ==
    /\ outside < MaxOutside /\ remote[b] # None
    /\ outside' = outside + 1
    /\ \E h \in {[remote[b] EXCEPT !.commit.by = "other"],
                 [remote[b] EXCEPT !.on = TrunkAt(trunk), !.commit.copy = 1],
                 [remote[b] EXCEPT !.commit.copy = 1],
                 None} : remote' = [remote EXCEPT ![b] = h]
    /\ shown' = [shown EXCEPT ![b] = @ \cup {remote'[b]}]
    /\ UNCHANGED <<repo, proc, ghost, trunk, merged>>

\* A pull request lands: that of the lowest branch, or one of another stack.
Land == /\ outside < MaxOutside /\ trunk < MaxTrunk
        /\ outside' = outside + 1 /\ trunk' = trunk + 1
        /\ \/ merged # Branches /\ merged' = merged \cup {LowestOf(Branches \ merged)}
           \/ merged' = merged
        /\ UNCHANGED <<repo, proc, ghost, remote, shown>>

Next == \/ Continue \/ Abort \/ Drive \/ Resolve \/ Land
        \/ \E b \in Branches : Commit(b) \/ Edit(b) \/ Discard(b) \/ Switch(b) \/ OtherPush(b)

Spec == Init /\ [][Next]_vars

-----------------------------------------------------------------------------
\* What must hold.

\* Types of the repository, the run and the bounds; a run moves, and stops at,
\* branches that have not landed.
TypeOK ==
    /\ local \in [Branches -> Heads]
    /\ {tree, pins, remote, asks} \subseteq [Branches -> OrNone(Heads)]
    /\ kept \in [Branches -> SUBSET Heads]
    /\ receipt \in [Branches -> OrNone(Receipts)]
    /\ {disk, run} \subseteq OrNone(Runs)
    /\ \A r \in {disk, run} \ {None} : r.conflict \in OrNone(Live(r)) /\ r.moved \subseteq Live(r)
    /\ edited \subseteq Branches /\ trunk \in 1..MaxTrunk /\ merged \subseteq Branches
    /\ {moving, pending, todo} \subseteq SUBSET Branches
    /\ pc = "idle" <=> run = None

\* Patches somebody else pushed to a branch are never pushed over, however
\* often a push is repeated, recovered or leased anew.
OthersKept == [][\A b \in Branches : remote[b] # None /\ remote[b].commit.by = "other"
                                     => remote'[b] = None \/ remote'[b].commit.by = "other"]_remote

\* No step takes a local branch back to before its user's last commit.
SourcesKept == [][\A b \in Branches : local'[b].commit.work >= local[b].commit.work]_local

\* A receipt names a head the remote has shown.
ReceiptsAreTrue == \A b \in Branches : receipt[b] # None => receipt[b].head \in shown[b]

\* What a user resolved by hand stays reachable as long as the run says so,
\* and when it ends.
ResolvedKept == disk # None => \A b \in disk.resolved \ disk.landed :
                  LET h == IF disk.newHead[b] = None THEN disk.head[b] ELSE disk.newHead[b]
                  IN  Reachable(b, h)

\* No checkout is left on a branch its index and files trail, but by a process
\* that died in the middle or an error that says so.
CheckoutsFollow == At("idle") /\ ~trailing => \A b \in Branches : tree[b] \in {None, local[b]}

\* An abort keeps every stop its user has resolved.
AbortKeepsStops == ended = "aborted" => \A s \in stops : Reachable(s[1], s[2])
=============================================================================
