-------------------------- MODULE StackPublishProofs --------------------------
(***************************************************************************)
(* Proofs about StackPublish, for any stack, any branches that conflict    *)
(* and any number of events outside: its types, whose patches a push may   *)
(* overwrite, whose commits a move may undo and what a receipt says.       *)
(*                                                                         *)
(* The invariant follows the heads.  What a run holds for a live branch    *)
(* (its source, the head it starts from, the replayed one, its lease) is   *)
(* never somebody else's, and carries the work of the source; a step past  *)
(* the replays has them all; and a step near a receipt has seen the remote *)
(* show what it is about to write down.                                    *)
(***************************************************************************)
EXTENDS StackPublish, FiniteSetTheorems, SequenceTheorems, TLAPS

\* The heads a run may hold, replay and push.
Own == {h \in Heads : h.commit.by # "other"}

Below(b)  == UpTo(b) \ {b}
Played(r) == \A b \in Live(r) : r.newHead[b] # None

\* What a run says of one live branch.
Entry(r, b) ==
    /\ r.source[b] \in Own /\ r.head[b] \in Own
    /\ r.lease[b] \in OrNone(Own) /\ r.newHead[b] \in OrNone(Own)
    /\ r.head[b].commit.work = r.source[b].commit.work
    /\ r.newHead[b] # None => r.newHead[b].commit.work = r.source[b].commit.work

\* The run as a whole: a conflict has all below it replayed.
Shape(r) ==
    /\ \A b \in r.resolved \ Live(r) : r.newHead[b] # None
    /\ r.conflict \in OrNone(Live(r))
    /\ r.conflict # None => \A c \in Below(r.conflict) \cap Live(r) : r.newHead[c] # None
    /\ r.moved \subseteq Live(r)
    /\ r.sourcesMoving => r.receipted

Good(r) == r \in Runs /\ Shape(r) /\ \A b \in Live(r) : Entry(r, b)

Received(r) == r.receipted => \A b \in Live(r) : receipt[b] \in Receipts

\* What a process may rely on at a step of its run.
Stage(r, step) ==
    /\ step \in {"resume", "resolved"} => r.conflict # None
    /\ step \in {"resume", "resolved", "drive", "recoverAbort", "settle", "dropAborted", "clearAborted",
                 "completeAborted", "clearCompleted", "clear"} \/ Played(r)
    /\ step \in {"choose", "holders", "refs", "restore"} => r.receipted
    /\ step \in {"apply", "write", "rewrite"} => r.kind = "noPush"
    /\ step = "align" => r.receipted \/ r.kind = "noPush"
    /\ step \in {"refs", "restore"} \/ (step = "align" /\ r.kind = "push") => moving \cup pending \subseteq Live(r)
    /\ step = "align" => todo \subseteq Live(r)
    /\ step \in {"push", "stale", "released", "repush"} => \A b \in Live(r) : asks[b] \in OrNone(Own)
    /\ step = "released" => \A b \in Live(r) : asks[b] \in shown[b]
    /\ step \in {"pushed", "receipts"} => \A b \in Live(r) : r.newHead[b] \in shown[b]
    /\ step = "receipted" => \A b \in Live(r) : receipt[b] \in Receipts

\* The repository.
OwnLocal(b) == local[b] \in Own /\ local[b].commit.work <= outside
Repo == /\ local \in [Branches -> Heads] /\ \A b \in Branches : OwnLocal(b)
        /\ {tree, pins} \subseteq [Branches -> OrNone(Heads)]
        /\ kept \in [Branches -> SUBSET Heads]
        /\ receipt \in [Branches -> OrNone(Receipts)]
        /\ edited \subseteq Branches

\* The remote, and what it has shown.
Remote == /\ remote \in [Branches -> OrNone(Heads)]
          /\ DOMAIN shown = Branches
          /\ \A b \in Branches : remote[b] \in shown[b]
          /\ trunk \in 1..MaxTrunk /\ merged \subseteq Branches
          /\ outside \in 0..MaxOutside

Saved == disk # None => Good(disk) /\ Received(disk)

InHand == /\ pc = "idle" <=> run = None
          /\ asks \in [Branches -> OrNone(Heads)]
          /\ {moving, pending, todo} \subseteq SUBSET Branches
          /\ run # None => Good(run) /\ Received(run) /\ Stage(run, pc)

IInv == Repo /\ Remote /\ Saved /\ InHand /\ ReceiptsAreTrue

USE StackAssumption, KindAssumption, BoundAssumption

-----------------------------------------------------------------------------
\* The order of the stack.
LEMMA StackIsSeq ==
  /\ Len(Stack) \in Nat /\ DOMAIN Stack = 1..Len(Stack)
  /\ Branches = {Stack[i] : i \in 1..Len(Stack)}
BY LenProperties DEF Branches, Range

LEMMA UpToIs ==
  ASSUME NEW j \in 1..Len(Stack)
  PROVE  UpTo(Stack[j]) = {Stack[k] : k \in 1..j}
<1> DEFINE i == CHOOSE i \in DOMAIN Stack : Stack[i] = Stack[j]
           s == SubSeq(Stack, 1, j)
<1>1. i = j
    BY StackIsSeq DEF IsInjective
<1>2. /\ Len(s) = j /\ \A k \in 1..j : s[k] = Stack[k]
      /\ DOMAIN s = 1..j
  <2>1. \A k \in 1..j : Stack[k] \in Branches
      BY StackIsSeq
  <2>2. /\ s \in Seq(Branches) /\ Len(s) = IF 1 <= j THEN j - 1 + 1 ELSE 0
        /\ \A k \in 1..(j - 1 + 1) : s[k] = Stack[1 + k - 1]
      BY <2>1, StackIsSeq, SubSeqProperties
  <2>3. DOMAIN s = 1..Len(s)
      BY <2>2, LenProperties
  <2> QED BY <2>2, <2>3, StackIsSeq
<1>3. UpTo(Stack[j]) = Range(s)
    BY <1>1 DEF UpTo
<1> QED BY <1>2, <1>3 DEF Range

LEMMA UpToIsOrder ==
  ASSUME NEW b \in Branches
  PROVE  /\ b \in UpTo(b) /\ UpTo(b) \subseteq Branches
         /\ \A c \in Branches : c \in UpTo(b) \/ b \in UpTo(c)
         /\ \A c \in UpTo(b) : UpTo(c) \subseteq UpTo(b)
         /\ \A c \in UpTo(b) : b \in UpTo(c) => c = b
<1>1. PICK j \in 1..Len(Stack) : b = Stack[j]
    BY StackIsSeq
<1>2. UpTo(b) = {Stack[k] : k \in 1..j}
    BY <1>1, UpToIs
<1>3. b \in UpTo(b) /\ UpTo(b) \subseteq Branches
    BY <1>1, <1>2, StackIsSeq
<1>4. ASSUME NEW c \in Branches
      PROVE  /\ c \in UpTo(b) \/ b \in UpTo(c)
             /\ c \in UpTo(b) => UpTo(c) \subseteq UpTo(b)
             /\ c \in UpTo(b) /\ b \in UpTo(c) => c = b
  <2>1. PICK k \in 1..Len(Stack) : c = Stack[k]
      BY StackIsSeq
  <2>2. UpTo(c) = {Stack[l] : l \in 1..k}
      BY <2>1, UpToIs
  <2>3. \A l, m \in 1..Len(Stack) : Stack[l] = Stack[m] => l = m
      BY StackIsSeq DEF IsInjective
  <2>4. c \in UpTo(b) <=> k <= j
    <3>1. c \in UpTo(b) => k <= j
        BY <1>2, <2>1, <2>3, StackIsSeq
    <3>2. k <= j => c \in UpTo(b)
        BY <1>2, <2>1, StackIsSeq
    <3> QED BY <3>1, <3>2
  <2>5. b \in UpTo(c) <=> j <= k
    <3>1. b \in UpTo(c) => j <= k
        BY <2>2, <1>1, <2>3, StackIsSeq
    <3>2. j <= k => b \in UpTo(c)
        BY <2>2, <1>1, StackIsSeq
    <3> QED BY <3>1, <3>2
  <2>6. k <= j => UpTo(c) \subseteq UpTo(b)
      BY <1>2, <2>2, StackIsSeq
  <2> QED BY <1>1, <2>1, <2>4, <2>5, <2>6, StackIsSeq
<1> QED BY <1>3, <1>4

LEMMA BranchesFinite == IsFiniteSet(Branches)
<1>1. IsFiniteSet(1..Len(Stack))
    BY StackIsSeq, FS_Interval
<1>2. Stack \in [1..Len(Stack) -> Branches]
    BY LenProperties
<1>3. Stack \in Surjection(1..Len(Stack), Branches)
    BY <1>2, StackIsSeq DEF Surjection
<1> QED BY <1>1, <1>3, FS_Surjection

\* A set of branches has a lowest and a highest one.
LEMMA LowestExists ==
  ASSUME NEW bs \in SUBSET Branches, bs # {}
  PROVE  /\ LowestOf(bs) \in bs
         /\ Below(LowestOf(bs)) \cap bs = {}
<1> DEFINE T == {UpTo(b) : b \in bs}
<1>1. IsWellFoundedOn(StrictSubsetOrdering(Branches), FiniteSubsetsOf(Branches))
    BY FS_StrictSubsetOrderingWellFounded
<1>2. T \subseteq FiniteSubsetsOf(Branches) /\ T # {}
    BY UpToIsOrder, BranchesFinite, FS_Subset DEF FiniteSubsetsOf
<1>3. PICK x \in T : \A y \in T : <<y, x>> \notin StrictSubsetOrdering(Branches)
  <2> HIDE DEF T
  <2> QED BY <1>1, <1>2, WFMin
<1>4. PICK b \in bs : x = UpTo(b)
    OBVIOUS
<1>5. UpTo(b) \cap bs = {b}
  <2>1. SUFFICES ASSUME NEW c \in UpTo(b) \cap bs PROVE c = b
      BY UpToIsOrder
  <2>2. UpTo(c) \subseteq UpTo(b) /\ UpTo(b) \subseteq Branches
      BY UpToIsOrder
  <2>3. <<UpTo(c), UpTo(b)>> \notin StrictSubsetOrdering(Branches)
      BY <1>3, <1>4
  <2>4. UpTo(c) = UpTo(b)
      BY <2>2, <2>3 DEF StrictSubsetOrdering
  <2> QED BY <2>4, UpToIsOrder
<1>6. LowestOf(bs) \in bs /\ UpTo(LowestOf(bs)) \cap bs = {LowestOf(bs)}
    BY <1>5 DEF LowestOf
<1> QED BY <1>6 DEF Below

LEMMA HighestExists ==
  ASSUME NEW bs \in SUBSET Branches, bs # {}
  PROVE  \E p \in bs : bs \subseteq UpTo(p)
<1> DEFINE T == {Branches \ UpTo(b) : b \in bs}
<1>1. IsWellFoundedOn(StrictSubsetOrdering(Branches), FiniteSubsetsOf(Branches))
    BY FS_StrictSubsetOrderingWellFounded
<1>2. T \subseteq FiniteSubsetsOf(Branches) /\ T # {}
  <2>1. \A b \in bs : IsFiniteSet(Branches \ UpTo(b))
      BY BranchesFinite, FS_Difference
  <2> QED BY <2>1 DEF FiniteSubsetsOf
<1>3. PICK x \in T : \A y \in T : <<y, x>> \notin StrictSubsetOrdering(Branches)
  <2> HIDE DEF T
  <2> QED BY <1>1, <1>2, WFMin
<1>4. PICK b \in bs : x = Branches \ UpTo(b)
    OBVIOUS
<1>5. ASSUME NEW c \in bs, c \notin UpTo(b) PROVE FALSE
  <2>1. b \in UpTo(c) /\ UpTo(b) \subseteq UpTo(c) /\ c \in UpTo(c)
      BY <1>5, UpToIsOrder
  <2>2. /\ Branches \ UpTo(c) \subseteq Branches \ UpTo(b)
        /\ c \in Branches \ UpTo(b) /\ c \notin Branches \ UpTo(c)
      BY <1>5, <2>1
  <2>3. <<Branches \ UpTo(c), Branches \ UpTo(b)>> \in StrictSubsetOrdering(Branches)
      BY <2>2 DEF StrictSubsetOrdering
  <2> QED BY <1>3, <1>4, <2>3
<1> QED BY <1>5

-----------------------------------------------------------------------------
\* Heads.
LEMMA NoneIsNone ==
  /\ None \notin Branches /\ None \notin Heads /\ None \notin Own
  /\ None \notin Receipts /\ None \notin Runs
BY NoneAssumption DEF Own

LEMMA HeadFields ==
  ASSUME NEW h \in Heads
  PROVE  /\ h.commit \in Patch /\ h.on \in Base /\ h.commit.work \in 0..MaxOutside
         /\ h.commit.by \in {"source", "hand", "other"} /\ h = [commit |-> h.commit, on |-> h.on]
         /\ h.on.trunk \in 0..MaxTrunk /\ h.on.below \in Seq(Patch)
BY DEF Heads, Patch, Base

LEMMA HeadUpdates ==
  ASSUME NEW h \in Heads
  PROVE  /\ \A base \in Base : /\ [h EXCEPT !.on = base] \in Heads
                               /\ [h EXCEPT !.on = base].commit = h.commit
                               /\ [h EXCEPT !.on = base].on = base
         /\ \A c \in Patch : /\ [h EXCEPT !.commit = c] \in Heads
                             /\ [h EXCEPT !.commit = c].commit = c
                             /\ [h EXCEPT !.commit = c].on = h.on
         /\ [h EXCEPT !.commit.copy = 0] = [h EXCEPT !.commit = [h.commit EXCEPT !.copy = 0]]
         /\ [h EXCEPT !.commit.copy = 1] = [h EXCEPT !.commit = [h.commit EXCEPT !.copy = 1]]
         /\ [h EXCEPT !.commit.by = "hand"] = [h EXCEPT !.commit = [h.commit EXCEPT !.by = "hand"]]
         /\ [h EXCEPT !.commit.by = "other"] = [h EXCEPT !.commit = [h.commit EXCEPT !.by = "other"]]
BY DEF Heads

LEMMA PatchUpdates ==
  ASSUME NEW c \in Patch
  PROVE  /\ [c EXCEPT !.copy = 0] \in Patch /\ [c EXCEPT !.copy = 1] \in Patch
         /\ [c EXCEPT !.copy = 0].by = c.by /\ [c EXCEPT !.copy = 0].work = c.work
         /\ [c EXCEPT !.copy = 1].by = c.by /\ [c EXCEPT !.copy = 1].work = c.work
         /\ [c EXCEPT !.by = "hand"] \in Patch /\ [c EXCEPT !.by = "other"] \in Patch
         /\ [c EXCEPT !.by = "hand"].by = "hand" /\ [c EXCEPT !.by = "hand"].work = c.work
         /\ [c EXCEPT !.by = "other"].by = "other"
BY DEF Patch

\* A head replayed on a base, and one resolved there by hand.
LEMMA ReplayedHead ==
  ASSUME NEW h \in Own, NEW base \in Base
  PROVE  /\ [h EXCEPT !.on = base, !.commit.copy = 0] \in Own
         /\ [h EXCEPT !.on = base, !.commit.copy = 0].commit.work = h.commit.work
         /\ [h EXCEPT !.on = base, !.commit.by = "hand"] \in Own
         /\ [h EXCEPT !.on = base, !.commit.by = "hand"].commit.work = h.commit.work
<1> DEFINE g == [h EXCEPT !.on = base]
           c == [h.commit EXCEPT !.copy = 0]
           d == [h.commit EXCEPT !.by = "hand"]
<1>1. g \in Heads /\ g.commit = h.commit /\ h.commit \in Patch /\ h.commit.by # "other"
    BY HeadUpdates, HeadFields DEF Own
<1>2. /\ c \in Patch /\ d \in Patch /\ c.by = h.commit.by /\ d.by = "hand"
      /\ c.work = h.commit.work /\ d.work = h.commit.work
    BY <1>1, PatchUpdates
<1>3. /\ [h EXCEPT !.on = base, !.commit.copy = 0] = [g EXCEPT !.commit.copy = 0]
      /\ [h EXCEPT !.on = base, !.commit.by = "hand"] = [g EXCEPT !.commit.by = "hand"]
    OBVIOUS
<1> HIDE DEF g
<1>4. /\ [g EXCEPT !.commit.copy = 0] = [g EXCEPT !.commit = c]
      /\ [g EXCEPT !.commit.by = "hand"] = [g EXCEPT !.commit = d]
    BY <1>1, HeadUpdates
<1> HIDE DEF c, d
<1>5. /\ [g EXCEPT !.commit = c] \in Heads /\ [g EXCEPT !.commit = c].commit = c
      /\ [g EXCEPT !.commit = d] \in Heads /\ [g EXCEPT !.commit = d].commit = d
    BY <1>1, <1>2, HeadUpdates
<1>6. PICK x \in Heads : x = [h EXCEPT !.on = base, !.commit.copy = 0] /\ x.commit = c
    BY <1>3, <1>4, <1>5
<1>7. PICK y \in Heads : y = [h EXCEPT !.on = base, !.commit.by = "hand"] /\ y.commit = d
    BY <1>3, <1>4, <1>5
<1>8. x \in Own /\ x.commit.work = h.commit.work
    BY <1>1, <1>2, <1>6 DEF Own
<1>9. y \in Own /\ y.commit.work = h.commit.work
    BY <1>2, <1>7 DEF Own
<1> QED BY <1>6, <1>7, <1>8, <1>9

LEMMA CommittedHead ==
  ASSUME NEW h \in Own, NEW n \in 0..MaxOutside
  PROVE  /\ [h EXCEPT !.commit = [@ EXCEPT !.work = n, !.copy = 0]] \in Own
         /\ [h EXCEPT !.commit = [@ EXCEPT !.work = n, !.copy = 0]].commit.work = n
<1> DEFINE d == [h.commit EXCEPT !.work = n]
           c == [d EXCEPT !.copy = 0]
<1>1. h \in Heads /\ h.commit \in Patch /\ h.commit.by # "other"
    BY HeadFields DEF Own
<1>2. d \in Patch /\ d.by = h.commit.by /\ d.work = n
  <2>1. PICK e \in Patch : e = h.commit
      BY <1>1
  <2>2. [e EXCEPT !.work = n] \in Patch /\ [e EXCEPT !.work = n].by = e.by /\ [e EXCEPT !.work = n].work = n
      BY DEF Patch
  <2> QED BY <2>1, <2>2
<1>3. [h EXCEPT !.commit = [@ EXCEPT !.work = n, !.copy = 0]] = [h EXCEPT !.commit = c]
    OBVIOUS
<1> HIDE DEF d
<1>4. c \in Patch /\ c.by = d.by /\ c.work = d.work
    BY <1>2, PatchUpdates
<1> HIDE DEF c
<1>5. [h EXCEPT !.commit = c] \in Heads /\ [h EXCEPT !.commit = c].commit = c
    BY <1>1, <1>4, HeadUpdates
<1> QED BY <1>1, <1>2, <1>3, <1>4, <1>5 DEF Own

\* What somebody else makes of a head.
LEMMA OthersHead ==
  ASSUME NEW h \in Heads, NEW base \in Base
  PROVE  /\ [h EXCEPT !.commit.by = "other"] \in Heads
         /\ [h EXCEPT !.commit.by = "other"].commit.by = "other"
         /\ [h EXCEPT !.on = base, !.commit.copy = 1] \in Heads
         /\ [h EXCEPT !.on = base, !.commit.copy = 1].commit.by = h.commit.by
         /\ [h EXCEPT !.commit.copy = 1] \in Heads
         /\ [h EXCEPT !.commit.copy = 1].commit.by = h.commit.by
<1> DEFINE g == [h EXCEPT !.on = base]
           c == [h.commit EXCEPT !.copy = 1]
           d == [h.commit EXCEPT !.by = "other"]
<1>1. g \in Heads /\ g.commit = h.commit /\ h.commit \in Patch
    BY HeadUpdates, HeadFields
<1>2. c \in Patch /\ d \in Patch /\ c.by = h.commit.by /\ d.by = "other"
    BY <1>1, PatchUpdates
<1>3. [h EXCEPT !.on = base, !.commit.copy = 1] = [g EXCEPT !.commit.copy = 1]
    OBVIOUS
<1> HIDE DEF g
<1>4. /\ [g EXCEPT !.commit.copy = 1] = [g EXCEPT !.commit = c]
      /\ [h EXCEPT !.commit.copy = 1] = [h EXCEPT !.commit = c]
      /\ [h EXCEPT !.commit.by = "other"] = [h EXCEPT !.commit = d]
    BY <1>1, HeadUpdates
<1> HIDE DEF c, d
<1>5. /\ [g EXCEPT !.commit = c] \in Heads /\ [g EXCEPT !.commit = c].commit = c
      /\ [h EXCEPT !.commit = c] \in Heads /\ [h EXCEPT !.commit = c].commit = c
      /\ [h EXCEPT !.commit = d] \in Heads /\ [h EXCEPT !.commit = d].commit = d
    BY <1>1, <1>2, HeadUpdates
<1> QED BY <1>1, <1>2, <1>3, <1>4, <1>5

LEMMA OnTopIsBase ==
  ASSUME NEW h \in Heads
  PROVE  OnTopOf(h) \in Base
<1>1. h.on \in Base /\ h.on.below \in Seq(Patch) /\ h.commit \in Patch
    BY HeadFields
<1>2. Append(h.on.below, h.commit) \in Seq(Patch)
    BY <1>1, AppendProperties
<1> QED BY <1>1, <1>2 DEF OnTopOf, Base

LEMMA TrunkIsBase ==
  ASSUME NEW n \in 0..MaxTrunk
  PROVE  TrunkAt(n) \in Base
<1>1. <<>> \in Seq(Patch)
    BY EmptySeq
<1> QED BY <1>1 DEF TrunkAt, Base

LEMMA RunFields ==
  ASSUME NEW r \in Runs
  PROVE  /\ r.pin \in 1..MaxTrunk /\ r.kind \in {"push", "noPush"}
         /\ r.source \in [Branches -> Heads] /\ r.head \in [Branches -> OrNone(Heads)]
         /\ r.lease \in [Branches -> OrNone(Heads)]
         /\ r.newHead \in [Branches -> OrNone(Heads)] /\ r.targets \in [Branches -> OrNone(Heads)]
         /\ r.resolved \subseteq Branches /\ r.landed \subseteq Branches
         /\ r.moved \subseteq Branches /\ r.conflict \in OrNone(Branches)
         /\ Live(r) \subseteq Branches
BY DEF Runs, Live

\* What a branch is replayed on, once all below it have been.
LEMMA NewBaseIsBase ==
  ASSUME NEW r \in Runs, NEW b \in Branches,
         \A c \in Below(b) \cap Live(r) : r.newHead[c] # None
  PROVE  NewBase(r, b) \in Base
<1> DEFINE below == (UpTo(b) \ {b}) \cap Live(r)
           p == CHOOSE p \in below : below \subseteq UpTo(p)
<1>1. CASE below = {}
  <2>1. r.pin \in 0..MaxTrunk
      BY RunFields
  <2> QED BY <1>1, <2>1, TrunkIsBase DEF NewBase
<1>2. CASE below # {}
  <2>1. below \subseteq Branches
      BY RunFields
  <2>2. \E q \in below : below \subseteq UpTo(q)
    <3> HIDE DEF below
    <3> QED BY <1>2, <2>1, HighestExists
  <2>3. p \in below
      BY <2>2
  <2>4. r.newHead[p] \in Heads
      BY <2>1, <2>3, RunFields DEF Below, OrNone
  <2>5. OnTopOf(r.newHead[p]) \in Base
      BY <2>4, OnTopIsBase
  <2> QED BY <1>2, <2>5 DEF NewBase
<1> QED BY <1>1, <1>2

-----------------------------------------------------------------------------
\* Runs.

\* q plans what r does.
SamePlan(q, r) == /\ q.kind = r.kind /\ q.source = r.source /\ q.head = r.head /\ q.lease = r.lease
                  /\ q.newHead = r.newHead /\ q.landed = r.landed /\ q.resolved = r.resolved


\* q says the same of conflicts and moves.
SameMoves(q, r) == q.conflict = r.conflict /\ q.moved = r.moved /\ q.sourcesMoving = r.sourcesMoving

\* The steps that note in the run what has been done.
LEMMA NotedPushed ==
  ASSUME NEW r \in Runs
  PROVE  LET q == [r EXCEPT !.pushed = TRUE]
         IN  q \in Runs /\ SamePlan(q, r) /\ SameMoves(q, r) /\ q.receipted = r.receipted
BY DEF Runs, SamePlan, SameMoves

LEMMA NotedApplied ==
  ASSUME NEW r \in Runs
  PROVE  LET q == [r EXCEPT !.applied = TRUE]
         IN  q \in Runs /\ SamePlan(q, r) /\ SameMoves(q, r) /\ q.receipted = r.receipted
BY DEF Runs, SamePlan, SameMoves

LEMMA NotedNotApplied ==
  ASSUME NEW r \in Runs
  PROVE  LET q == [r EXCEPT !.applied = FALSE]
         IN  q \in Runs /\ SamePlan(q, r) /\ SameMoves(q, r) /\ q.receipted = r.receipted
BY DEF Runs, SamePlan, SameMoves

LEMMA NotedAligned ==
  ASSUME NEW r \in Runs
  PROVE  LET q == [r EXCEPT !.aligned = TRUE]
         IN  q \in Runs /\ SamePlan(q, r) /\ SameMoves(q, r) /\ q.receipted = r.receipted
BY DEF Runs, SamePlan, SameMoves

LEMMA NotedPublishing ==
  ASSUME NEW r \in Runs
  PROVE  LET q == [r EXCEPT !.publishing = TRUE, !.targets = r.newHead]
         IN  q \in Runs /\ SamePlan(q, r) /\ SameMoves(q, r) /\ q.receipted = r.receipted
BY DEF Runs, SamePlan, SameMoves

LEMMA NotedTargets ==
  ASSUME NEW r \in Runs
  PROVE  LET q == [r EXCEPT !.targets = r.newHead]
         IN  q \in Runs /\ SamePlan(q, r) /\ SameMoves(q, r) /\ q.receipted = r.receipted
BY DEF Runs, SamePlan, SameMoves

LEMMA NotedReceipted ==
  ASSUME NEW r \in Runs
  PROVE  LET q == [r EXCEPT !.receipted = TRUE]
         IN  q \in Runs /\ SamePlan(q, r) /\ SameMoves(q, r) /\ q.receipted
BY DEF Runs, SamePlan, SameMoves

\* q replays more than r.
SameStart(q, r) == /\ q.source = r.source /\ q.head = r.head /\ q.lease = r.lease /\ q.landed = r.landed
                   /\ q.kind = r.kind /\ q.receipted = r.receipted

LEMMA ReplayedRun ==
  ASSUME NEW r \in Runs, NEW b \in Branches, NEW h \in OrNone(Heads)
  PROVE  LET q == [r EXCEPT !.newHead[b] = h]
         IN  /\ q \in Runs /\ SameStart(q, r) /\ SameMoves(q, r) /\ q.resolved = r.resolved
             /\ q.newHead = [r.newHead EXCEPT ![b] = h]
BY DEF Runs, SameStart, SameMoves

LEMMA ResolvedRun ==
  ASSUME NEW r \in Runs, NEW b \in Branches, NEW h \in OrNone(Heads)
  PROVE  LET q == [r EXCEPT !.newHead[b] = h, !.resolved = @ \cup {b}]
         IN  /\ q \in Runs /\ SameStart(q, r) /\ SameMoves(q, r) /\ q.resolved = r.resolved \cup {b}
             /\ q.newHead = [r.newHead EXCEPT ![b] = h]
BY DEF Runs, SameStart, SameMoves

LEMMA AdoptedRun ==
  ASSUME NEW r \in Runs, NEW f \in [Branches -> OrNone(Heads)]
  PROVE  LET q == [r EXCEPT !.newHead = f]
         IN  /\ q \in Runs /\ SameStart(q, r) /\ SameMoves(q, r) /\ q.resolved = r.resolved
             /\ q.newHead = f
BY DEF Runs, SameStart, SameMoves

LEMMA ConflictRun ==
  ASSUME NEW r \in Runs, NEW b \in OrNone(Branches)
  PROVE  LET q == [r EXCEPT !.conflict = b]
         IN  /\ q \in Runs /\ SamePlan(q, r) /\ q.conflict = b /\ q.moved = r.moved
             /\ q.sourcesMoving = r.sourcesMoving /\ q.receipted = r.receipted
BY DEF Runs, SamePlan

LEMMA ChosenRun ==
  ASSUME NEW r \in Runs, NEW bs \in SUBSET Branches
  PROVE  LET q == [r EXCEPT !.sourcesMoving = TRUE, !.moved = bs]
         IN  q \in Runs /\ SamePlan(q, r) /\ q.conflict = r.conflict /\ q.moved = bs /\ q.receipted = r.receipted
BY DEF Runs, SamePlan

\* Which of these leave a good run.
LEMMA GoodNoted ==
  ASSUME NEW r \in Runs, NEW q \in Runs, Good(r), SamePlan(q, r), SameMoves(q, r), r.receipted => q.receipted
  PROVE  Good(q) /\ Live(q) = Live(r) /\ (Played(r) => Played(q)) /\ q.conflict = r.conflict
BY DEF Good, Shape, Entry, Live, Played, SamePlan, SameMoves

LEMMA GoodGrown ==
  ASSUME NEW r \in Runs, NEW q \in Runs, Good(r), SameStart(q, r), SameMoves(q, r),
         q.resolved \subseteq r.resolved \cup Live(r),
         \A b \in Branches : \/ q.newHead[b] = r.newHead[b]
                             \/ /\ b \in Live(r) /\ q.newHead[b] \in Own
                                /\ q.newHead[b].commit.work = r.source[b].commit.work
  PROVE  Good(q) /\ Live(q) = Live(r) /\ (Played(r) => Played(q))
<1>1. Live(q) = Live(r) /\ Live(r) \subseteq Branches
    BY DEF Live, SameStart
<1>2. \A b \in Branches : r.newHead[b] # None => q.newHead[b] # None
    BY NoneIsNone
<1>3. \A b \in Live(q) : Entry(q, b)
    BY <1>1 DEF Good, Entry, SameStart, OrNone
<1>4. Shape(q)
  <2>1. \A b \in q.resolved \ Live(q) : q.newHead[b] # None
      BY <1>1, <1>2, RunFields DEF Good, Shape
  <2>2. r.conflict # None => \A c \in Below(r.conflict) \cap Live(r) : q.newHead[c] # None
      BY <1>1, <1>2 DEF Good, Shape
  <2> QED BY <1>1, <2>1, <2>2 DEF Good, Shape, SameMoves, SameStart
<1> QED BY <1>1, <1>2, <1>3, <1>4 DEF Good, Played

LEMMA GoodReplayed ==
  ASSUME NEW r \in Runs, NEW q \in Runs, Good(r), SameStart(q, r), SameMoves(q, r),
         NEW b \in Live(r), q.resolved \in {r.resolved, r.resolved \cup {b}},
         NEW h \in Own, h.commit.work = r.source[b].commit.work, q.newHead = [r.newHead EXCEPT ![b] = h]
  PROVE  Good(q) /\ Live(q) = Live(r) /\ (Played(r) => Played(q))
<1>1. \A c \in Branches : q.newHead[c] = IF c = b THEN h ELSE r.newHead[c]
    BY RunFields
<1>2. b \in Branches /\ q.resolved \subseteq r.resolved \cup Live(r)
    BY DEF Live
<1>3. \A c \in Branches : \/ q.newHead[c] = r.newHead[c]
                           \/ /\ c \in Live(r) /\ q.newHead[c] \in Own
                              /\ q.newHead[c].commit.work = r.source[c].commit.work
    BY <1>1
<1> QED BY <1>2, <1>3, GoodGrown

LEMMA GoodConflict ==
  ASSUME NEW r \in Runs, NEW q \in Runs, Good(r), SamePlan(q, r), q.moved = r.moved,
         q.sourcesMoving = r.sourcesMoving, q.receipted = r.receipted,
         q.conflict \in OrNone(Live(r)),
         q.conflict # None => \A c \in Below(q.conflict) \cap Live(r) : r.newHead[c] # None
  PROVE  Good(q) /\ Live(q) = Live(r)
BY DEF Good, Shape, Entry, Live, SamePlan

LEMMA GoodChosen ==
  ASSUME NEW r \in Runs, NEW q \in Runs, Good(r), SamePlan(q, r), q.conflict = r.conflict,
         q.moved \subseteq Live(r), q.receipted = r.receipted, r.receipted
  PROVE  Good(q) /\ Live(q) = Live(r) /\ (Played(r) => Played(q))
BY DEF Good, Shape, Entry, Live, Played, SamePlan

-----------------------------------------------------------------------------
\* Steps.

\* Nothing the remote has shown, and no receipt, is taken back.
Grows == \A b \in Branches : /\ shown[b] \subseteq shown'[b]
                             /\ receipt[b] \in Receipts => receipt'[b] \in Receipts

LEMMA RepoFrame ==
  ASSUME Repo, UNCHANGED repo, UNCHANGED outside
  PROVE  Repo'
BY DEF Repo, repo, OwnLocal

LEMMA RepoPins ==
  ASSUME Repo, UNCHANGED <<local, tree, edited, kept, receipt, outside>>,
         pins' \in [Branches -> OrNone(Heads)]
  PROVE  Repo'
BY DEF Repo, OwnLocal

LEMMA RemoteFrame ==
  ASSUME Remote, UNCHANGED world
  PROVE  Remote'
BY DEF Remote, world

LEMMA ReceiptsFrame ==
  ASSUME ReceiptsAreTrue, UNCHANGED receipt, \A b \in Branches : shown[b] \subseteq shown'[b]
  PROVE  ReceiptsAreTrue'
BY DEF ReceiptsAreTrue

\* A step that keeps each part of the invariant keeps it all.
LEMMA Keeps ==
  ASSUME IInv, Repo', Remote', ReceiptsAreTrue', Grows,
         disk' \in {None, disk} \/ (Good(disk) /\ Received(disk))',
         \/ Idle
         \/ /\ pc' # "idle" /\ (Good(run) /\ Received(run) /\ Stage(run, pc))'
            /\ asks' \in [Branches -> OrNone(Heads)] /\ {moving', pending', todo'} \subseteq SUBSET Branches
  PROVE  IInv'
<1>1. Saved'
  <2>1. ASSUME disk # None PROVE Received(disk) => (\A b \in Live(disk) : disk.receipted => receipt'[b] \in Receipts)
      BY DEF Received, Grows, Live
  <2> QED BY <2>1 DEF IInv, Saved, Received
<1>2. InHand'
  <2>1. CASE Idle
      BY <2>1 DEF Idle, InHand, NoHeads, OrNone
  <2>2. CASE ~Idle
    <3>1. run' # None
        BY <2>2, NoneIsNone DEF Good
    <3> QED BY <2>2, <3>1 DEF InHand
  <2> QED BY <2>1, <2>2
<1> QED BY <1>1, <1>2 DEF IInv

\* The process ends, or goes on with nothing but its step changed.
LEMMA EndKeeps ==
  ASSUME IInv, Idle, UNCHANGED <<repo, world>>
  PROVE  IInv'
BY Keeps, RepoFrame, RemoteFrame, ReceiptsFrame DEF IInv, repo, world, Grows

LEMMA ExitKeeps ==
  ASSUME IInv, Exit
  PROVE  IInv'
BY EndKeeps DEF Exit

LEMMA GotoKeeps ==
  ASSUME IInv, NEW step, step # "idle", run # None, GotoOnly(step), Stage(run, step)
  PROVE  IInv'
<1> USE DEF GotoOnly, Goto
<1>1. Repo' /\ Remote' /\ ReceiptsAreTrue' /\ Grows /\ UNCHANGED <<disk, receipt, shown>>
    BY RepoFrame, RemoteFrame, ReceiptsFrame DEF IInv, repo, world, Grows
<1>2. Good(run) /\ Received(run) /\ asks \in [Branches -> OrNone(Heads)] /\ {moving, pending, todo} \subseteq SUBSET Branches
    BY DEF IInv, InHand
<1>3. Good(run)' /\ Received(run)' /\ Stage(run, pc)'
    BY <1>1, <1>2 DEF Received, Stage
<1> QED BY <1>1, <1>2, <1>3, Keeps

\* The run is saved, and its process goes on.
LEMMA SaveToKeeps ==
  ASSUME IInv, NEW step, step # "idle", NEW r, SaveTo(r, step), Good(r), Received(r), Stage(r, step)
  PROVE  IInv'
<1> USE DEF SaveTo, Save, Goto
<1>1. Repo' /\ Remote' /\ ReceiptsAreTrue' /\ Grows /\ UNCHANGED <<receipt, shown>>
    BY RepoPins, RemoteFrame, ReceiptsFrame DEF IInv, Repo, world, Grows
<1>2. asks \in [Branches -> OrNone(Heads)] /\ {moving, pending, todo} \subseteq SUBSET Branches
    BY DEF IInv, InHand
<1>3. (Good(run) /\ Received(run) /\ Stage(run, pc) /\ Good(disk) /\ Received(disk))'
    BY <1>1 DEF Received, Stage
<1> QED BY <1>1, <1>2, <1>3, Keeps

\* What a process at work knows.
LEMMA AtWork ==
  ASSUME IInv, pc # "idle"
  PROVE  /\ run # None /\ run \in Runs /\ Good(run) /\ Received(run) /\ Stage(run, pc)
         /\ Live(run) \subseteq Branches
BY RunFields DEF IInv, InHand, Good

-----------------------------------------------------------------------------
\* The replays.

LEMMA CommandKeeps ==
  ASSUME IInv, Continue \/ Abort
  PROVE  IInv'
<1>1. /\ Repo' /\ Remote' /\ ReceiptsAreTrue' /\ Grows /\ UNCHANGED <<disk, receipt, shown, asks, moving, pending, todo>>
      /\ disk # None /\ run' = disk
    BY RepoFrame, RemoteFrame, ReceiptsFrame DEF Continue, Abort, IInv, repo, world, Grows
<1>2. Good(disk) /\ Received(disk) /\ asks \in [Branches -> OrNone(Heads)]
      /\ {moving, pending, todo} \subseteq SUBSET Branches
    BY <1>1 DEF IInv, Saved, InHand
<1>3. pc' \in {"drive", "resume", "recoverAbort"} /\ (pc' = "resume" => disk.conflict # None)
    BY DEF Continue, Abort, Goto
<1>4. Good(run)' /\ Received(run)'
    BY <1>1, <1>2 DEF Received
<1>5. Stage(run, pc)'
    BY <1>1, <1>3 DEF Stage
<1> QED BY <1>1, <1>2, <1>3, <1>4, <1>5, Keeps

LEMMA DieKeeps ==
  ASSUME IInv, Die
  PROVE  IInv'
BY EndKeeps DEF Die

\* The branch to replay next has everything below it replayed.
LEMMA NextIsLowest ==
  ASSUME IInv, pc = "drive", Unplayed
  PROVE  /\ NextBranch \in Live(run) /\ NextBranch \in Branches /\ run.newHead[NextBranch] = None
         /\ \A c \in Below(NextBranch) \cap Live(run) : run.newHead[c] # None
         /\ NewBase(run, NextBranch) \in Base
<1> DEFINE bs == {b \in Live(run) : run.newHead[b] = None}
<1>1. bs \in SUBSET Branches /\ bs # {} /\ run \in Runs
    BY AtWork DEF Unplayed
<1>2. NextBranch \in bs /\ Below(NextBranch) \cap bs = {}
  <2>1. NextBranch = LowestOf(bs)
      BY DEF NextBranch
  <2> HIDE DEF bs
  <2> QED BY <1>1, <2>1, LowestExists
<1>3. \A c \in Below(NextBranch) \cap Live(run) : run.newHead[c] # None
    BY <1>2
<1> QED BY <1>1, <1>2, <1>3, NewBaseIsBase

LEMMA ReplayKeeps ==
  ASSUME IInv, Replay
  PROVE  IInv'
<1> DEFINE b == NextBranch
           h == [run.head[b] EXCEPT !.on = NewBase(run, b), !.commit.copy = 0]
<1>1. pc = "drive" /\ Unplayed /\ run # None /\ run \in Runs /\ Good(run) /\ Received(run)
    BY AtWork DEF Replay, At
<1>2. b \in Live(run) /\ b \in Branches /\ NewBase(run, b) \in Base
    BY <1>1, NextIsLowest
<1>3. run.head[b] \in Own /\ run.head[b].commit.work = run.source[b].commit.work
    BY <1>1, <1>2 DEF Good, Entry
<1>4. h \in Own /\ h.commit.work = run.head[b].commit.work
    BY <1>2, <1>3, ReplayedHead
<1>5. PICK g \in Own : /\ g.commit.work = run.source[b].commit.work
                       /\ run' = [run EXCEPT !.newHead[b] = g]
                       /\ pins' = pins \/ pins' = [pins EXCEPT ![b] = h]
    BY <1>3, <1>4 DEF Replay
<1> HIDE DEF b, h
<1>6. /\ run' \in Runs /\ SameStart(run', run) /\ SameMoves(run', run) /\ run'.resolved = run.resolved
      /\ run'.newHead = [run.newHead EXCEPT ![b] = g]
    BY <1>1, <1>2, <1>5, ReplayedRun DEF OrNone, Own
<1>7. Good(run)' /\ Live(run') = Live(run)
  <2>1. run'.resolved \in {run.resolved, run.resolved \cup {b}}
      BY <1>6
  <2>2. g.commit.work = run.source[b].commit.work
      BY <1>5
  <2>3. SameStart(run', run) /\ SameMoves(run', run) /\ run'.newHead = [run.newHead EXCEPT ![b] = g] /\ run' \in Runs
      BY <1>6
  <2> QED BY <1>1, <1>2, <2>1, <2>2, <2>3, GoodReplayed
<1>8. UNCHANGED <<local, tree, edited, kept, receipt, disk, world, pc, asks, moving, pending, todo>>
    BY DEF Replay
<1>9. pins' \in [Branches -> OrNone(Heads)]
    BY <1>4, <1>5 DEF IInv, Repo, OrNone, Own
<1>10. Repo' /\ Remote' /\ ReceiptsAreTrue' /\ Grows
    BY <1>8, <1>9, RepoPins, RemoteFrame, ReceiptsFrame DEF IInv, world, Grows
<1>11. Received(run)'
    BY <1>1, <1>6, <1>7, <1>8 DEF Received, SameStart
<1>12. Stage(run, pc)'
    BY <1>1, <1>8 DEF Stage
<1>13. asks' \in [Branches -> OrNone(Heads)] /\ {moving', pending', todo'} \subseteq SUBSET Branches
    BY <1>8 DEF IInv, InHand
<1> QED BY <1>1, <1>7, <1>8, <1>10, <1>11, <1>12, <1>13, Keeps

LEMMA OpenConflictKeeps ==
  ASSUME IInv, OpenConflict
  PROVE  IInv'
<1> DEFINE b == NextBranch
<1>1. pc = "drive" /\ Unplayed /\ run # None /\ run \in Runs /\ Good(run) /\ Received(run)
    BY AtWork DEF OpenConflict, At
<1>2. b \in Live(run) /\ b \in Branches /\ \A c \in Below(b) \cap Live(run) : run.newHead[c] # None
    BY <1>1, NextIsLowest
<1>3. disk' = [run EXCEPT !.conflict = b] /\ Idle
      /\ UNCHANGED <<local, tree, edited, pins, kept, receipt, world>>
    BY DEF OpenConflict
<1> HIDE DEF b
<1>4. /\ disk' \in Runs /\ SamePlan(disk', run) /\ disk'.conflict = b /\ disk'.moved = run.moved
      /\ disk'.sourcesMoving = run.sourcesMoving /\ disk'.receipted = run.receipted
    BY <1>1, <1>2, <1>3, ConflictRun DEF OrNone
<1>5. Good(disk)' /\ Live(disk') = Live(run)
    BY <1>1, <1>2, <1>4, GoodConflict DEF OrNone
<1>6. Repo' /\ Remote' /\ ReceiptsAreTrue' /\ Grows
    BY <1>3, RepoPins, RemoteFrame, ReceiptsFrame DEF IInv, Repo, world, Grows
<1>7. Received(disk)'
    BY <1>1, <1>3, <1>4, <1>5 DEF Received
<1> QED BY <1>3, <1>5, <1>6, <1>7, Keeps

LEMMA SaveReplaysKeeps ==
  ASSUME IInv, SaveReplays
  PROVE  IInv'
<1>1. pc = "drive" /\ ~Unplayed /\ run \in Runs /\ Good(run) /\ Received(run)
    BY AtWork DEF SaveReplays, At
<1>2. Played(run) /\ run.kind \in {"push", "noPush"}
    BY <1>1, RunFields DEF Unplayed, Played
<1>3. PICK step \in {"apply", "sources"} : SaveTo(run, step) /\ (step = "apply" <=> run.kind = "noPush")
    BY DEF SaveReplays
<1>4. Stage(run, step)
    BY <1>2, <1>3 DEF Stage
<1> QED BY <1>1, <1>3, <1>4, SaveToKeeps

LEMMA PinResolvedKeeps ==
  ASSUME IInv, PinResolved
  PROVE  IInv'
<1> DEFINE b == run.conflict
<1>1. /\ pc = "resume" /\ run # None /\ run \in Runs /\ Good(run) /\ Received(run) /\ Stage(run, pc)
      /\ run.newHead[b] = None
    BY AtWork DEF PinResolved, At
<1>2. HandMade(b) \in Heads
  <2>1. b \in Live(run) /\ b \in Branches /\ \A c \in Below(b) \cap Live(run) : run.newHead[c] # None
      BY <1>1, AtWork DEF Stage, Good, Shape, OrNone
  <2>2. run.head[b] \in Own /\ NewBase(run, b) \in Base
      BY <1>1, <2>1, NewBaseIsBase DEF Good, Entry
  <2> QED BY <2>2, ReplayedHead DEF HandMade, Own
<1>3. /\ pins' = [pins EXCEPT ![b] = HandMade(b)] /\ pc' = "resolved"
      /\ UNCHANGED <<local, tree, edited, kept, receipt, disk, world, run, asks, moving, pending, todo>>
    BY DEF PinResolved, Goto
<1> HIDE DEF b
<1>4. pins' \in [Branches -> OrNone(Heads)]
    BY <1>2, <1>3 DEF IInv, Repo, OrNone
<1>5. Repo' /\ Remote' /\ ReceiptsAreTrue' /\ Grows
    BY <1>3, <1>4, RepoPins, RemoteFrame, ReceiptsFrame DEF IInv, world, Grows
<1>6. (Good(run) /\ Received(run) /\ Stage(run, pc))'
    BY <1>1, <1>3 DEF Received, Stage
<1>7. asks' \in [Branches -> OrNone(Heads)] /\ {moving', pending', todo'} \subseteq SUBSET Branches
    BY <1>3 DEF IInv, InHand
<1> QED BY <1>3, <1>5, <1>6, <1>7, Keeps

LEMMA SaveResolvedKeeps ==
  ASSUME IInv, SaveResolved
  PROVE  IInv'
<1> DEFINE b == run.conflict
           h == HandMade(b)
<1>1. pc = "resolved" /\ run # None /\ run \in Runs /\ Good(run) /\ Received(run) /\ Stage(run, pc)
    BY AtWork DEF SaveResolved, At
<1>2. b \in Live(run) /\ b \in Branches /\ \A c \in Below(b) \cap Live(run) : run.newHead[c] # None
    BY <1>1, AtWork DEF Stage, Good, Shape, OrNone
<1>3. h \in Own /\ h.commit.work = run.source[b].commit.work
  <2>1. /\ run.head[b] \in Own /\ run.head[b].commit.work = run.source[b].commit.work
        /\ NewBase(run, b) \in Base
      BY <1>1, <1>2, NewBaseIsBase DEF Good, Entry
  <2> QED BY <2>1, ReplayedHead DEF HandMade
<1>4. /\ run' = [run EXCEPT !.newHead[b] = h, !.resolved = @ \cup {b}] /\ disk' = run' /\ pc' = "resume"
      /\ UNCHANGED <<local, tree, edited, pins, kept, receipt, world, asks, moving, pending, todo>>
    BY DEF SaveResolved, Save, Goto
<1> HIDE DEF b, h
<1>5. /\ run' \in Runs /\ SameStart(run', run) /\ SameMoves(run', run) /\ run'.resolved = run.resolved \cup {b}
      /\ run'.newHead = [run.newHead EXCEPT ![b] = h]
    BY <1>1, <1>2, <1>3, <1>4, ResolvedRun DEF OrNone, Own
<1>6. Good(run)' /\ Live(run') = Live(run)
  <2>1. run'.resolved \in {run.resolved, run.resolved \cup {b}}
      BY <1>5
  <2> QED BY <1>1, <1>2, <1>3, <1>5, <2>1, GoodReplayed
<1>7. Repo' /\ Remote' /\ ReceiptsAreTrue' /\ Grows
    BY <1>4, RepoPins, RemoteFrame, ReceiptsFrame DEF IInv, Repo, world, Grows
<1>8. Received(run)'
    BY <1>1, <1>4, <1>5, <1>6 DEF Received, SameStart
<1>9. Stage(run, pc)'
    BY <1>1, <1>4, <1>5 DEF Stage, SameMoves
<1>10. Good(disk)' /\ Received(disk)'
    BY <1>4, <1>6, <1>8 DEF Received
<1>11. asks' \in [Branches -> OrNone(Heads)] /\ {moving', pending', todo'} \subseteq SUBSET Branches
    BY <1>4 DEF IInv, InHand
<1> QED BY <1>4, <1>6, <1>7, <1>8, <1>9, <1>10, <1>11, Keeps

LEMMA CloseWorkspaceKeeps ==
  ASSUME IInv, CloseWorkspace
  PROVE  IInv'
<1>1. pc = "resume" /\ run # None /\ run \in Runs /\ Good(run) /\ Received(run)
    BY AtWork DEF CloseWorkspace, At
<1>2. /\ run' = [run EXCEPT !.conflict = None] /\ disk' = run' /\ pc' = "drive"
      /\ UNCHANGED <<local, tree, edited, pins, kept, receipt, world, asks, moving, pending, todo>>
    BY DEF CloseWorkspace, Save, Goto
<1>3. /\ run' \in Runs /\ SamePlan(run', run) /\ run'.conflict = None /\ run'.moved = run.moved
      /\ run'.sourcesMoving = run.sourcesMoving /\ run'.receipted = run.receipted
    BY <1>1, <1>2, ConflictRun DEF OrNone
<1>4. Good(run)' /\ Live(run') = Live(run)
    BY <1>1, <1>3, GoodConflict DEF OrNone
<1>5. Repo' /\ Remote' /\ ReceiptsAreTrue' /\ Grows
    BY <1>2, RepoPins, RemoteFrame, ReceiptsFrame DEF IInv, Repo, world, Grows
<1>6. Received(run)' /\ Stage(run, pc)'
    BY <1>1, <1>2, <1>3, <1>4 DEF Received, Stage
<1>7. Good(disk)' /\ Received(disk)'
    BY <1>2, <1>4, <1>6 DEF Received
<1>8. asks' \in [Branches -> OrNone(Heads)] /\ {moving', pending', todo'} \subseteq SUBSET Branches
    BY <1>2 DEF IInv, InHand
<1> QED BY <1>2, <1>4, <1>5, <1>6, <1>7, <1>8, Keeps

-----------------------------------------------------------------------------
\* A new plan.
LEMMA SameIsOwn ==
  ASSUME NEW h \in OrNone(Heads), NEW g \in OrNone(Own), SamePatches(h, g)
  PROVE  h \in Own /\ h.commit.work = g.commit.work
BY DEF SamePatches, Own, OrNone

\* The parts of a new plan that starts some branches afresh.
NewSource(fresh) == [b \in Branches |-> IF b \in fresh THEN local[b] ELSE run.source[b]]
Started(fresh)   == [b \in Branches |-> IF b \in fresh THEN local[b] ELSE run.newHead[b]]
FirstHeads(fresh) == [b \in Branches |-> IF b \in merged THEN Started(fresh)[b] ELSE None]
NextPlan(fresh)  == [Run(run.kind, NewSource(fresh), remote, Started(fresh))
                     EXCEPT !.landed = run.landed \cup merged, !.newHead = FirstHeads(fresh),
                            !.resolved = run.resolved \ (fresh \cup run.landed)]

LEMMA ReplanIsGood ==
  ASSUME IInv, run \in Runs, Good(run), Played(run), Plannable, NEW fresh \in SUBSET Branches
  PROVE  Good(NextPlan(fresh)) /\ ~NextPlan(fresh).receipted
<1> DEFINE source  == NewSource(fresh)
           started == Started(fresh)
           newHead == FirstHeads(fresh)
           q       == NextPlan(fresh)
<1>0. /\ source = [b \in Branches |-> IF b \in fresh THEN local[b] ELSE run.source[b]]
      /\ started = [b \in Branches |-> IF b \in fresh THEN local[b] ELSE run.newHead[b]]
      /\ newHead = [b \in Branches |-> IF b \in merged THEN started[b] ELSE None]
    BY DEF NewSource, Started, FirstHeads
<1>1. /\ local \in [Branches -> Heads] /\ \A b \in Branches : local[b] \in Own
      /\ remote \in [Branches -> OrNone(Heads)] /\ trunk \in 1..MaxTrunk /\ merged \subseteq Branches
    BY DEF IInv, Repo, OwnLocal, Remote
<1>2. /\ run.source \in [Branches -> Heads] /\ run.newHead \in [Branches -> OrNone(Heads)]
      /\ run.resolved \subseteq Branches /\ run.landed \subseteq Branches /\ run.kind \in {"push", "noPush"}
    BY RunFields
<1>3. /\ source \in [Branches -> Heads] /\ started \in [Branches -> OrNone(Heads)]
      /\ newHead \in [Branches -> OrNone(Heads)]
    BY <1>0, <1>1, <1>2 DEF OrNone
<1> DEFINE new == Run(run.kind, source, remote, started)
<1>4. /\ new \in Runs /\ new.source = source /\ new.lease = remote /\ new.head = started
      /\ new.conflict = None /\ new.moved = {} /\ ~new.sourcesMoving /\ ~new.receipted
  <2>1. NoHeads \in [Branches -> OrNone(Heads)] /\ None \in OrNone(Branches)
      BY DEF NoHeads, OrNone
  <2> QED BY <1>1, <1>2, <1>3, <2>1 DEF Run, Runs
<1> HIDE DEF new
<1>5. /\ q \in Runs /\ SameMoves(q, new) /\ q.landed = run.landed \cup merged /\ q.newHead = newHead
      /\ q.resolved = run.resolved \ (fresh \cup run.landed)
      /\ q.source = source /\ q.head = started /\ q.lease = remote /\ ~q.receipted
  <2> DEFINE l == run.landed \cup merged
             s == run.resolved \ (fresh \cup run.landed)
  <2>1. q = [new EXCEPT !.landed = l, !.newHead = newHead, !.resolved = s]
      BY DEF new, NextPlan
  <2>2. l \in SUBSET Branches /\ s \in SUBSET Branches
      BY <1>1, <1>2
  <2>3. new \in Runs /\ newHead \in [Branches -> OrNone(Heads)]
      BY <1>3, <1>4
  <2> HIDE DEF l, s, q, newHead
  <2>4. /\ q \in Runs /\ SameMoves(q, new) /\ q.landed = l /\ q.newHead = newHead /\ q.resolved = s
        /\ q.source = new.source /\ q.head = new.head /\ q.lease = new.lease /\ q.receipted = new.receipted
      BY <2>1, <2>2, <2>3 DEF Runs, SameMoves
  <2> QED BY <1>4, <2>4 DEF l, s
<1> HIDE DEF source, started, newHead, q
<1>6. Live(q) \subseteq Live(run) /\ Live(q) \cap merged = {} /\ Live(run) \subseteq Branches
    BY <1>5 DEF Live
<1>7. ASSUME NEW b \in Live(q) PROVE Entry(q, b)
  <2>1. b \in Branches /\ b \in Live(run) /\ b \notin merged
      BY <1>6
  <2>2. Entry(run, b) /\ run.newHead[b] # None
      BY <2>1 DEF Good, Played
  <2>3. q.lease[b] \in OrNone(Own)
    <3>1. remote[b] = run.lease[b] \/ SamePatches(remote[b], run.lease[b])
        BY <2>1 DEF Plannable
    <3> QED BY <1>1, <1>5, <2>1, <2>2, <3>1, SameIsOwn DEF Entry, OrNone
  <2>4. /\ q.source[b] \in Own /\ q.head[b] \in Own
        /\ q.head[b].commit.work = q.source[b].commit.work
      BY <1>0, <1>1, <1>5, <2>1, <2>2 DEF Entry, OrNone
  <2>5. q.newHead[b] = None
      BY <1>0, <1>5, <2>1
  <2> QED BY <2>3, <2>4, <2>5 DEF Entry, OrNone
<1>8. Shape(q)
  <2>1. ASSUME NEW b \in q.resolved \ Live(q) PROVE q.newHead[b] # None
    <3>1. b \in Branches /\ b \in merged /\ b \in Live(run) /\ b \notin fresh
        BY <1>2, <1>5 DEF Live
    <3> QED BY <1>0, <1>5, <3>1 DEF Played
  <2>2. q.conflict = None /\ q.moved = {} /\ ~q.sourcesMoving
      BY <1>4, <1>5 DEF SameMoves
  <2> QED BY <2>1, <2>2 DEF Shape, OrNone
<1> QED BY <1>5, <1>7, <1>8 DEF Good, q

LEMMA ReplanKeeps ==
  ASSUME IInv, pc # "idle", Played(run), NEW fresh \in SUBSET Branches, Replan(fresh)
  PROVE  IInv'
<1>1. run \in Runs /\ Good(run)
    BY AtWork
<1>2. CASE Exit
    BY <1>2, ExitKeeps
<1>3. CASE ~Exit
  <2>1. /\ Plannable /\ run' = disk' /\ pc' = "drive"
        /\ pins' = [b \in Branches |-> IF b \in run.landed THEN None ELSE pins[b]]
        /\ UNCHANGED <<local, tree, edited, kept, receipt, world, asks, moving, pending, todo>>
        /\ run' = NextPlan(fresh)
      BY <1>3 DEF Replan, Save, Goto, NextPlan, FirstHeads, NewSource, Started
  <2>2. Good(run') /\ ~run'.receipted
      BY <1>1, <2>1, ReplanIsGood
  <2>3. Good(run)' /\ Good(disk)'
      BY <2>1, <2>2
  <2>4. Received(run)' /\ Received(disk)' /\ Stage(run, pc)'
      BY <2>1, <2>2 DEF Received, Stage
  <2>5. pins' \in [Branches -> OrNone(Heads)]
      BY <2>1 DEF IInv, Repo, OrNone
  <2>6. Repo' /\ Remote' /\ ReceiptsAreTrue' /\ Grows
      BY <2>1, <2>5, RepoPins, RemoteFrame, ReceiptsFrame DEF IInv, world, Grows
  <2>7. asks' \in [Branches -> OrNone(Heads)] /\ {moving', pending', todo'} \subseteq SUBSET Branches
      BY <2>1 DEF IInv, InHand
  <2> QED BY <2>1, <2>3, <2>4, <2>6, <2>7, Keeps
<1> QED BY <1>2, <1>3

-----------------------------------------------------------------------------
\* The push.

LEMMA SourcesKeeps ==
  ASSUME IInv, Sources
  PROVE  IInv'
<1>1. pc = "sources" /\ run # None /\ run \in Runs /\ Good(run) /\ Stage(run, pc)
    BY AtWork DEF Sources, At
<1>2. Played(run)
    BY <1>1 DEF Stage
<1>3. run.sourcesMoving => run.receipted
    BY <1>1 DEF Good, Shape
<1>4. Stage(run, "recover") /\ (run.receipted => Stage(run, "choose"))
    BY <1>2 DEF Stage
<1>5. MovedSources(run) \in SUBSET Branches
    BY <1>1, RunFields DEF MovedSources
<1>6. CASE run.sourcesMoving /\ GotoOnly("choose")
    BY <1>1, <1>3, <1>4, <1>6, GotoKeeps
<1>7. CASE Replan(MovedSources(run))
    BY <1>1, <1>2, <1>5, <1>7, ReplanKeeps
<1>8. CASE GotoOnly("recover")
    BY <1>1, <1>4, <1>8, GotoKeeps
<1> QED BY <1>6, <1>7, <1>8 DEF Sources

LEMMA RecoverKeeps ==
  ASSUME IInv, NEW from, NEW to, Recover(from, to), from # "idle", to \in {"pin", "publish", "settle"},
         to # "settle" => Played(run)
  PROVE  IInv'
<1>1. run # None /\ run \in Runs /\ Good(run) /\ Received(run)
    BY AtWork DEF Recover, At
<1> DEFINE q == [run EXCEPT !.pushed = TRUE]
<1>2. q \in Runs /\ SamePlan(q, run) /\ SameMoves(q, run) /\ q.receipted = run.receipted
    BY <1>1, NotedPushed
<1>3. CASE SaveTo(q, to)
  <2> HIDE DEF q
  <2>1. Good(q) /\ Live(q) = Live(run) /\ (Played(run) => Played(q))
      BY <1>1, <1>2, GoodNoted
  <2>2. Received(q) /\ Stage(q, to)
      BY <1>1, <1>2, <2>1 DEF Received, Stage
  <2> QED BY <1>3, <2>1, <2>2, SaveToKeeps
<1>4. CASE GotoOnly(to)
  <2>1. Stage(run, to)
      BY DEF Stage
  <2> QED BY <1>1, <1>4, <2>1, GotoKeeps
<1> QED BY <1>3, <1>4 DEF Recover

LEMMA PinAllKeeps ==
  ASSUME IInv, PinAll
  PROVE  IInv'
<1>1. pc = "pin" /\ run # None /\ run \in Runs /\ Good(run) /\ Received(run) /\ Stage(run, pc)
    BY AtWork DEF PinAll, At
<1>2. CASE Exit
    BY <1>2, ExitKeeps
<1>3. CASE ~Exit
  <2>1. /\ pins' = [b \in Branches |-> IF b \in Live(run) THEN run.newHead[b] ELSE pins[b]]
        /\ pc' = "landed"
        /\ UNCHANGED <<local, tree, edited, kept, receipt, disk, world, run, asks, moving, pending, todo>>
      BY <1>3 DEF PinAll, Goto
  <2>2. pins' \in [Branches -> OrNone(Heads)]
      BY <1>1, <2>1, RunFields DEF IInv, Repo
  <2>3. Repo' /\ Remote' /\ ReceiptsAreTrue' /\ Grows
      BY <2>1, <2>2, RepoPins, RemoteFrame, ReceiptsFrame DEF IInv, world, Grows
  <2>4. (Good(run) /\ Received(run) /\ Stage(run, pc))'
      BY <1>1, <2>1 DEF Received, Stage
  <2>5. asks' \in [Branches -> OrNone(Heads)] /\ {moving', pending', todo'} \subseteq SUBSET Branches
      BY <2>1 DEF IInv, InHand
  <2> QED BY <2>1, <2>3, <2>4, <2>5, Keeps
<1> QED BY <1>2, <1>3

LEMMA LandedKeeps ==
  ASSUME IInv, Landed
  PROVE  IInv'
<1>1. pc = "landed" /\ run # None /\ Played(run)
    BY AtWork DEF Landed, At, Stage
<1>2. Stage(run, "recoverPush")
    BY <1>1 DEF Stage
<1>3. CASE Replan({})
    BY <1>1, <1>3, ReplanKeeps
<1>4. CASE GotoOnly("recoverPush")
    BY <1>1, <1>2, <1>4, GotoKeeps
<1> QED BY <1>3, <1>4 DEF Landed

LEMMA PublishKeeps ==
  ASSUME IInv, Publish
  PROVE  IInv'
<1>1. pc = "publish" /\ run # None /\ run \in Runs /\ Good(run) /\ Received(run) /\ Played(run)
      /\ Live(run) \subseteq Branches
    BY AtWork DEF Publish, At, Stage
<1>2. CASE Exit
    BY <1>2, ExitKeeps
<1>3. CASE Matches(run, run.newHead) /\ GotoOnly("receipts")
  <2>1. \A b \in Live(run) : run.newHead[b] \in shown[b]
      BY <1>1, <1>3 DEF Matches, IInv, Remote
  <2>2. Stage(run, "receipts")
      BY <1>1, <2>1 DEF Stage
  <2> QED BY <1>1, <1>3, <2>2, GotoKeeps
<1>4. CASE /\ Save([run EXCEPT !.publishing = TRUE, !.targets = run.newHead])
           /\ asks' = run.lease /\ Goto("push")
           /\ UNCHANGED <<local, tree, edited, pins, kept, receipt, workspace, world, ghost,
                          moving, pending, todo>>
  <2>1. /\ run' \in Runs /\ SamePlan(run', run) /\ SameMoves(run', run)
        /\ run'.receipted = run.receipted /\ disk' = run'
      BY <1>1, <1>4, NotedPublishing DEF Save
  <2>2. Good(run)' /\ Live(run') = Live(run) /\ Played(run)'
      BY <1>1, <2>1, GoodNoted
  <2>3. Received(run)' /\ Good(disk)' /\ Received(disk)'
      BY <1>1, <1>4, <2>1, <2>2 DEF Received
  <2>4. \A b \in Live(run) : asks'[b] \in OrNone(Own)
      BY <1>1, <1>4 DEF Good, Entry
  <2>5. Stage(run, pc)'
      BY <1>4, <2>2, <2>4 DEF Stage, Goto
  <2>6. Repo' /\ Remote' /\ ReceiptsAreTrue' /\ Grows
      BY <1>4, RepoPins, RemoteFrame, ReceiptsFrame DEF IInv, Repo, world, Grows
  <2>7. asks' \in [Branches -> OrNone(Heads)] /\ {moving', pending', todo'} \subseteq SUBSET Branches /\ pc' # "idle"
      BY <1>1, <1>4, RunFields DEF IInv, InHand, Goto
  <2> QED BY <2>2, <2>3, <2>5, <2>6, <2>7, Keeps
<1> QED BY <1>2, <1>3, <1>4 DEF Publish

LEMMA PushKeeps ==
  ASSUME IInv, Push("push", GotoOnly("stale")) \/ Push("repush", Exit)
  PROVE  IInv'
<1>1. /\ pc \in {"push", "repush"} /\ run # None /\ run \in Runs /\ Good(run) /\ Received(run) /\ Stage(run, pc)
      /\ Played(run) /\ Live(run) \subseteq Branches
    BY AtWork DEF Push, At, Stage
<1>2. CASE Exit
    BY <1>2, ExitKeeps
<1>3. CASE pc = "push" /\ GotoOnly("stale")
  <2>1. Stage(run, "stale")
      BY <1>1, <1>3 DEF Stage
  <2> QED BY <1>1, <1>3, <2>1, GotoKeeps
<1>4. CASE Leased
  <2>1. /\ remote' = [b \in Branches |-> IF b \in Live(run) THEN run.newHead[b] ELSE remote[b]]
        /\ shown' = [b \in Branches |-> shown[b] \cup {remote'[b]}]
        /\ (pc' = "pushed" /\ UNCHANGED <<run, asks, moving, pending, todo>>) \/ Idle
        /\ UNCHANGED <<repo, trunk, merged, outside>>
      BY <1>4 DEF Push, Goto
  <2>2. Remote'
      BY <1>1, <2>1, RunFields DEF IInv, Remote
  <2>3. \A b \in Branches : shown[b] \subseteq shown'[b]
      BY <2>1
  <2>4. Repo' /\ ReceiptsAreTrue' /\ Grows /\ UNCHANGED <<disk, receipt>>
      BY <2>1, <2>3, RepoFrame, ReceiptsFrame DEF IInv, repo, Grows
  <2>5. ASSUME ~Idle PROVE (Good(run) /\ Received(run) /\ Stage(run, pc))' /\ pc' # "idle"
    <3>1. \A b \in Live(run) : run.newHead[b] \in shown'[b]
        BY <1>1, <2>1
    <3>2. Stage(run, pc)'
        BY <1>1, <2>1, <2>5, <3>1 DEF Stage, Played
    <3> QED BY <1>1, <2>1, <2>4, <2>5, <3>2 DEF Received
  <2>6. ASSUME ~Idle PROVE asks' \in [Branches -> OrNone(Heads)] /\ {moving', pending', todo'} \subseteq SUBSET Branches
      BY <2>1, <2>6 DEF IInv, InHand
  <2> QED BY <2>2, <2>4, <2>5, <2>6, Keeps
<1> QED BY <1>1, <1>2, <1>3, <1>4 DEF Push, At

\* What the remote shows and a push leases anew has our patches.
LEMMA EquivalentIsOwn ==
  ASSUME IInv, pc = "stale", NEW b \in Live(run), Equivalent(b)
  PROVE  /\ b \in Branches /\ remote[b] \in OrNone(Own) /\ run.newHead[b] \in Own
         /\ remote[b] # asks[b] => /\ remote[b] \in Own
                                   /\ remote[b].commit.work = run.newHead[b].commit.work
                                   /\ remote[b].commit.work = run.source[b].commit.work
<1>1. /\ run \in Runs /\ Entry(run, b) /\ b \in Branches /\ asks[b] \in OrNone(Own) /\ run.newHead[b] # None
    BY AtWork DEF Stage, Good, Played
<1>2. remote[b] \in OrNone(Heads)
    BY <1>1 DEF IInv, Remote
<1>3. run.newHead[b] \in Own /\ run.newHead[b].commit.work = run.source[b].commit.work
    BY <1>1 DEF Entry, OrNone
<1>4. CASE remote[b] = asks[b]
    BY <1>1, <1>3, <1>4
<1>5. CASE SamePatches(remote[b], run.newHead[b])
  <2>1. remote[b] \in Own /\ remote[b].commit.work = run.newHead[b].commit.work
      BY <1>2, <1>3, <1>5, SameIsOwn DEF OrNone
  <2> QED BY <1>1, <1>3, <2>1 DEF OrNone
<1> QED BY <1>4, <1>5 DEF Equivalent

LEMMA ReleaseKeeps ==
  ASSUME IInv, Release
  PROVE  IInv'
<1>1. /\ pc = "stale" /\ run # None /\ run \in Runs /\ Good(run) /\ Received(run) /\ Stage(run, pc)
      /\ Played(run) /\ Live(run) \subseteq Branches
    BY AtWork DEF Release, At, Stage
<1>2. remote \in [Branches -> OrNone(Heads)] /\ \A b \in Branches : remote[b] \in shown[b]
    BY DEF IInv, Remote
<1>3. ASSUME NEW bs, Adopt(bs), UNCHANGED <<local, tree, edited, kept, receipt, disk, world>>
      PROVE  Repo' /\ Remote' /\ ReceiptsAreTrue' /\ Grows
  <2>1. pins' \in [Branches -> OrNone(Heads)]
      BY <1>2, <1>3 DEF Adopt, IInv, Repo
  <2> QED BY <1>3, <2>1, RepoPins, RemoteFrame, ReceiptsFrame DEF IInv, world, Grows
<1>4. CASE Matches(run, run.newHead) /\ GotoOnly("pushed")
  <2>1. \A b \in Live(run) : run.newHead[b] \in shown[b]
      BY <1>1, <1>2, <1>4 DEF Matches
  <2>2. Stage(run, "pushed")
      BY <1>1, <2>1 DEF Stage
  <2> QED BY <1>1, <1>4, <2>2, GotoKeeps
<1>5. CASE /\ Adopt(Adopted \cap UpTo(LowestOf(Refused))) /\ Idle
           /\ UNCHANGED <<local, tree, edited, kept, receipt, disk, workspace, world, ghost>>
    BY <1>3, <1>5, Keeps
<1>6. CASE /\ Refused = {}
           /\ asks' = [b \in Branches |-> IF b \in Live(run) THEN remote[b] ELSE asks[b]]
           /\ Adopt(Adopted)
           /\ run'  = [run EXCEPT !.newHead = [b \in Branches |-> IF b \in Adopted THEN remote[b] ELSE @[b]]]
           /\ Goto("released")
           /\ UNCHANGED <<local, tree, edited, kept, receipt, disk, workspace, world, ghost,
                          moving, pending, todo>>
  <2> DEFINE f == [b \in Branches |-> IF b \in Adopted THEN remote[b] ELSE run.newHead[b]]
  <2>1. \A b \in Live(run) : Equivalent(b)
      BY <1>6 DEF Refused
  <2>2. asks \in [Branches -> OrNone(Heads)] /\ {moving, pending, todo} \subseteq SUBSET Branches
      BY DEF IInv, InHand
  <2>3. f \in [Branches -> OrNone(Heads)] /\ run' = [run EXCEPT !.newHead = f]
    <3>1. run.newHead \in [Branches -> OrNone(Heads)]
        BY <1>1, RunFields
    <3> QED BY <1>1, <1>2, <1>6, <3>1
  <2>4. \A b \in Branches : \/ f[b] = run.newHead[b]
                            \/ /\ b \in Live(run) /\ f[b] \in Own
                               /\ f[b].commit.work = run.source[b].commit.work
      BY <1>1, <2>1, EquivalentIsOwn DEF Adopted
  <2> HIDE DEF f
  <2>5. /\ run' \in Runs /\ SameStart(run', run) /\ SameMoves(run', run) /\ run'.resolved = run.resolved
        /\ run'.newHead = f
      BY <1>1, <2>3, AdoptedRun
  <2>6. Good(run)' /\ Live(run') = Live(run) /\ Played(run)'
    <3>1. run'.resolved \subseteq run.resolved \cup Live(run)
        BY <2>5
    <3> QED BY <1>1, <2>4, <2>5, <3>1, GoodGrown
  <2>7. Received(run)'
      BY <1>1, <1>6, <2>5, <2>6 DEF Received, SameStart
  <2>8. \A b \in Live(run) : asks'[b] \in OrNone(Own) /\ asks'[b] \in shown[b]
      BY <1>1, <1>2, <1>6, <2>1, EquivalentIsOwn
  <2>9. Stage(run, pc)'
      BY <1>6, <2>6, <2>8 DEF Stage, Goto, world
  <2>10. asks' \in [Branches -> OrNone(Heads)] /\ {moving', pending', todo'} \subseteq SUBSET Branches /\ pc' # "idle"
      BY <1>2, <1>6, <2>2 DEF Goto
  <2> QED BY <1>3, <1>6, <2>6, <2>7, <2>9, <2>10, Keeps
<1> QED BY <1>4, <1>5, <1>6 DEF Release

LEMMA ReleasedKeeps ==
  ASSUME IInv, Released
  PROVE  IInv'
<1>1. /\ pc = "released" /\ run # None /\ run \in Runs /\ Good(run) /\ Received(run) /\ Stage(run, pc)
      /\ Played(run)
    BY AtWork DEF Released, At, Stage
<1> DEFINE q == [run EXCEPT !.targets = run.newHead]
<1>2. q \in Runs /\ SamePlan(q, run) /\ SameMoves(q, run) /\ q.receipted = run.receipted
    BY <1>1, NotedTargets
<1>3. PICK step \in {"pushed", "repush"} :
        /\ SaveTo(q, step)
        /\ step = "pushed" => \A b \in Live(run) : run.newHead[b] = asks[b]
    BY DEF Released
<1> HIDE DEF q
<1>4. Good(q) /\ Live(q) = Live(run) /\ Played(q) /\ q.newHead = run.newHead
    BY <1>1, <1>2, GoodNoted DEF SamePlan
<1>5. Received(q)
    BY <1>1, <1>2, <1>4 DEF Received
<1>6. Stage(q, step)
    BY <1>1, <1>3, <1>4 DEF Stage
<1> QED BY <1>3, <1>4, <1>5, <1>6, SaveToKeeps

LEMMA PushedKeeps ==
  ASSUME IInv, Pushed
  PROVE  IInv'
<1>1. /\ pc = "pushed" /\ run # None /\ run \in Runs /\ Good(run) /\ Received(run) /\ Stage(run, pc)
      /\ Played(run)
    BY AtWork DEF Pushed, At, Stage
<1> DEFINE q == [run EXCEPT !.pushed = TRUE]
<1>2. q \in Runs /\ SamePlan(q, run) /\ SameMoves(q, run) /\ q.receipted = run.receipted
    BY <1>1, NotedPushed
<1>3. SaveTo(q, "receipts")
    BY DEF Pushed
<1> HIDE DEF q
<1>4. Good(q) /\ Live(q) = Live(run) /\ Played(q) /\ q.newHead = run.newHead
    BY <1>1, <1>2, GoodNoted DEF SamePlan
<1>5. Received(q) /\ Stage(q, "receipts")
    BY <1>1, <1>2, <1>4 DEF Received, Stage
<1> QED BY <1>3, <1>4, <1>5, SaveToKeeps

LEMMA RecordReceiptsKeeps ==
  ASSUME IInv, RecordReceipts
  PROVE  IInv'
<1>1. /\ pc = "receipts" /\ run # None /\ run \in Runs /\ Good(run) /\ Received(run) /\ Stage(run, pc)
      /\ Played(run) /\ Live(run) \subseteq Branches
    BY AtWork DEF RecordReceipts, At, Stage
<1>2. /\ receipt' = [b \in Branches |-> IF b \in Live(run) THEN Receipt(run.source[b], run.newHead[b])
                                        ELSE receipt[b]]
      /\ pc' = "receipted"
      /\ UNCHANGED <<local, tree, edited, pins, kept, disk, world, run, asks, moving, pending, todo>>
    BY DEF RecordReceipts, Goto
<1>3. ASSUME NEW b \in Live(run)
      PROVE  Receipt(run.source[b], run.newHead[b]) \in Receipts /\ run.newHead[b] \in shown[b]
    BY <1>1, <1>3 DEF Stage, Good, Entry, Played, Receipt, Receipts, Own, OrNone
<1>4. receipt' \in [Branches -> OrNone(Receipts)] /\ Grows
    BY <1>1, <1>2, <1>3 DEF IInv, Repo, OrNone, Grows, world
<1>5. ReceiptsAreTrue'
    BY <1>1, <1>2, <1>3 DEF IInv, ReceiptsAreTrue, Receipt, world
<1>6. Repo' /\ Remote'
    BY <1>2, <1>4, RemoteFrame DEF IInv, Repo, OwnLocal, world
<1>7. (Good(run) /\ Received(run))'
    BY <1>1, <1>2, <1>4 DEF Received, Grows
<1>8. Stage(run, pc)'
    BY <1>1, <1>2, <1>3 DEF Stage
<1>9. asks' \in [Branches -> OrNone(Heads)] /\ {moving', pending', todo'} \subseteq SUBSET Branches
    BY <1>2 DEF IInv, InHand
<1> QED BY <1>2, <1>4, <1>5, <1>6, <1>7, <1>8, <1>9, Keeps

LEMMA ReceiptedKeeps ==
  ASSUME IInv, Receipted
  PROVE  IInv'
<1>1. /\ pc = "receipted" /\ run # None /\ run \in Runs /\ Good(run) /\ Received(run) /\ Stage(run, pc)
      /\ Played(run)
    BY AtWork DEF Receipted, At, Stage
<1> DEFINE q == [run EXCEPT !.receipted = TRUE]
<1>2. q \in Runs /\ SamePlan(q, run) /\ SameMoves(q, run) /\ q.receipted
    BY <1>1, NotedReceipted
<1>3. SaveTo(q, "choose")
    BY DEF Receipted
<1> HIDE DEF q
<1>4. Good(q) /\ Live(q) = Live(run) /\ Played(q)
    BY <1>1, <1>2, GoodNoted
<1>5. Received(q) /\ Stage(q, "choose")
    BY <1>1, <1>2, <1>4 DEF Received, Stage
<1> QED BY <1>3, <1>4, <1>5, SaveToKeeps

-----------------------------------------------------------------------------
\* The local branches.

LEMMA ChooseKeeps ==
  ASSUME IInv, Choose
  PROVE  IInv'
<1>1. /\ pc = "choose" /\ run # None /\ run \in Runs /\ Good(run) /\ Received(run) /\ Stage(run, pc)
      /\ Played(run) /\ run.receipted /\ Live(run) \subseteq Branches
    BY AtWork DEF Choose, At, Stage
<1>2. CASE GotoOnly("holders")
  <2>1. Stage(run, "holders")
      BY <1>1 DEF Stage
  <2> QED BY <1>1, <1>2, <2>1, GotoKeeps
<1>3. CASE SaveTo([run EXCEPT !.sourcesMoving = TRUE, !.moved = Movers(run) \ Stays], "holders")
  <2> DEFINE bs == Movers(run) \ Stays
             q  == [run EXCEPT !.sourcesMoving = TRUE, !.moved = bs]
  <2>1. bs \subseteq Live(run) /\ bs \in SUBSET Branches
      BY <1>1 DEF Movers
  <2>2. SaveTo(q, "holders")
      BY <1>3
  <2> HIDE DEF bs
  <2>3. q \in Runs /\ SamePlan(q, run) /\ q.conflict = run.conflict /\ q.moved = bs /\ q.receipted = run.receipted
      BY <1>1, <2>1, ChosenRun
  <2> HIDE DEF q
  <2>4. Good(q) /\ Live(q) = Live(run) /\ Played(q)
      BY <1>1, <2>1, <2>3, GoodChosen
  <2>5. Received(q) /\ Stage(q, "holders")
      BY <1>1, <2>3, <2>4 DEF Received, Stage
  <2> QED BY <2>2, <2>4, <2>5, SaveToKeeps
<1> QED BY <1>2, <1>3 DEF Choose

LEMMA HoldersKeeps ==
  ASSUME IInv, Holders
  PROVE  IInv'
<1>1. /\ pc = "holders" /\ run # None /\ run \in Runs /\ Good(run) /\ Received(run) /\ Stage(run, pc)
      /\ Played(run) /\ run.receipted /\ Live(run) \subseteq Branches /\ run.moved \subseteq Live(run)
    BY AtWork DEF Holders, At, Stage, Good, Shape
<1>2. CASE Exit
    BY <1>2, ExitKeeps
<1>3. CASE ~Exit
  <2>1. /\ moving' \subseteq run.moved /\ pending' \subseteq run.moved /\ todo' = {}
        /\ pc' \in {"complete", "refs"} /\ UNCHANGED <<repo, world, run, asks>>
      BY <1>3 DEF Holders, Goto
  <2>2. Repo' /\ Remote' /\ ReceiptsAreTrue' /\ Grows /\ UNCHANGED <<disk, receipt, shown>>
      BY <2>1, RepoFrame, RemoteFrame, ReceiptsFrame DEF IInv, repo, world, Grows
  <2>3. (Good(run) /\ Received(run) /\ Stage(run, pc))'
      BY <1>1, <2>1, <2>2 DEF Received, Stage
  <2>4. asks' \in [Branches -> OrNone(Heads)] /\ {moving', pending', todo'} \subseteq SUBSET Branches
      BY <1>1, <2>1 DEF IInv, InHand
  <2> QED BY <2>1, <2>2, <2>3, <2>4, Keeps
<1> QED BY <1>2, <1>3

\* What a live branch is moved to, forth and back, has the work of its source.
LEMMA MovesKeepWork ==
  ASSUME IInv, MoveRefs \/ Restore \/ WriteRefs
  PROVE  /\ local' \in [Branches -> Heads]
         /\ \A b \in Branches : local'[b] \in Own /\ local'[b].commit.work = local[b].commit.work
<1>1. pc # "idle"
    BY DEF MoveRefs, Restore, WriteRefs, At
<1>2. /\ run \in Runs /\ Good(run) /\ Stage(run, pc) /\ Live(run) \subseteq Branches
    BY <1>1, AtWork
<1>3. local \in [Branches -> Heads] /\ \A b \in Branches : local[b] \in Own
    BY DEF IInv, Repo, OwnLocal
<1>4. Played(run)
    BY <1>2 DEF Stage, MoveRefs, Restore, WriteRefs, At
<1>5. \A b \in Live(run) : /\ run.newHead[b] \in Own /\ run.source[b] \in Own
                           /\ run.newHead[b].commit.work = run.source[b].commit.work
    BY <1>2, <1>4 DEF Good, Entry, Played, OrNone
<1>6. CASE Exit
    BY <1>3, <1>6 DEF Exit, repo
<1>7. CASE MoveRefs /\ ~Exit
  <2>1. /\ \A b \in moving : Expected(b)
        /\ local' = [b \in Branches |-> IF b \in moving THEN run.newHead[b] ELSE local[b]]
      BY <1>7 DEF MoveRefs
  <2>2. moving \subseteq Live(run) /\ pending \subseteq Live(run)
      BY <1>2, <1>7 DEF Stage, MoveRefs, At
  <2>3. \A b \in moving : local[b] \in {run.source[b], run.newHead[b]}
      BY <2>1 DEF Expected
  <2> QED BY <1>2, <1>3, <1>5, <2>1, <2>2, <2>3 DEF Own
<1>8. CASE Restore
  <2>1. pending \subseteq Live(run)
      BY <1>2, <1>8 DEF Stage, Restore, At
  <2>2. \/ local' = local
        \/ /\ \A b \in pending : local[b] = run.newHead[b]
           /\ local' = [b \in Branches |-> IF b \in pending THEN run.source[b] ELSE local[b]]
      BY <1>8 DEF Restore
  <2> QED BY <1>2, <1>3, <1>5, <2>1, <2>2 DEF Own
<1>9. CASE WriteRefs
  <2>1. /\ \A b \in Movers(run) : local[b] \in {run.source[b], run.newHead[b]}
        /\ local' = [b \in Branches |-> IF b \in Movers(run) THEN run.newHead[b] ELSE local[b]]
      BY <1>9 DEF WriteRefs, Writable
  <2>2. Movers(run) \subseteq Live(run)
      BY DEF Movers
  <2> QED BY <1>2, <1>3, <1>5, <2>1, <2>2 DEF Own
<1> QED BY <1>6, <1>7, <1>8, <1>9

LEMMA MoveRefsKeeps ==
  ASSUME IInv, MoveRefs
  PROVE  IInv'
<1>1. /\ pc = "refs" /\ run # None /\ run \in Runs /\ Good(run) /\ Received(run) /\ Stage(run, pc)
      /\ Played(run) /\ run.receipted /\ Live(run) \subseteq Branches
    BY AtWork DEF MoveRefs, At, Stage
<1>2. CASE Exit
    BY <1>2, ExitKeeps
<1>3. CASE ~Exit
  <2>1. /\ receipt' = [b \in Branches |-> IF b \in moving THEN Receipt(receipt[b].head, receipt[b].head)
                                          ELSE receipt[b]]
        /\ todo' = moving /\ pc' = "align"
        /\ UNCHANGED <<tree, edited, pins, kept, disk, world, run, asks, moving, pending>>
      BY <1>3 DEF MoveRefs, Goto
  <2>2. moving \cup pending \subseteq Live(run)
      BY <1>1 DEF Stage
  <2>3. \A b \in moving : /\ receipt[b] \in Receipts
                          /\ receipt[b].head \in Heads /\ receipt[b].head \in shown[b]
    <3>1. \A b \in moving : receipt[b] \in Receipts /\ b \in Branches
        BY <1>1, <2>2 DEF Received
    <3>2. \A b \in moving : receipt[b].head \in shown[b]
        BY <3>1, NoneIsNone DEF IInv, ReceiptsAreTrue
    <3>3. \A b \in moving : receipt[b].head \in Heads
        BY <3>1 DEF Receipts
    <3> QED BY <3>1, <3>2, <3>3
  <2>4. \A b \in moving : Receipt(receipt[b].head, receipt[b].head) \in Receipts
      BY <2>3 DEF Receipt, Receipts
  <2>5. receipt' \in [Branches -> OrNone(Receipts)] /\ Grows
      BY <2>1, <2>4 DEF IInv, Repo, OrNone, Grows, world
  <2>6. ReceiptsAreTrue'
      BY <2>1, <2>3 DEF IInv, ReceiptsAreTrue, Receipt, world
  <2>7. Repo' /\ Remote'
    <3>1. /\ local' \in [Branches -> Heads]
          /\ \A b \in Branches : local'[b] \in Own /\ local'[b].commit.work = local[b].commit.work
        BY MovesKeepWork
    <3> QED BY <2>1, <2>5, <3>1, RemoteFrame DEF IInv, Repo, OwnLocal, world
  <2>8. (Good(run) /\ Received(run))'
      BY <1>1, <2>1, <2>5 DEF Received, Grows
  <2>9. Stage(run, pc)'
      BY <1>1, <2>1, <2>2 DEF Stage
  <2>10. asks' \in [Branches -> OrNone(Heads)] /\ {moving', pending', todo'} \subseteq SUBSET Branches
      BY <2>1 DEF IInv, InHand
  <2> QED BY <2>1, <2>5, <2>6, <2>7, <2>8, <2>9, <2>10, Keeps
<1> QED BY <1>2, <1>3

LEMMA AlignKeeps ==
  ASSUME IInv, Align
  PROVE  IInv'
<1> DEFINE b == LowestOf(todo)
<1>1. /\ pc = "align" /\ run # None /\ run \in Runs /\ Good(run) /\ Received(run) /\ Stage(run, pc)
      /\ Played(run) /\ todo \subseteq Live(run) /\ Live(run) \subseteq Branches
    BY AtWork DEF Align, At, Stage
<1>2. b \in Live(run) /\ b \in Branches
    BY <1>1, LowestExists DEF Align
<1>3. run.newHead[b] \in Heads
    BY <1>1, <1>2, RunFields DEF Played, OrNone
<1>4. /\ tree' = [tree EXCEPT ![b] = IF @ = None THEN None ELSE run.newHead[b]]
      /\ todo' = todo \ {b}
      /\ UNCHANGED <<local, edited, pins, kept, receipt, disk, world, pc, run, asks, moving, pending>>
    BY DEF Align
<1> HIDE DEF b
<1>5. tree' \in [Branches -> OrNone(Heads)]
    BY <1>3, <1>4 DEF IInv, Repo, OrNone
<1>6. Repo' /\ Remote' /\ ReceiptsAreTrue' /\ Grows
    BY <1>4, <1>5, RemoteFrame, ReceiptsFrame DEF IInv, Repo, OwnLocal, world, Grows
<1>7. (Good(run) /\ Received(run) /\ Stage(run, pc))'
    BY <1>1, <1>4 DEF Received, Stage
<1>8. asks' \in [Branches -> OrNone(Heads)] /\ {moving', pending', todo'} \subseteq SUBSET Branches
    BY <1>4 DEF IInv, InHand
<1> QED BY <1>1, <1>4, <1>6, <1>7, <1>8, Keeps

LEMMA AlignedKeeps ==
  ASSUME IInv, Aligned
  PROVE  IInv'
<1>1. pc = "align" /\ run # None /\ Played(run)
    BY AtWork DEF Aligned, At, Stage
<1>2. PICK step \in {"complete", "aligned"} : GotoOnly(step)
    BY DEF Aligned
<1>3. Stage(run, step)
    BY <1>1 DEF Stage
<1> QED BY <1>1, <1>2, <1>3, GotoKeeps

LEMMA AlignFailsKeeps ==
  ASSUME IInv, AlignFails
  PROVE  IInv'
<1>1. /\ pc = "align" /\ run # None /\ run \in Runs /\ Good(run) /\ Received(run) /\ Stage(run, pc)
      /\ Played(run)
    BY AtWork DEF AlignFails, At, Stage
<1>2. CASE Idle /\ UNCHANGED <<repo, world>>
    BY <1>2, EndKeeps
<1>3. CASE /\ run.kind = "push"
           /\ pending' = pending \cap From(LowestOf(todo)) /\ Goto("restore")
           /\ UNCHANGED <<repo, world, ghost, run, asks, moving, todo>>
  <2>1. Repo' /\ Remote' /\ ReceiptsAreTrue' /\ Grows /\ UNCHANGED <<disk, receipt, shown>>
      BY <1>3, RepoFrame, RemoteFrame, ReceiptsFrame DEF IInv, repo, world, Grows
  <2>2. run.receipted
      BY <1>1, <1>3 DEF Stage
  <2>3. (Good(run) /\ Received(run) /\ Stage(run, pc))'
      BY <1>1, <1>3, <2>1, <2>2 DEF Received, Stage, Goto
  <2>4. /\ asks' \in [Branches -> OrNone(Heads)] /\ {moving', pending', todo'} \subseteq SUBSET Branches
        /\ pc' # "idle"
      BY <1>3 DEF IInv, InHand, Goto
  <2> QED BY <2>1, <2>3, <2>4, Keeps
<1> QED BY <1>2, <1>3 DEF AlignFails

LEMMA RestoreKeeps ==
  ASSUME IInv, Restore
  PROVE  IInv'
<1>1. /\ pc = "restore" /\ run # None /\ run \in Runs /\ Good(run) /\ Received(run) /\ Stage(run, pc)
      /\ run.receipted /\ pending \subseteq Live(run) /\ Live(run) \subseteq Branches
    BY AtWork DEF Restore, At, Stage
<1>2. /\ Idle /\ UNCHANGED <<tree, edited, pins, kept, disk, world>>
      /\ \/ receipt' = receipt
         \/ receipt' = [b \in Branches |-> IF b \in pending THEN Receipt(run.source[b], receipt[b].head)
                                           ELSE receipt[b]]
    BY DEF Restore
<1>3. \A b \in pending : /\ b \in Branches /\ receipt[b] \in Receipts /\ run.source[b] \in Heads
                         /\ receipt[b].head \in Heads /\ receipt[b].head \in shown[b]
  <2>1. \A b \in pending : b \in Branches /\ receipt[b] \in Receipts /\ run.source[b] \in Heads
      BY <1>1, RunFields DEF Received
  <2>2. \A b \in pending : receipt[b].head \in shown[b]
      BY <2>1, NoneIsNone DEF IInv, ReceiptsAreTrue
  <2>3. \A b \in pending : receipt[b].head \in Heads
      BY <2>1 DEF Receipts
  <2> QED BY <2>1, <2>2, <2>3
<1>4. \A b \in pending : Receipt(run.source[b], receipt[b].head) \in Receipts
    BY <1>3 DEF Receipt, Receipts
<1>5. receipt' \in [Branches -> OrNone(Receipts)] /\ Grows
    BY <1>2, <1>4 DEF IInv, Repo, OrNone, Grows, world
<1>6. ReceiptsAreTrue'
    BY <1>2, <1>3 DEF IInv, ReceiptsAreTrue, Receipt, world
<1>7. Repo' /\ Remote'
  <2>1. /\ local' \in [Branches -> Heads]
        /\ \A b \in Branches : local'[b] \in Own /\ local'[b].commit.work = local[b].commit.work
      BY MovesKeepWork
  <2> QED BY <1>2, <1>5, <2>1, RemoteFrame DEF IInv, Repo, OwnLocal, world
<1> QED BY <1>2, <1>5, <1>6, <1>7, Keeps

LEMMA DropPinsKeeps ==
  ASSUME IInv, NEW from, NEW to, DropPins(from, to), from # "idle",
         to \in {"clear", "clearAborted", "clearCompleted"}
  PROVE  IInv'
<1>1. run # None /\ run \in Runs /\ Good(run) /\ Received(run)
    BY AtWork DEF DropPins, At
<1>2. /\ pins' = NoHeads /\ pc' = to
      /\ UNCHANGED <<local, tree, edited, kept, receipt, disk, world, run, asks, moving, pending, todo>>
    BY DEF DropPins, Goto
<1>3. pins' \in [Branches -> OrNone(Heads)]
    BY <1>2 DEF NoHeads, OrNone
<1>4. Repo' /\ Remote' /\ ReceiptsAreTrue' /\ Grows
    BY <1>2, <1>3, RepoPins, RemoteFrame, ReceiptsFrame DEF IInv, world, Grows
<1>5. (Good(run) /\ Received(run) /\ Stage(run, pc))'
    BY <1>1, <1>2 DEF Received, Stage
<1>6. asks' \in [Branches -> OrNone(Heads)] /\ {moving', pending', todo'} \subseteq SUBSET Branches
    BY <1>2 DEF IInv, InHand
<1> QED BY <1>2, <1>4, <1>5, <1>6, Keeps

LEMMA ClearKeeps ==
  ASSUME IInv, NEW from, NEW how, Clear(from, how)
  PROVE  IInv'
<1>1. disk' = None /\ Idle /\ UNCHANGED <<local, tree, edited, pins, kept, receipt, world>>
    BY DEF Clear
<1>2. Repo' /\ Remote' /\ ReceiptsAreTrue' /\ Grows
    BY <1>1, RemoteFrame, ReceiptsFrame DEF IInv, Repo, OwnLocal, world, Grows
<1> QED BY <1>1, <1>2, Keeps

-----------------------------------------------------------------------------
\* Without a push.

LEMMA ApplyKeeps ==
  ASSUME IInv, Apply
  PROVE  IInv'
<1>1. /\ pc = "apply" /\ run # None /\ run \in Runs /\ Good(run) /\ Received(run) /\ Stage(run, pc)
      /\ Played(run) /\ run.kind = "noPush"
    BY AtWork DEF Apply, At, Stage
<1>2. CASE GotoOnly("rewrite")
  <2>1. Stage(run, "rewrite")
      BY <1>1 DEF Stage
  <2> QED BY <1>1, <1>2, <2>1, GotoKeeps
<1>3. CASE Exit
    BY <1>3, ExitKeeps
<1> DEFINE q == [run EXCEPT !.applied = TRUE]
<1>4. CASE SaveTo(q, "write")
  <2>1. q \in Runs /\ SamePlan(q, run) /\ SameMoves(q, run) /\ q.receipted = run.receipted
      BY <1>1, NotedApplied
  <2> HIDE DEF q
  <2>2. Good(q) /\ Live(q) = Live(run) /\ Played(q) /\ q.kind = "noPush"
      BY <1>1, <2>1, GoodNoted DEF SamePlan
  <2>3. Received(q) /\ Stage(q, "write")
      BY <1>1, <2>1, <2>2 DEF Received, Stage
  <2> QED BY <1>4, <2>2, <2>3, SaveToKeeps
<1> QED BY <1>2, <1>3, <1>4 DEF Apply

LEMMA WriteRefsKeeps ==
  ASSUME IInv, WriteRefs
  PROVE  IInv'
<1>1. /\ run # None /\ run \in Runs /\ Good(run) /\ Received(run) /\ Stage(run, pc)
      /\ Played(run) /\ run.kind = "noPush" /\ Live(run) \subseteq Branches
    BY AtWork DEF WriteRefs, Stage
<1>2. /\ todo' \subseteq Movers(run) /\ pc' \in {"finish", "align"}
      /\ UNCHANGED <<tree, edited, pins, kept, receipt, disk, world, run, asks, moving, pending>>
    BY DEF WriteRefs, Goto
<1>3. Movers(run) \subseteq Live(run)
    BY DEF Movers
<1>4. Repo' /\ Remote' /\ ReceiptsAreTrue' /\ Grows
  <2>1. /\ local' \in [Branches -> Heads]
        /\ \A b \in Branches : local'[b] \in Own /\ local'[b].commit.work = local[b].commit.work
      BY MovesKeepWork
  <2> QED BY <1>2, <2>1, RemoteFrame, ReceiptsFrame DEF IInv, Repo, OwnLocal, world, Grows
<1>5. (Good(run) /\ Received(run))'
    BY <1>1, <1>2 DEF Received
<1>6. Stage(run, pc)'
    BY <1>1, <1>2, <1>3 DEF Stage
<1>7. asks' \in [Branches -> OrNone(Heads)] /\ {moving', pending', todo'} \subseteq SUBSET Branches
    BY <1>1, <1>2, <1>3 DEF IInv, InHand
<1> QED BY <1>2, <1>4, <1>5, <1>6, <1>7, Keeps

LEMMA WriteFailsKeeps ==
  ASSUME IInv, WriteFails
  PROVE  IInv'
<1>1. /\ run # None /\ run \in Runs /\ Good(run) /\ Received(run)
    BY AtWork DEF WriteFails
<1>2. CASE Exit
    BY <1>2, ExitKeeps
<1>3. CASE ~Exit
  <2>1. /\ disk' = [run EXCEPT !.applied = FALSE] /\ Idle
        /\ UNCHANGED <<local, tree, edited, pins, kept, receipt, world>>
      BY <1>3 DEF WriteFails
  <2>2. disk' \in Runs /\ SamePlan(disk', run) /\ SameMoves(disk', run) /\ disk'.receipted = run.receipted
      BY <1>1, <2>1, NotedNotApplied
  <2>3. Good(disk)' /\ Live(disk') = Live(run)
      BY <1>1, <2>2, GoodNoted
  <2>4. Received(disk)'
      BY <1>1, <2>1, <2>2, <2>3 DEF Received
  <2>5. Repo' /\ Remote' /\ ReceiptsAreTrue' /\ Grows
      BY <2>1, RemoteFrame, ReceiptsFrame DEF IInv, Repo, OwnLocal, world, Grows
  <2> QED BY <2>1, <2>3, <2>4, <2>5, Keeps
<1> QED BY <1>2, <1>3

LEMMA SaveAlignedKeeps ==
  ASSUME IInv, SaveAligned
  PROVE  IInv'
<1>1. /\ run # None /\ run \in Runs /\ Good(run) /\ Received(run) /\ Played(run)
    BY AtWork DEF SaveAligned, At, Stage
<1> DEFINE q == [run EXCEPT !.aligned = TRUE]
<1>2. q \in Runs /\ SamePlan(q, run) /\ SameMoves(q, run) /\ q.receipted = run.receipted
    BY <1>1, NotedAligned
<1>3. SaveTo(q, "finish")
    BY DEF SaveAligned
<1> HIDE DEF q
<1>4. Good(q) /\ Live(q) = Live(run) /\ Played(q)
    BY <1>1, <1>2, GoodNoted
<1>5. Received(q) /\ Stage(q, "finish")
    BY <1>1, <1>2, <1>4 DEF Received, Stage
<1> QED BY <1>3, <1>4, <1>5, SaveToKeeps

\* An abort keeps heads that are there.
LEMMA SettleKeeps ==
  ASSUME IInv, Settle
  PROVE  IInv'
<1>1. pc = "settle" /\ run # None /\ run \in Runs /\ Good(run) /\ Received(run) /\ Live(run) \subseteq Branches
    BY AtWork DEF Settle, At
<1>2. CASE GotoOnly("completeAborted")
  <2>1. Stage(run, "completeAborted")
      BY DEF Stage
  <2> QED BY <1>1, <1>2, <2>1, GotoKeeps
<1>3. CASE Exit
    BY <1>3, ExitKeeps
<1>4. CASE KeepResolved
  <2> DEFINE h(b) == IF run.newHead[b] = None THEN run.head[b] ELSE run.newHead[b]
  <2>1. /\ kept' = [b \in Branches |-> IF b \in run.resolved THEN kept[b] \cup {h(b)} ELSE kept[b]]
        /\ pc' = "dropAborted"
        /\ UNCHANGED <<local, tree, edited, pins, receipt, disk, world, run, asks, moving, pending, todo>>
      BY <1>4 DEF KeepResolved, Goto
  <2>2. \A b \in run.resolved : h(b) \in Heads
    <3>1. \A b \in run.resolved : run.newHead[b] \in OrNone(Heads)
        BY <1>1, RunFields
    <3>2. \A b \in run.resolved : b \in Live(run) => run.head[b] \in Heads
        BY <1>1 DEF Good, Entry, Own
    <3>3. \A b \in run.resolved : b \notin Live(run) => run.newHead[b] # None
        BY <1>1 DEF Good, Shape
    <3> QED BY <3>1, <3>2, <3>3 DEF OrNone
  <2> HIDE DEF h
  <2>3. kept' \in [Branches -> SUBSET Heads]
      BY <2>1, <2>2 DEF IInv, Repo
  <2>4. Repo' /\ Remote' /\ ReceiptsAreTrue' /\ Grows
      BY <2>1, <2>3, RemoteFrame, ReceiptsFrame DEF IInv, Repo, OwnLocal, world, Grows
  <2>5. (Good(run) /\ Received(run) /\ Stage(run, pc))'
      BY <1>1, <2>1 DEF Received, Stage
  <2>6. asks' \in [Branches -> OrNone(Heads)] /\ {moving', pending', todo'} \subseteq SUBSET Branches
      BY <2>1 DEF IInv, InHand
  <2> QED BY <2>1, <2>4, <2>5, <2>6, Keeps
<1> QED BY <1>2, <1>3, <1>4 DEF Settle

-----------------------------------------------------------------------------
\* The users, and everybody else.

LEMMA OutsideKeeps ==
  ASSUME IInv, UNCHANGED <<disk, proc>>, Repo', Remote', ReceiptsAreTrue', Grows
  PROVE  IInv'
<1>1. ASSUME NEW r \in Runs, Good(r), Received(r) PROVE Received(r)'
    BY <1>1 DEF Received, Grows, Live
<1>2. Saved'
    BY <1>1 DEF IInv, Saved, Good
<1>3. InHand'
  <2>1. ASSUME run # None PROVE Received(run)'
      BY <1>1, <2>1 DEF IInv, InHand, Good, proc
  <2>2. ASSUME run # None PROVE Stage(run, pc)'
    <3>1. Stage(run, pc) /\ Live(run) \subseteq Branches /\ UNCHANGED proc
        BY <2>2, RunFields DEF IInv, InHand, Good
    <3> QED BY <3>1 DEF Stage, Grows, proc
  <2> QED BY <2>1, <2>2 DEF IInv, InHand, proc
<1> QED BY <1>2, <1>3 DEF IInv

LEMMA CommitKeeps ==
  ASSUME IInv, NEW b \in Branches, Commit(b)
  PROVE  /\ IInv'
         /\ \A c \in Branches : local'[c].commit.work >= local[c].commit.work
<1>1. /\ outside \in 0..MaxOutside /\ outside' = outside + 1 /\ outside' \in 0..MaxOutside
      /\ \A c \in Branches : /\ local[c] \in Own /\ local[c].commit.work <= outside
                             /\ local[c].commit.work \in Nat
      /\ local \in [Branches -> Heads] /\ tree \in [Branches -> OrNone(Heads)]
  <2>1. \A c \in Branches : local[c].commit.work \in 0..MaxOutside
      BY HeadFields DEF IInv, Repo
  <2> QED BY <2>1 DEF Commit, IInv, Repo, OwnLocal, Remote
<1>2. PICK h \in Own : /\ h = [local[b] EXCEPT !.commit = [@ EXCEPT !.work = outside', !.copy = 0]]
                       /\ h.commit.work = outside'
    BY <1>1, CommittedHead
<1>3. /\ local' = [local EXCEPT ![b] = h]
      /\ tree' = [tree EXCEPT ![b] = IF @ = None THEN None ELSE local'[b]]
      /\ edited' = edited \ {b}
      /\ UNCHANGED <<pins, kept, receipt, disk, proc, remote, trunk, merged, shown>>
    BY <1>2 DEF Commit
<1>4. /\ local' \in [Branches -> Heads] /\ tree' \in [Branches -> OrNone(Heads)]
      /\ \A c \in Branches : /\ local'[c] \in Own /\ local'[c].commit.work <= outside'
                             /\ local'[c].commit.work >= local[c].commit.work
  <2>1. h \in Heads
      BY DEF Own
  <2>2. local' \in [Branches -> Heads] /\ \A c \in Branches : local'[c] = IF c = b THEN h ELSE local[c]
      BY <1>1, <1>3, <2>1
  <2>3. tree' \in [Branches -> OrNone(Heads)]
      BY <1>1, <1>3, <2>2 DEF OrNone
  <2>4. ASSUME NEW c \in Branches
        PROVE  /\ local'[c] \in Own /\ local'[c].commit.work <= outside'
               /\ local'[c].commit.work >= local[c].commit.work
    <3>1. local[c] \in Own /\ local[c].commit.work <= outside /\ local[c].commit.work \in Nat
        BY <1>1
    <3>2. CASE c = b
      <4>1. local'[c] = h /\ h \in Own /\ h.commit.work = outside + 1
          BY <1>1, <1>2, <2>2, <3>2
      <4> QED BY <1>1, <3>1, <4>1
    <3>3. CASE c # b
        BY <1>1, <2>2, <3>1, <3>3
    <3> QED BY <3>2, <3>3
  <2> QED BY <2>2, <2>3, <2>4
<1>5. Repo' /\ Remote' /\ ReceiptsAreTrue' /\ Grows
    BY <1>1, <1>3, <1>4, ReceiptsFrame DEF IInv, Repo, OwnLocal, Remote, Grows
<1> QED BY <1>3, <1>4, <1>5, OutsideKeeps

LEMMA CheckoutKeeps ==
  ASSUME IInv, NEW b \in Branches, Edit(b) \/ Discard(b) \/ Switch(b) \/ Resolve
  PROVE  IInv'
<1>1. /\ UNCHANGED <<local, pins, kept, receipt, disk, proc, remote, trunk, merged, shown>>
      /\ edited' \subseteq Branches /\ tree' \in [Branches -> OrNone(Heads)]
      /\ outside' = outside \/ (outside' = outside + 1 /\ outside < MaxOutside)
    BY DEF Edit, Discard, Switch, Resolve, IInv, Repo, OrNone, world
<1>2. /\ outside \in 0..MaxOutside /\ outside' \in 0..MaxOutside
      /\ \A c \in Branches : local[c].commit.work <= outside'
  <2>1. \A c \in Branches : local[c].commit.work \in 0..MaxOutside
      BY HeadFields DEF IInv, Repo
  <2> QED BY <1>1, <2>1 DEF IInv, Repo, OwnLocal, Remote
<1>3. Repo' /\ Remote' /\ ReceiptsAreTrue' /\ Grows
    BY <1>1, <1>2, ReceiptsFrame DEF IInv, Repo, OwnLocal, Remote, Grows
<1> QED BY <1>1, <1>3, OutsideKeeps

\* Somebody else's patches stay theirs.
LEMMA OtherPushKeeps ==
  ASSUME IInv, NEW b \in Branches, OtherPush(b)
  PROVE  /\ IInv'
         /\ \A c \in Branches : remote[c] # None /\ remote[c].commit.by = "other"
                                => remote'[c] = None \/ remote'[c].commit.by = "other"
<1>1. /\ outside \in 0..MaxOutside /\ outside' = outside + 1 /\ outside < MaxOutside
      /\ remote \in [Branches -> OrNone(Heads)] /\ remote[b] \in Heads /\ trunk \in 0..MaxTrunk
      /\ DOMAIN shown = Branches
    BY DEF OtherPush, IInv, Remote, OrNone
<1>2. TrunkAt(trunk) \in Base
    BY <1>1, TrunkIsBase
<1>3. PICK h \in OrNone(Heads) :
        /\ remote' = [remote EXCEPT ![b] = h]
        /\ remote[b].commit.by = "other" => h = None \/ h.commit.by = "other"
  <2>1. PICK g \in Heads : g = remote[b]
      BY <1>1
  <2>2. PICK h \in {[g EXCEPT !.commit.by = "other"], [g EXCEPT !.on = TrunkAt(trunk), !.commit.copy = 1],
                    [g EXCEPT !.commit.copy = 1], None} : remote' = [remote EXCEPT ![b] = h]
      BY <2>1 DEF OtherPush
  <2>3. h = None \/ (h \in Heads /\ (g.commit.by = "other" => h.commit.by = "other"))
    <3>1. /\ [g EXCEPT !.commit.by = "other"] \in Heads /\ [g EXCEPT !.commit.by = "other"].commit.by = "other"
          /\ [g EXCEPT !.commit.copy = 1] \in Heads /\ [g EXCEPT !.commit.copy = 1].commit.by = g.commit.by
        BY <1>2, OthersHead
    <3>2. /\ [g EXCEPT !.on = TrunkAt(trunk), !.commit.copy = 1] \in Heads
          /\ [g EXCEPT !.on = TrunkAt(trunk), !.commit.copy = 1].commit.by = g.commit.by
        BY <1>2, OthersHead
    <3> QED BY <2>2, <3>1, <3>2
  <2> QED BY <2>1, <2>2, <2>3 DEF OrNone
<1>4. /\ shown' = [shown EXCEPT ![b] = @ \cup {remote'[b]}]
      /\ UNCHANGED <<repo, proc, trunk, merged>>
    BY DEF OtherPush
<1>5. Remote' /\ \A c \in Branches : shown[c] \subseteq shown'[c]
    BY <1>1, <1>3, <1>4 DEF IInv, Remote
<1>6. Repo'
  <2>1. \A c \in Branches : local[c].commit.work \in 0..MaxOutside
      BY HeadFields DEF IInv, Repo
  <2> QED BY <1>1, <1>4, <2>1 DEF IInv, Repo, OwnLocal, repo
<1>7. ReceiptsAreTrue' /\ Grows /\ UNCHANGED <<disk, proc>>
    BY <1>4, <1>5, ReceiptsFrame DEF IInv, Grows, repo
<1>8. \A c \in Branches : remote[c] # None /\ remote[c].commit.by = "other"
                          => remote'[c] = None \/ remote'[c].commit.by = "other"
    BY <1>1, <1>3
<1> QED BY <1>5, <1>6, <1>7, <1>8, OutsideKeeps

LEMMA LandKeeps ==
  ASSUME IInv, Land
  PROVE  IInv'
<1>1. /\ outside \in 0..MaxOutside /\ outside' = outside + 1 /\ outside < MaxOutside
      /\ trunk \in 1..MaxTrunk /\ trunk' = trunk + 1 /\ trunk < MaxTrunk
      /\ merged \subseteq Branches
      /\ UNCHANGED <<repo, proc, remote, shown>>
    BY DEF Land, IInv, Remote
<1>2. merged \subseteq merged' /\ merged' \subseteq Branches
  <2>1. CASE merged' = merged
    BY <1>1, <2>1
  <2>2. CASE merged # Branches /\ merged' = merged \cup {LowestOf(Branches \ merged)}
    <3>1. LowestOf(Branches \ merged) \in Branches
      BY <1>1, <2>2, LowestExists
    <3> QED BY <1>1, <2>2, <3>1
  <2> QED BY <2>1, <2>2 DEF Land
<1>3. Remote'
    BY <1>1, <1>2 DEF IInv, Remote
<1>4. Repo'
  <2>1. \A c \in Branches : local[c].commit.work \in 0..MaxOutside
      BY HeadFields DEF IInv, Repo
  <2> QED BY <1>1, <2>1 DEF IInv, Repo, OwnLocal, repo
<1>5. ReceiptsAreTrue' /\ Grows /\ UNCHANGED <<disk, proc>>
    BY <1>1, ReceiptsFrame DEF IInv, Grows, repo
<1> QED BY <1>3, <1>4, <1>5, OutsideKeeps

-----------------------------------------------------------------------------
LEMMA FirstHeadIsOwn ==
  ASSUME NEW b \in Branches
  PROVE  FirstHead(b) \in Own /\ FirstHead(b).commit.work = 0
<1> DEFINE n == Cardinality(UpTo(b)) - 1
<1>1. n \in Nat
  <2>1. IsFiniteSet(UpTo(b)) /\ UpTo(b) # {}
      BY UpToIsOrder, BranchesFinite, FS_Subset
  <2> QED BY <2>1, FS_EmptySet, FS_CardinalityType
<1>2. FirstCommit \in Patch /\ FirstCommit.by # "other" /\ FirstCommit.work = 0
    BY DEF FirstCommit, Patch
<1> HIDE DEF n
<1>3. [i \in 1..n |-> FirstCommit] \in Seq(Patch)
    BY <1>1, <1>2
<1>4. [trunk |-> 0, below |-> [i \in 1..n |-> FirstCommit]] \in Base
    BY <1>3 DEF Base
<1> QED BY <1>2, <1>4 DEF FirstHead, Own, Heads, n

LEMMA Initially == Init => IInv
<1> SUFFICES ASSUME Init PROVE IInv
    OBVIOUS
<1>1. /\ local \in [Branches -> Heads] /\ remote = local
      /\ \A b \in Branches : local[b] \in Own /\ local[b].commit.work = 0
      /\ NoHeads \in [Branches -> OrNone(Heads)] /\ NoHeads \in [Branches -> OrNone(Receipts)]
    BY FirstHeadIsOwn DEF Init, Own, NoHeads, OrNone
<1>2. tree \in [Branches -> OrNone(Heads)] /\ kept \in [Branches -> SUBSET Heads]
    BY FirstHeadIsOwn DEF Init, Own, OrNone
<1>3. Repo /\ Remote
    BY <1>1, <1>2 DEF Init, Repo, OwnLocal, Remote, OrNone
<1>4. PICK k \in {"push", "noPush"} : disk = Run(k, local, remote, local)
    BY DEF Init
<1>5. /\ disk \in Runs /\ disk.source = local /\ disk.head = local /\ disk.lease = local
      /\ disk.newHead = NoHeads /\ disk.resolved = {} /\ disk.conflict = None /\ disk.moved = {}
      /\ ~disk.sourcesMoving /\ ~disk.receipted
  <2>1. trunk \in 1..MaxTrunk /\ local \in [Branches -> OrNone(Heads)] /\ None \in OrNone(Branches)
      BY <1>1 DEF Init, OrNone
  <2> QED BY <1>1, <1>4, <2>1 DEF Run, Runs
<1>6. \A b \in Live(disk) : Entry(disk, b)
    BY <1>1, <1>5 DEF Entry, Live, NoHeads, OrNone
<1>7. Good(disk) /\ Received(disk)
    BY <1>5, <1>6 DEF Good, Shape, Received, OrNone
<1>8. run = disk /\ pc = "drive" /\ Stage(run, pc)
    BY DEF Init, Stage
<1>9. InHand
    BY <1>1, <1>5, <1>7, <1>8, NoneIsNone DEF Init, InHand
<1>10. ReceiptsAreTrue
    BY DEF Init, ReceiptsAreTrue, NoHeads
<1> QED BY <1>3, <1>7, <1>9, <1>10 DEF IInv, Saved

LEMMA DriveKeeps ==
  ASSUME IInv, Drive
  PROVE  IInv'
<1>1. CASE Replay \/ OpenConflict \/ SaveReplays
    BY <1>1, ReplayKeeps, OpenConflictKeeps, SaveReplaysKeeps
<1>2. CASE PinResolved \/ SaveResolved \/ CloseWorkspace
    BY <1>2, PinResolvedKeeps, SaveResolvedKeeps, CloseWorkspaceKeeps
<1>3. CASE Sources \/ PinAll \/ Landed
    BY <1>3, SourcesKeeps, PinAllKeeps, LandedKeeps
<1>4. CASE Recover("recover", "pin") \/ Recover("recoverPush", "publish")
  <2>1. Played(run) /\ run # None
      BY <1>4, AtWork DEF Recover, At, Stage
  <2> QED BY <1>4, <2>1, RecoverKeeps
<1>5. CASE Recover("recoverAbort", "settle")
    BY <1>5, RecoverKeeps
<1>6. CASE Publish \/ Push("push", GotoOnly("stale")) \/ Push("repush", Exit)
    BY <1>6, PublishKeeps, PushKeeps
<1>7. CASE Release \/ Released \/ Pushed \/ RecordReceipts \/ Receipted
    BY <1>7, ReleaseKeeps, ReleasedKeeps, PushedKeeps, RecordReceiptsKeeps, ReceiptedKeeps
<1>8. CASE Choose \/ Holders \/ MoveRefs
    BY <1>8, ChooseKeeps, HoldersKeeps, MoveRefsKeeps
<1>9. CASE Align \/ Aligned \/ AlignFails \/ Restore
    BY <1>9, AlignKeeps, AlignedKeeps, AlignFailsKeeps, RestoreKeeps
<1>10. CASE \/ DropPins("complete", "clear") \/ DropPins("finish", "clear")
            \/ DropPins("dropAborted", "clearAborted") \/ DropPins("completeAborted", "clearCompleted")
    BY <1>10, DropPinsKeeps
<1>11. CASE \/ Clear("clear", "done") \/ Clear("clearAborted", "aborted")
            \/ Clear("clearCompleted", "completed")
    BY <1>11, ClearKeeps
<1>12. CASE Apply \/ WriteRefs \/ WriteFails \/ SaveAligned
    BY <1>12, ApplyKeeps, WriteRefsKeeps, WriteFailsKeeps, SaveAlignedKeeps
<1>13. CASE Settle \/ Die
    BY <1>13, SettleKeeps, DieKeeps
<1> QED BY <1>1, <1>2, <1>3, <1>4, <1>5, <1>6, <1>7, <1>8, <1>9, <1>10, <1>11, <1>12, <1>13 DEF Drive

LEMMA NextKeeps ==
  ASSUME IInv, [Next]_vars
  PROVE  IInv'
<1>1. CASE Continue \/ Abort
    BY <1>1, CommandKeeps
<1>2. CASE Drive
    BY <1>2, DriveKeeps
<1>3. CASE Land
    BY <1>3, LandKeeps
<1>4. CASE Resolve
  <2>1. PICK b \in Branches : TRUE
      BY StackIsSeq, EmptySeq
  <2> QED BY <1>4, <2>1, CheckoutKeeps
<1>5. CASE \E b \in Branches : Commit(b) \/ Edit(b) \/ Discard(b) \/ Switch(b) \/ OtherPush(b)
    BY <1>5, CommitKeeps, CheckoutKeeps, OtherPushKeeps
<1>6. CASE UNCHANGED vars
  <2>1. UNCHANGED <<repo, world, proc>>
      BY <1>6 DEF vars
  <2>2. Repo' /\ Remote' /\ ReceiptsAreTrue' /\ Grows /\ UNCHANGED disk
      BY <2>1, RepoFrame, RemoteFrame, ReceiptsFrame DEF IInv, repo, world, Grows
  <2> QED BY <2>1, <2>2, OutsideKeeps
<1> QED BY <1>1, <1>2, <1>3, <1>4, <1>5, <1>6 DEF Next

\* The inductive invariant holds in every state a run can reach.
THEOREM Invariance == Spec => []IInv
<1>1. Init => IInv
    BY Initially
<1>2. IInv /\ [Next]_vars => IInv'
    BY NextKeeps
<1> QED BY <1>1, <1>2, PTL DEF Spec

\* The repository, the remote and both copies of the run keep their types, and
\* a run moves, or stops at, only branches that have not landed.
THEOREM TypeCorrect == Spec => []TypeOK
<1>1. ASSUME IInv PROVE TypeOK
  <2>1. /\ local \in [Branches -> Heads] /\ {tree, pins, remote, asks} \subseteq [Branches -> OrNone(Heads)]
        /\ kept \in [Branches -> SUBSET Heads] /\ receipt \in [Branches -> OrNone(Receipts)]
        /\ edited \subseteq Branches /\ trunk \in 1..MaxTrunk /\ merged \subseteq Branches
        /\ {moving, pending, todo} \subseteq SUBSET Branches /\ (pc = "idle" <=> run = None)
      BY <1>1 DEF IInv, Repo, Remote, InHand
  <2>2. \A r \in {disk, run} \ {None} : Good(r)
      BY <1>1 DEF IInv, Saved, InHand
  <2>3. {disk, run} \subseteq OrNone(Runs)
      BY <2>2 DEF Good, OrNone
  <2>4. \A r \in {disk, run} \ {None} : r.conflict \in OrNone(Live(r)) /\ r.moved \subseteq Live(r)
      BY <2>2 DEF Good, Shape
  <2> QED BY <2>1, <2>3, <2>4 DEF TypeOK
<1>2. IInv => TypeOK
    BY <1>1
<1> QED BY <1>2, Invariance, PTL

\* A receipt names a head the remote has shown: RecordReceipts, and the moves
\* forth and back that rewrite it.
THEOREM ReceiptsTrue == Spec => []ReceiptsAreTrue
<1>1. IInv => ReceiptsAreTrue
    BY DEF IInv
<1> QED BY <1>1, Invariance, PTL

-----------------------------------------------------------------------------
\* Only a push moves what the remote has, and only a commit, a move or a rewrite
\* a local branch.
LEMMA StepsMove ==
  ASSUME [Next]_vars
  PROVE  /\ \/ UNCHANGED remote
            \/ Push("push", GotoOnly("stale")) \/ Push("repush", Exit)
            \/ \E b \in Branches : OtherPush(b)
         /\ \/ UNCHANGED local
            \/ MoveRefs \/ Restore \/ WriteRefs
            \/ \E b \in Branches : Commit(b)
<1> USE DEF world, repo
<1>1. Exit => UNCHANGED <<local, remote>>
    BY DEF Exit
<1>2. \A step : GotoOnly(step) => UNCHANGED <<local, remote>>
    BY DEF GotoOnly
<1>3. \A r, step : SaveTo(r, step) => UNCHANGED <<local, remote>>
    BY DEF SaveTo
<1>4. \A fresh : Replan(fresh) => UNCHANGED <<local, remote>>
    BY <1>1 DEF Replan
<1>5. CASE Continue \/ Abort \/ Land \/ Resolve
    BY <1>5 DEF Continue, Abort, Land, Resolve
<1>6. CASE Replay \/ OpenConflict \/ SaveReplays \/ PinResolved \/ SaveResolved \/ CloseWorkspace
    BY <1>3, <1>6 DEF Replay, OpenConflict, SaveReplays, PinResolved, SaveResolved, CloseWorkspace
<1>7. CASE Sources \/ PinAll \/ Landed
    BY <1>1, <1>2, <1>4, <1>7 DEF Sources, PinAll, Landed
<1>8. CASE \/ Recover("recover", "pin") \/ Recover("recoverPush", "publish")
           \/ Recover("recoverAbort", "settle")
    BY <1>2, <1>3, <1>8 DEF Recover
<1>9. CASE Publish
    BY <1>1, <1>2, <1>9 DEF Publish
<1>10. CASE Push("push", GotoOnly("stale")) \/ Push("repush", Exit)
    BY <1>1, <1>2, <1>10 DEF Push
<1>11. CASE Release
    BY <1>2, <1>11 DEF Release
<1>12. CASE Released \/ Pushed \/ RecordReceipts \/ Receipted \/ Choose
    BY <1>2, <1>3, <1>12 DEF Released, Pushed, RecordReceipts, Receipted, Choose
<1>13. CASE Holders \/ MoveRefs \/ Align \/ Aligned \/ AlignFails \/ Restore
    BY <1>1, <1>2, <1>13 DEF Holders, MoveRefs, Align, Aligned, AlignFails, Restore
<1>14. CASE \/ DropPins("complete", "clear") \/ DropPins("finish", "clear")
            \/ DropPins("dropAborted", "clearAborted") \/ DropPins("completeAborted", "clearCompleted")
            \/ Clear("clear", "done") \/ Clear("clearAborted", "aborted")
            \/ Clear("clearCompleted", "completed")
    BY <1>14 DEF DropPins, Clear
<1>15. CASE Apply \/ WriteRefs \/ WriteFails \/ SaveAligned
    BY <1>1, <1>2, <1>3, <1>15 DEF Apply, WriteRefs, WriteFails, SaveAligned
<1>16. CASE Settle \/ Die
    BY <1>1, <1>2, <1>16 DEF Settle, KeepResolved, Die
<1>17. CASE \E b \in Branches : Commit(b) \/ Edit(b) \/ Discard(b) \/ Switch(b) \/ OtherPush(b)
    BY <1>17 DEF Commit, Edit, Discard, Switch, OtherPush
<1>18. CASE UNCHANGED vars
    BY <1>18 DEF vars
<1> QED BY <1>5, <1>6, <1>7, <1>8, <1>9, <1>10, <1>11, <1>12, <1>13, <1>14, <1>15, <1>16, <1>17, <1>18
        DEF Next, Drive

\* A push goes only over what it has leased, and no lease is somebody else's.
LEMMA PushKeepsOthers ==
  ASSUME IInv, Push("push", GotoOnly("stale")) \/ Push("repush", Exit), NEW b \in Branches,
         remote[b] # None, remote[b].commit.by = "other"
  PROVE  remote'[b] = remote[b]
<1>1. pc \in {"push", "repush"} /\ run \in Runs /\ Good(run) /\ Stage(run, pc) /\ Played(run)
    BY AtWork DEF Push, At, Stage
<1>2. CASE ~Leased
    BY <1>2 DEF Push, Exit, GotoOnly, world
<1>3. CASE Leased
  <2>1. remote' = [c \in Branches |-> IF c \in Live(run) THEN run.newHead[c] ELSE remote[c]]
      BY <1>3 DEF Push
  <2>2. ASSUME b \in Live(run) PROVE FALSE
    <3>1. remote[b] \in {asks[b], run.newHead[b]} /\ asks[b] \in OrNone(Own) /\ run.newHead[b] \in OrNone(Own)
        BY <1>1, <1>3, <2>2 DEF Leased, Stage, Good, Entry
    <3> QED BY <3>1 DEF OrNone, Own
  <2> QED BY <2>1, <2>2
<1> QED BY <1>2, <1>3

\* Somebody else's patches are never pushed over: Push under the leases of the
\* plan (Publish) and under those taken anew (Release).
THEOREM OthersStand == Spec => OthersKept
<1>1. ASSUME IInv, [Next]_vars
      PROVE  [\A b \in Branches : remote[b] # None /\ remote[b].commit.by = "other"
                                  => remote'[b] = None \/ remote'[b].commit.by = "other"]_remote
  <2>1. CASE UNCHANGED remote
      BY <2>1
  <2>2. CASE Push("push", GotoOnly("stale")) \/ Push("repush", Exit)
      BY <1>1, <2>2, PushKeepsOthers
  <2>3. CASE \E b \in Branches : OtherPush(b)
      BY <1>1, <2>3, OtherPushKeeps
  <2> QED BY <1>1, <2>1, <2>2, <2>3, StepsMove
<1>2. IInv /\ [Next]_vars
      => [\A b \in Branches : remote[b] # None /\ remote[b].commit.by = "other"
                              => remote'[b] = None \/ remote'[b].commit.by = "other"]_remote
    BY <1>1
<1> QED BY <1>2, Invariance, PTL DEF Spec, OthersKept

\* No step takes a local branch back to before its user's last commit: MoveRefs
\* and Restore, which move it forth and back, and WriteRefs.
THEOREM SourcesStay == Spec => SourcesKept
<1>1. ASSUME IInv, [Next]_vars
      PROVE  [\A b \in Branches : local'[b].commit.work >= local[b].commit.work]_local
  <2>1. CASE UNCHANGED local
      BY <2>1
  <2>2. CASE MoveRefs \/ Restore \/ WriteRefs
    <3>1. \A b \in Branches : local'[b].commit.work = local[b].commit.work /\ local[b].commit.work \in 0..MaxOutside
        BY <1>1, <2>2, MovesKeepWork, HeadFields DEF IInv, Repo
    <3>2. \A b \in Branches : local'[b].commit.work >= local[b].commit.work
        BY <3>1
    <3> QED BY <3>2
  <2>3. CASE \E b \in Branches : Commit(b)
      BY <1>1, <2>3, CommitKeeps
  <2> QED BY <1>1, <2>1, <2>2, <2>3, StepsMove
<1>2. IInv /\ [Next]_vars => [\A b \in Branches : local'[b].commit.work >= local[b].commit.work]_local
    BY <1>1
<1> QED BY <1>2, Invariance, PTL DEF Spec, SourcesKept
===============================================================================
