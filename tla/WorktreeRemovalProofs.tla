----------------------- MODULE WorktreeRemovalProofs -----------------------
(***************************************************************************)
(* Safety of WorktreeRemoval for every set of jobs, commits and holders    *)
(* and every bound, and that it implements RemovalPromise.                 *)
(***************************************************************************)
EXTENDS WorktreeRemovalPromise, TLAPS

ClaimSteps  == {"claimQuiet", "claimPin", "claimIntent", "claimLock", "claimEnter"}
RetireSteps == {"retireIntent", "retireLock", "retirePin", "retireIdle", "retireHide", "retireEnd"}
CancelSteps == {"cancelUnlock", "cancelDiscard"}
MoveSteps   == {"unregister", "rename", "admitEnter"}
ProveSteps  == {"admitQuiet", "admitStatus"}
AdmitSteps  == {"admit", "admitQuiet", "admitStatus", "openRoot"} \cup MoveSteps

\* The inductive strengthening: what each step of a handler may rely on.
\* No hold is taken, and no pause during a deletion, until the handler is over.
StepHasJob ==
    /\ step # "idle" => who \in Job /\ hold = NoHold
    /\ step \in AdmitSteps \cup {"slice"} => ~paused
\* A claim, a retirement or a cancellation is of a job not yet claimed; one that
\* links or owns the marker has journaled its intent.
LogicalStep ==
    /\ step \in ClaimSteps \cup RetireSteps \cup CancelSteps => rec[who].phase \in Logical
    /\ step \in {"claimLock"} \cup (RetireSteps \ {"retireIntent"}) => rec[who].retirement # ""
    /\ step \in {"retirePin", "retireIdle", "retireHide", "retireEnd"} => lock = who
    /\ step = "retireIntent" /\ owned => lock = who
\* A cancellation has restored the backlink, and the record goes after the marker.
CancelStep ==
    /\ step \in CancelSteps => ~Placed \/ back # "empty"
    /\ step = "cancelUnlock" => (owned <=> lock = who)
    /\ step = "cancelDiscard" => lock # who
\* A deletion is of a claimed job, and no admission runs while one is open.
DeleteStep ==
    /\ step \in AdmitSteps => rec[who].phase \in Physical /\ open = NoJob
    /\ step = "slice" => who = open /\ since = 0
    /\ open # NoJob => rec[open].phase \in Physical /\ ~Halted
    /\ open = NoJob => since = 0
Control == StepHasJob /\ LogicalStep /\ CancelStep /\ DeleteStep

\* A registration that is gone carries no marker.
GoneIsUnlocked == ~Placed => lock = "none"
\* An id not minted has retired nothing.
NothingRetired == \A j \in Job : rec[j].phase = "absent" => rec[j].retirement = ""
Marker == GoneIsUnlocked /\ NothingRetired /\ MarkerIsJournaled /\ HiddenIsOwned

\* Job j is about to delete the tree, or is deleting it.
Removes(j) ==
    \/ open = j /\ root = "tree"
    \/ who = j /\ step \in MoveSteps
    \/ who = j /\ step = "openRoot" /\ rec[j].phase = "deleting_tree"
Intact(j) == /\ edits => rec[j].force \/ editLate
             /\ head = rec[j].head \/ headLate \/ (rec[j].force /\ ~Placed)
\* What the last full proof of the tree found still holds while the job removes it.
Proof == \A j \in Job : Removes(j) =>
            (Placed => lock = j) /\ Pinned(j) /\ Intact(j) /\ strays <= since
\* While the proof goes on, what it has read stands: the pin, the marker bind
\* found, the HEAD it compared, and that no process was in the tree.
Proving == step \in ProveSteps =>
    /\ Pinned(who) /\ (Placed => native)
    /\ native /\ owned /\ Placed => lock = who
    /\ native => head = rec[who].head \/ headLate
    /\ step = "admitStatus" => strays = 0
Strays == (strays > 0 => holder) /\ StraysAreBounded

IInv == TypeOK /\ Control /\ Marker /\ Proof /\ Proving /\ Strays

-----------------------------------------------------------------------------
(* What an action that writes one record does to the journal.                *)

\* One record is replaced, and the others stay.
LEMMA SetOne ==
    ASSUME TypeOK, NEW j \in Job, NEW r \in Record, Set(j, r)
    PROVE  rec' \in [Job -> Record] /\ rec'[j] = r /\ \A k \in Job \ {j} : rec'[k] = rec[k]
BY DEF TypeOK, JournalType, Set

\* The record of job k answers for whatever it answered for before.
SameClaim(k) ==
    /\ rec[k].retirement # "" => rec'[k].retirement # ""
    /\ rec'[k].phase = "absent" => rec[k].phase = "absent" /\ rec'[k].retirement = ""
    /\ rec[k].phase \in Logical => rec'[k].phase \in Logical
    /\ rec[k].phase \in Physical => /\ rec'[k].phase = rec[k].phase
                                    /\ rec'[k].head = rec[k].head
                                    /\ rec'[k].force = rec[k].force

\* A record that keeps its claim leaves every claim as it was.
LEMMA SetKeeps ==
    ASSUME IInv, NEW j \in Job, NEW r \in Record, Set(j, r),
           r.phase = rec[j].phase, r.retirement = rec[j].retirement,
           r.force = rec[j].force, r.head = rec[j].head \/ rec[j].phase \in Logical
    PROVE  rec' \in [Job -> Record] /\ \A k \in Job : SameClaim(k)
<1>1. rec' \in [Job -> Record] /\ rec'[j] = r /\ \A k \in Job \ {j} : rec'[k] = rec[k]
  BY SetOne DEF IInv
<1>2. \A k \in Job : rec[k].phase = "absent" => rec[k].retirement = ""
  BY DEF IInv, Marker, NothingRetired
<1>3. rec[j].phase \in Logical => rec[j].phase \notin Physical
  BY DEF Logical, Physical
<1> QED BY <1>1, <1>2, <1>3 DEF SameClaim

\* Blocking a job ends the handler and changes no claim.
LEMMA BlockKeeps ==
    ASSUME IInv, NEW j \in Job, NEW reason \in Reason, Block(j, reason)
    PROVE  /\ rec' \in [Job -> Record] /\ \A k \in Job : SameClaim(k)
           /\ StepType' /\ step' = "idle"
<1>1. [rec[j] EXCEPT !.blocked = reason] \in Record
  <2>1. rec[j] \in Record BY DEF IInv, TypeOK, JournalType
  <2> QED BY <2>1 DEF Record
<1>2. rec' \in [Job -> Record] /\ \A k \in Job : SameClaim(k)
  <2> DEFINE r == [rec[j] EXCEPT !.blocked = reason]
  <2>1. r.phase = rec[j].phase /\ r.retirement = rec[j].retirement /\ r.force = rec[j].force
        /\ r.head = rec[j].head
    <3>1. rec[j] \in Record BY DEF IInv, TypeOK, JournalType
    <3> QED BY <3>1 DEF Record
  <2>2. Set(j, r) BY DEF Block
  <2> HIDE DEF r
  <2>3. r \in Record BY <1>1 DEF r
  <2> QED BY <2>1, <2>2, <2>3, SetKeeps
<1>3. StepType' /\ step' = "idle" BY DEF Block, Finished, StepType, Steps
<1> QED BY <1>2, <1>3

LEMMA ReviveKeeps ==
    ASSUME IInv, NEW j \in Job, Revive(j)
    PROVE  rec' \in [Job -> Record] /\ \A k \in Job : SameClaim(k)
<1>1. rec[j] \in Record BY DEF IInv, TypeOK, JournalType
<1> DEFINE r == [rec[j] EXCEPT !.blocked = "none"]
<1>2. r \in Record /\ r.phase = rec[j].phase /\ r.retirement = rec[j].retirement
      /\ r.force = rec[j].force /\ r.head = rec[j].head
  BY <1>1 DEF Record, Reason
<1>3. Set(j, r) BY DEF Revive
<1> HIDE DEF r
<1> QED BY <1>2, <1>3, SetKeeps

\* Entering a phase keeps the HEAD and the force the job captured.
LEMMA EnterOne ==
    ASSUME IInv, NEW j \in Job, NEW p \in Phase, Enter(j, p)
    PROVE  /\ rec' \in [Job -> Record] /\ rec'[j].phase = p
           /\ rec'[j].retirement = IF p \in Logical THEN rec[j].retirement ELSE ""
           /\ rec'[j].head = rec[j].head /\ rec'[j].force = rec[j].force
           /\ \A k \in Job \ {j} : rec'[k] = rec[k]
<1> DEFINE r == [rec[j] EXCEPT !.phase = p, !.retirement = IF p \in Logical THEN @ ELSE "",
                               !.rests = p \in Logical /\ @]
<1>1. rec[j] \in Record BY DEF IInv, TypeOK, JournalType
<1>2. r \in Record /\ r.phase = p /\ r.head = rec[j].head /\ r.force = rec[j].force
      /\ r.retirement = IF p \in Logical THEN rec[j].retirement ELSE ""
  BY <1>1 DEF Record
<1>3. Set(j, r) BY DEF Enter
<1> HIDE DEF r
<1> QED BY <1>2, <1>3, SetOne DEF IInv

-----------------------------------------------------------------------------
(* What most steps leave as it was.                                          *)

LEMMA MarkerKept ==
    ASSUME IInv, TypeOK', \A k \in Job : SameClaim(k), UNCHANGED <<admin, lock, back>>
    PROVE  Marker'
<1>1. GoneIsUnlocked' BY DEF IInv, Marker, GoneIsUnlocked, Placed
<1>2. NothingRetired' BY DEF IInv, Marker, NothingRetired, SameClaim
<1>3. \A k \in Job : Answers(k) => Answers(k)' BY DEF Answers, SameClaim
<1>4. MarkerIsJournaled' BY <1>3 DEF IInv, Marker, MarkerIsJournaled
<1>5. \A k \in Job : rec[k].phase \in Physical => rec'[k].phase \in Physical BY DEF SameClaim
<1>6. HiddenIsOwned' BY <1>3, <1>5 DEF IInv, Marker, HiddenIsOwned, Placed
<1> QED BY <1>1, <1>2, <1>4, <1>6 DEF Marker

LEMMA StraysKept ==
    ASSUME IInv, strays' = strays \/ strays' = 0, strays' > 0 => holder'
    PROVE  Strays'
BY SizeAssumption DEF IInv, TypeOK, SeenType, Strays, StraysAreBounded, SizeAssumption

\* A step that opens nothing and changes nothing the proofs read.
LEMMA ProofKept ==
    ASSUME IInv, \A k \in Job : SameClaim(k), UNCHANGED <<admin, lock>>,
           \A k \in Job : rec[k].phase \in Physical => ref'[k] = ref[k],
           headLate' \/ UNCHANGED <<headLate, head>>, editLate' \/ (UNCHANGED editLate /\ (edits' => edits)),
           strays' = strays \/ strays' = 0,
           UNCHANGED <<open, root, since>> \/ (open' = NoJob /\ root' = "none"),
           step' \notin AdmitSteps \/ (UNCHANGED <<step, who>> /\ UNCHANGED since)
    PROVE  Proof'
<1> SUFFICES ASSUME NEW k \in Job, Removes(k)'
             PROVE  (Placed' => lock' = k) /\ Pinned(k)' /\ Intact(k)' /\ strays' <= since'
  BY DEF Proof
<1>1. Removes(k) /\ since' = since /\ rec[k].phase \in Physical
  BY JobAssumption DEF Removes, SameClaim, IInv, Control, DeleteStep, AdmitSteps, MoveSteps, JobAssumption
<1>2. rec'[k].head = rec[k].head /\ rec'[k].force = rec[k].force BY <1>1 DEF SameClaim
<1>3. (Placed => lock = k) /\ Pinned(k) /\ Intact(k) /\ strays <= since BY <1>1 DEF IInv, Proof
<1>4. Pinned(k)' BY <1>1, <1>2, <1>3 DEF Pinned
<1>5. Intact(k)' BY <1>2, <1>3 DEF Intact, Placed
<1>6. strays' <= since'
  BY <1>1, <1>3 DEF IInv, TypeOK, RootType
<1> QED BY <1>3, <1>4, <1>5, <1>6 DEF Placed

\* What a proof under way has read stands through a step elsewhere.
LEMMA ProvingKept ==
    ASSUME IInv, \A k \in Job : SameClaim(k), UNCHANGED <<admin, lock>>,
           \A k \in Job : rec[k].phase \in Physical => ref'[k] = ref[k],
           headLate' \/ UNCHANGED <<headLate, head>>, strays' = strays \/ strays' = 0,
           step' = "idle" \/ UNCHANGED <<step, who, native, owned>>
    PROVE  Proving'
<1> SUFFICES ASSUME step' \in ProveSteps PROVE Proving' BY DEF Proving
<1>1. UNCHANGED <<step, who, native, owned>> /\ step \in ProveSteps BY DEF ProveSteps
<1>2. who \in Job /\ rec[who].phase \in Physical
  BY <1>1 DEF IInv, Control, StepHasJob, DeleteStep, ProveSteps, AdmitSteps
<1>3. rec'[who].head = rec[who].head /\ ref'[who] = ref[who] BY <1>2 DEF SameClaim
<1> QED BY <1>1, <1>3 DEF IInv, Proving, Pinned, Placed

LEMMA ControlKept ==
    ASSUME IInv, \A k \in Job : SameClaim(k), UNCHANGED <<admin, lock, back>>,
           step' = "idle" \/ UNCHANGED <<step, who, native, owned>>,
           UNCHANGED <<open, root, since>> \/ (NoDeletion /\ step' = "idle"),
           UNCHANGED <<paused, hold>> \/ (NoDeletion /\ Idle)
    PROVE  Control'
<1>1. StepHasJob' BY DEF IInv, Control, StepHasJob, Idle, AdmitSteps, MoveSteps
<1>2. LogicalStep'
  <2>1. CASE step' = "idle" BY <2>1 DEF LogicalStep, ClaimSteps, RetireSteps, CancelSteps
  <2>2. CASE UNCHANGED <<step, who, owned>> /\ step # "idle"
    BY <2>2 DEF LogicalStep, IInv, Control, StepHasJob, SameClaim
  <2> QED BY <2>1, <2>2
<1>3. CancelStep' BY DEF IInv, Control, CancelStep, CancelSteps, Placed
<1>4. DeleteStep'
  <2>1. CASE NoDeletion /\ step' = "idle" BY <2>1 DEF DeleteStep, NoDeletion, AdmitSteps, MoveSteps
  <2>2. CASE UNCHANGED <<open, root, since, paused, hold>>
    <3>1. open # NoJob => rec'[open].phase \in Physical
      BY DEF IInv, Control, DeleteStep, TypeOK, RootType, SameClaim
    <3>2. step \in AdmitSteps => rec'[who].phase \in Physical
      BY DEF IInv, Control, DeleteStep, StepHasJob, SameClaim, AdmitSteps, MoveSteps
    <3> QED BY <2>2, <3>1, <3>2 DEF DeleteStep, IInv, Control, Halted, AdmitSteps, MoveSteps
  <2> QED BY <2>1, <2>2 DEF NoDeletion, Idle
<1> QED BY <1>1, <1>2, <1>3, <1>4 DEF Control

\* A step that changes no claim, no marker and no proof keeps the invariant.
LEMMA Kept ==
    ASSUME IInv, TypeOK', \A k \in Job : SameClaim(k), UNCHANGED <<admin, lock, back>>,
           \A k \in Job : rec[k].phase \in Physical => ref'[k] = ref[k],
           headLate' \/ UNCHANGED <<headLate, head>>, editLate' \/ (UNCHANGED editLate /\ (edits' => edits)),
           strays' = strays \/ strays' = 0, strays' > 0 => holder',
           step' = "idle" \/ UNCHANGED <<step, who, native, owned>>,
           UNCHANGED <<open, root, since>> \/ (NoDeletion /\ step' = "idle"),
           UNCHANGED <<paused, hold>> \/ (NoDeletion /\ Idle)
    PROVE  IInv'
<1>1. Marker' BY MarkerKept
<1>2. Strays' BY StraysKept
<1>3. Proof'  BY ProofKept DEF AdmitSteps, MoveSteps, NoDeletion
<1>4. Control' BY ControlKept
<1>5. Proving' BY ProvingKept DEF NoDeletion
<1> QED BY <1>1, <1>2, <1>3, <1>4, <1>5 DEF IInv

\* The worker's steps change nothing but its records, its place and its root.
LEMMA WorkerTyped ==
    ASSUME IInv, rec' \in [Job -> Record], StepType', UNCHANGED <<fs, paused, hold, seen, world>>,
           UNCHANGED <<open, root, since>> \/ NoDeletion
    PROVE  TypeOK'
<1>1. TreeType' BY DEF IInv, TypeOK, TreeType, fs
<1>2. JournalType' BY DEF IInv, TypeOK, JournalType
<1>3. RootType' BY SizeAssumption DEF IInv, TypeOK, RootType, NoDeletion, SizeAssumption
<1>4. SeenType' BY DEF IInv, TypeOK, SeenType, seen, world
<1> QED BY <1>1, <1>2, <1>3, <1>4 DEF TypeOK

\* A step that only writes a record that keeps its claim, or ends the handler.
LEMMA WorkerKept ==
    ASSUME IInv, rec' \in [Job -> Record], \A k \in Job : SameClaim(k), StepType',
           UNCHANGED <<fs, paused, hold, seen, world>>,
           step' = "idle" \/ UNCHANGED <<step, who, native, owned>>,
           UNCHANGED <<open, root, since>> \/ (NoDeletion /\ step' = "idle")
    PROVE  IInv'
<1>1. TypeOK' BY WorkerTyped
<1>2. strays' > 0 => holder' BY DEF IInv, Strays, fs, seen
<1> QED BY <1>1, <1>2, Kept DEF fs, seen

\* Blocking a job and ending its handler keeps the invariant.
LEMMA BlockKept ==
    ASSUME IInv, NEW j \in Job, NEW reason \in Reason, Block(j, reason),
           UNCHANGED <<fs, paused, hold, seen, world>>,
           UNCHANGED <<open, root, since>> \/ NoDeletion
    PROVE  IInv'
BY BlockKeeps, WorkerKept

\* No claim changes where no record does.
LEMMA RecKept ==
    ASSUME IInv, UNCHANGED rec
    PROVE  rec' \in [Job -> Record] /\ \A k \in Job : SameClaim(k)
BY DEF IInv, TypeOK, JournalType, Marker, NothingRetired, SameClaim

-----------------------------------------------------------------------------
(* Requests and the switch.                                                  *)

LEMMA CreateKeeps ==
    ASSUME IInv, NEW j \in Job, NEW phase \in Logical, NEW force \in BOOLEAN,
           Create(j, phase, force)
    PROVE  rec' \in [Job -> Record] /\ \A k \in Job : SameClaim(k)
<1> DEFINE r == [Absent EXCEPT !.phase = phase, !.head = head, !.force = force]
<1>1. r \in Record /\ r.retirement = "" /\ r.phase \in Logical
  BY DEF Record, Absent, Phase, Logical, Reason, IInv, TypeOK, TreeType
<1>2. rec' \in [Job -> Record] /\ rec'[j] = r /\ \A k \in Job \ {j} : rec'[k] = rec[k]
  BY <1>1, SetOne DEF Create, IInv
<1>3. rec[j].phase = "absent" /\ rec[j].retirement = ""
  BY DEF Create, IInv, Marker, NothingRetired
<1>4. r.phase # "absent" /\ "absent" \notin Logical \cup Physical BY <1>1 DEF Logical, Physical
<1> HIDE DEF r
<1> QED BY <1>1, <1>2, <1>3, <1>4 DEF SameClaim, IInv, Marker, NothingRetired

\* Discarding a record that answers for nothing, or no longer for a marker.
LEMMA DiscardOne ==
    ASSUME IInv, NEW j \in Job, Discard(j)
    PROVE  /\ rec' \in [Job -> Record]
           /\ rec'[j].phase = "discarded" /\ \A k \in Job \ {j} : rec'[k] = rec[k]
<1> DEFINE r == [Absent EXCEPT !.phase = "discarded", !.head = rec[j].head]
<1>1. rec[j] \in Record BY DEF IInv, TypeOK, JournalType
<1>2. r \in Record /\ r.phase = "discarded"
  BY <1>1 DEF Record, Absent, Phase, Reason
<1>3. Set(j, r) BY DEF Discard
<1> HIDE DEF r
<1> QED BY <1>2, <1>3, SetOne DEF IInv

\* A logical job is discarded when its marker is gone and git lists its tree.
LEMMA DiscardKept ==
    ASSUME IInv, NEW j \in Job, Discard(j), step' = "idle", rec[j].phase \in Logical,
           lock # j, rec[j].retirement = "" \/ ~Placed \/ back # "empty", StepType',
           UNCHANGED <<fs, paused, hold, open, root, since, seen, world>>
    PROVE  IInv'
<1>1. /\ rec' \in [Job -> Record]
      /\ rec'[j].phase = "discarded" /\ \A k \in Job \ {j} : rec'[k] = rec[k]
  BY DiscardOne
<1>2. TypeOK' BY <1>1, WorkerTyped
<1>3. rec[j].phase \notin Physical BY DEF Logical, Physical
<1>4. Control'
  <2>1. StepHasJob' /\ LogicalStep' /\ CancelStep'
    BY DEF StepHasJob, LogicalStep, CancelStep, AdmitSteps, MoveSteps, ClaimSteps, RetireSteps, CancelSteps
  <2>2. DeleteStep'
    BY <1>1, <1>3 DEF IInv, TypeOK, RootType, Control, DeleteStep, Halted, AdmitSteps, MoveSteps
  <2> QED BY <2>1, <2>2 DEF Control
<1>5. Marker'
  <2>1. GoneIsUnlocked' BY DEF IInv, Marker, GoneIsUnlocked, Placed, fs
  <2>2. NothingRetired' BY <1>1 DEF IInv, Marker, NothingRetired
  <2>3. \A k \in Job \ {j} : Answers(k) => Answers(k)' BY <1>1 DEF Answers
  <2>4. MarkerIsJournaled' BY <2>3 DEF IInv, Marker, MarkerIsJournaled, fs
  <2>5. HiddenIsOwned'
    BY <1>1, <1>3, <2>3 DEF IInv, Marker, HiddenIsOwned, Placed, fs, Answers
  <2> QED BY <2>1, <2>2, <2>4, <2>5 DEF Marker
<1>6. Proof'
  <2> SUFFICES ASSUME NEW k \in Job, Removes(k)'
               PROVE  (Placed' => lock' = k) /\ Pinned(k)' /\ Intact(k)' /\ strays' <= since'
    BY DEF Proof
  <2>1. Removes(k) /\ k # j
    BY <1>3, JobAssumption DEF Removes, IInv, Control, DeleteStep, MoveSteps, JobAssumption
  <2> QED BY <1>1, <2>1 DEF IInv, Proof, Pinned, Intact, Placed, fs, seen
<1>7. Strays' BY DEF IInv, Strays, StraysAreBounded, fs, seen
<1> QED BY <1>2, <1>4, <1>5, <1>6, <1>7 DEF IInv, Proving, ProveSteps

LEMMA CancelKept ==
    ASSUME IInv, NEW j \in Job, Cancel(j)
    PROVE  IInv'
<1>1. rec[j].phase \in Logical BY DEF Cancel, Logical
<1>2. CASE rec[j].retirement = ""
  <2>1. lock # j
    BY <1>1, <1>2 DEF IInv, Marker, MarkerIsJournaled, Answers, Logical, Physical
  <2> QED BY <1>1, <1>2, <2>1, DiscardKept DEF Cancel, Idle, IInv, TypeOK, StepType, fs
<1>3. CASE rec[j].retirement # ""
  <2>1. UNCHANGED <<rec, lock, admin, ref, headLate, editLate, strays, head, edits, open, root, since, holder>>
        /\ step' = "cancelUnlock" /\ who' = j /\ owned' = (lock = j) /\ back' = "tree"
        /\ step = "idle" /\ UNCHANGED <<paused, hold>> /\ hold = NoHold
    BY <1>3 DEF Cancel, Goto, seen, Idle
  <2>2. rec' \in [Job -> Record] /\ \A k \in Job : SameClaim(k) BY <2>1, RecKept
  <2>3. TypeOK'
    <3>1. TreeType' BY <2>1 DEF Cancel, IInv, TypeOK, TreeType
    <3>2. JournalType' BY <2>1 DEF IInv, TypeOK, JournalType
    <3>3. StepType' BY <2>1, <1>3 DEF Cancel, IInv, TypeOK, StepType, Steps
    <3>4. RootType' BY <2>1 DEF IInv, TypeOK, RootType
    <3>5. SeenType' BY <2>1 DEF Cancel, IInv, TypeOK, SeenType, world
    <3> QED BY <3>1, <3>2, <3>3, <3>4, <3>5 DEF TypeOK
  <2>4. Control'
    <3>1. StepHasJob' BY <2>1 DEF StepHasJob, AdmitSteps, MoveSteps
    <3>2. LogicalStep' BY <1>1, <1>3, <2>1 DEF LogicalStep, RetireSteps
    <3>3. CancelStep' BY <2>1 DEF CancelStep
    <3>4. DeleteStep' BY <2>1 DEF IInv, Control, DeleteStep, Halted, AdmitSteps, MoveSteps
    <3> QED BY <3>1, <3>2, <3>3, <3>4 DEF Control
  <2>5. Marker'
    <3>1. GoneIsUnlocked' /\ NothingRetired' /\ HiddenIsOwned'
      BY <2>1 DEF IInv, Marker, GoneIsUnlocked, NothingRetired, HiddenIsOwned, Placed
    <3>2. MarkerIsJournaled' BY <2>1 DEF IInv, Marker, MarkerIsJournaled, Answers
    <3> QED BY <3>1, <3>2 DEF Marker
  <2>6. Proof' BY <2>1, <2>2, ProofKept DEF AdmitSteps, MoveSteps
  <2>7. Strays' BY <2>1 DEF IInv, Strays, StraysAreBounded
  <2> QED BY <2>3, <2>4, <2>5, <2>6, <2>7, <2>1 DEF IInv, Proving, ProveSteps
<1> QED BY <1>2, <1>3

LEMMA RequestKept ==
    ASSUME IInv, NEW j \in Job, Request(j)
    PROVE  IInv'
<1>1. ASSUME NEW force \in BOOLEAN, Remove(j, force) PROVE IInv'
  <2>1. rec' \in [Job -> Record] /\ \A k \in Job : SameClaim(k)
    BY <1>1, ReviveKeeps, CreateKeeps DEF Remove, Logical
  <2> QED BY <1>1, <2>1, WorkerKept DEF Remove, worker, IInv, TypeOK, StepType
<1>2. ASSUME NEW force \in BOOLEAN, Defer(j, force) PROVE IInv'
  <2>1. rec' \in [Job -> Record] /\ \A k \in Job : SameClaim(k)
    BY <1>2, ReviveKeeps, CreateKeeps DEF Defer, Logical
  <2> QED BY <1>2, <2>1, WorkerKept DEF Defer, worker, IInv, TypeOK, StepType
<1>3. CASE Retry(j)
  BY <1>3, ReviveKeeps, WorkerKept DEF Retry, worker, IInv, TypeOK, StepType
<1>4. CASE Cancel(j) BY <1>4, CancelKept
<1> QED BY <1>1, <1>2, <1>3, <1>4 DEF Request

LEMMA SwitchKept ==
    ASSUME IInv, Switch
    PROVE  IInv'
<1>1. \E p \in BOOLEAN, h \in Holder \cup {NoHold} : Publish(p, h) /\ Idle
  BY DEF Switch, Pause, Resume, Take, Release, IInv, TypeOK, JournalType
<1>2. TypeOK'
  <2>1. TreeType' /\ SeenType' BY <1>1 DEF Publish, IInv, TypeOK, TreeType, SeenType, fs, seen, world
  <2>2. JournalType' /\ StepType' BY <1>1 DEF Publish, IInv, TypeOK, JournalType, StepType
  <2>3. RootType' BY <1>1, SizeAssumption DEF Publish, NoDeletion, RootType, SizeAssumption
  <2> QED BY <2>1, <2>2, <2>3 DEF TypeOK
<1>3. strays' > 0 => holder' BY <1>1 DEF IInv, Strays, fs, seen, Publish
<1> QED BY <1>1, <1>2, <1>3, RecKept, Kept DEF Publish, fs, seen, Idle

LEMMA CancelUnlockKept ==
    ASSUME IInv, NEW j \in Job, CancelUnlock(j)
    PROVE  IInv'
<1>1. /\ rec[j].phase \in Logical /\ (~Placed \/ back # "empty") /\ (owned <=> lock = j)
      /\ hold = NoHold /\ ~(open # NoJob /\ open = j)
  BY DEF CancelUnlock, IInv, Control, StepHasJob, LogicalStep, CancelStep, CancelSteps,
         DeleteStep, Logical, Physical
<1>2. /\ UNCHANGED <<rec, paused, hold, admin, back, ref, headLate, editLate, strays, head, edits, holder, open, root, since>>
      /\ lock' # j /\ lock' = (IF lock = j THEN "none" ELSE lock)
      /\ step' \in {"idle", "cancelDiscard"} /\ (step' = "cancelDiscard" => who' = j)
      /\ step = "cancelUnlock"
  BY <1>1, JobAssumption DEF CancelUnlock, Goto, Finished, journal, seen, JobAssumption
<1>3. rec' \in [Job -> Record] /\ \A k \in Job : SameClaim(k) BY <1>2, RecKept
<1>4. TypeOK'
  <2>1. TreeType' BY <1>2 DEF CancelUnlock, IInv, TypeOK, TreeType
  <2>2. JournalType' /\ RootType' BY <1>2 DEF IInv, TypeOK, JournalType, RootType
  <2>3. StepType' BY DEF CancelUnlock, Goto, Finished, IInv, TypeOK, StepType, Steps
  <2>4. SeenType' BY <1>2 DEF CancelUnlock, IInv, TypeOK, SeenType, world
  <2> QED BY <2>1, <2>2, <2>3, <2>4 DEF TypeOK
<1>5. Control'
  <2>1. StepHasJob' BY <1>1, <1>2 DEF StepHasJob, AdmitSteps, MoveSteps
  <2>2. LogicalStep' BY <1>1, <1>2 DEF LogicalStep, ClaimSteps, RetireSteps, CancelSteps
  <2>3. CancelStep' BY <1>1, <1>2 DEF CancelStep, CancelSteps, Placed
  <2>4. DeleteStep' BY <1>2 DEF IInv, Control, DeleteStep, Halted, AdmitSteps, MoveSteps
  <2> QED BY <2>1, <2>2, <2>3, <2>4 DEF Control
<1>6. Marker'
  <2>1. GoneIsUnlocked' /\ NothingRetired'
    BY <1>2 DEF IInv, Marker, GoneIsUnlocked, NothingRetired, Placed
  <2>2. MarkerIsJournaled' BY <1>2, JobAssumption DEF IInv, Marker, MarkerIsJournaled, Answers, JobAssumption
  <2>3. HiddenIsOwned' BY <1>1, <1>2 DEF HiddenIsOwned, Placed
  <2> QED BY <2>1, <2>2, <2>3 DEF Marker
<1>7. Proof'
  <2> SUFFICES ASSUME NEW k \in Job, Removes(k)'
               PROVE  (Placed' => lock' = k) /\ Pinned(k)' /\ Intact(k)' /\ strays' <= since'
    BY DEF Proof
  <2>1. Removes(k) /\ k # j BY <1>1, <1>2, JobAssumption DEF Removes, MoveSteps, JobAssumption
  <2> QED BY <1>2, <2>1 DEF IInv, Proof, Pinned, Intact, Placed
<1>8. Strays' BY <1>2 DEF IInv, Strays, StraysAreBounded
<1> QED BY <1>4, <1>5, <1>6, <1>7, <1>8, <1>2 DEF IInv, Proving, ProveSteps

LEMMA CancelDiscardKept ==
    ASSUME IInv, NEW j \in Job, CancelDiscard(j)
    PROVE  IInv'
<1>1. rec[j].phase \in Logical /\ lock # j /\ (~Placed \/ back # "empty")
  BY DEF CancelDiscard, IInv, Control, LogicalStep, CancelStep, CancelSteps
<1>2. StepType' BY DEF CancelDiscard, Finished, StepType, Steps
<1> QED BY <1>1, <1>2, DiscardKept DEF CancelDiscard, Finished

-----------------------------------------------------------------------------
(* The worker's turns, crashes, time and the user.                           *)

LEMMA TurnKept ==
    ASSUME IInv, (\E j \in Job : AutoRetry(j)) \/ Reconcile \/ Park
    PROVE  IInv'
<1>1. ASSUME NEW j \in Job, AutoRetry(j) PROVE IInv'
  BY <1>1, ReviveKeeps, WorkerKept DEF AutoRetry, worker, IInv, TypeOK, StepType
<1>2. CASE Reconcile
  <2>1. \A k \in Job : rec[k] \in Record BY DEF IInv, TypeOK, JournalType
  <2>2. \A k \in Job : /\ rec'[k] \in Record /\ rec'[k].phase = rec[k].phase
                       /\ rec'[k].retirement = rec[k].retirement
                       /\ rec'[k].head = rec[k].head /\ rec'[k].force = rec[k].force
    BY <1>2, <2>1 DEF Reconcile, Record, Reason
  <2>3. rec' \in [Job -> Record] BY <1>2, <2>2 DEF Reconcile
  <2>4. \A k \in Job : SameClaim(k) BY <2>2 DEF SameClaim, IInv, Marker, NothingRetired
  <2> QED BY <1>2, <2>3, <2>4, WorkerKept DEF Reconcile, worker, IInv, TypeOK, StepType
<1>3. CASE Park
  BY <1>3, RecKept, WorkerKept DEF Park, Parked, Idle, IInv, TypeOK, StepType
<1> QED BY <1>1, <1>2, <1>3

LEMMA TimeoutKept ==
    ASSUME IInv, NEW j \in Job, StepTimesOut(j)
    PROVE  IInv'
<1>1. rec' \in [Job -> Record] /\ (\A k \in Job : SameClaim(k)) /\ StepType' /\ step' = "idle"
  BY BlockKeeps DEF StepTimesOut, Reason
<1>2. TypeOK'
  <2>1. TreeType' BY DEF StepTimesOut, IInv, TypeOK, TreeType, fs
  <2>2. JournalType' BY <1>1 DEF StepTimesOut, IInv, TypeOK, JournalType
  <2>3. RootType' BY DEF StepTimesOut, IInv, TypeOK, RootType
  <2>4. SeenType'
    BY BoundAssumption DEF StepTimesOut, Happens, IInv, TypeOK, SeenType, seen, BoundAssumption
  <2> QED BY <1>1, <2>1, <2>2, <2>3, <2>4 DEF TypeOK
<1>3. strays' > 0 => holder' BY DEF IInv, Strays, fs, seen, StepTimesOut
<1> QED BY <1>1, <1>2, <1>3, Kept DEF StepTimesOut, fs, seen

LEMMA CrashKept ==
    ASSUME IInv, Crash
    PROVE  IInv'
<1>1. TypeOK'
  <2>1. TreeType' /\ JournalType' BY DEF Crash, IInv, TypeOK, TreeType, JournalType, fs, journal
  <2>2. StepType' BY DEF Crash, StepType, Steps
  <2>3. RootType' BY SizeAssumption DEF Crash, RootType, NoDeletion, SizeAssumption
  <2>4. SeenType' BY BoundAssumption DEF Crash, IInv, TypeOK, SeenType, seen, BoundAssumption
  <2> QED BY <2>1, <2>2, <2>3, <2>4 DEF TypeOK
<1>2. strays' > 0 => holder' BY DEF IInv, Strays, fs, seen, Crash
<1> QED BY <1>1, <1>2, RecKept, Kept DEF Crash, fs, seen, journal

LEMMA SampleKept ==
    ASSUME IInv, Sample
    PROVE  IInv'
<1>1. TypeOK'
  <2>1. TreeType' /\ JournalType' /\ StepType' /\ RootType'
    BY DEF Sample, IInv, TypeOK, TreeType, JournalType, StepType, RootType, fs, journal, worker
  <2>2. SeenType' BY DEF Sample, IInv, TypeOK, SeenType, seen
  <2> QED BY <2>1, <2>2 DEF TypeOK
<1>2. strays' > 0 => holder' BY DEF IInv, Strays, fs, seen, Sample
<1> QED BY <1>1, <1>2, RecKept, Kept DEF Sample, fs, seen, journal, worker

LEMMA HourKept ==
    ASSUME IInv, HourPasses
    PROVE  IInv'
<1>1. \A k \in Job : rec[k] \in Record BY DEF IInv, TypeOK, JournalType
<1>2. \A k \in Job : /\ rec'[k] \in Record /\ rec'[k].phase = rec[k].phase
                     /\ rec'[k].retirement = rec[k].retirement
                     /\ rec'[k].head = rec[k].head /\ rec'[k].force = rec[k].force
  BY <1>1 DEF HourPasses, Record
<1>3. rec' \in [Job -> Record] BY <1>2 DEF HourPasses
<1>4. \A k \in Job : SameClaim(k) BY <1>2 DEF SameClaim, IInv, Marker, NothingRetired
<1>5. TypeOK'
  <2>1. TreeType' BY DEF HourPasses, IInv, TypeOK, TreeType
  <2>2. JournalType' BY <1>3 DEF HourPasses, IInv, TypeOK, JournalType
  <2>3. StepType' /\ RootType' BY DEF HourPasses, IInv, TypeOK, StepType, RootType, worker
  <2>4. SeenType' BY DEF HourPasses, IInv, TypeOK, SeenType, seen, world
  <2> QED BY <2>1, <2>2, <2>3, <2>4 DEF TypeOK
<1>6. strays' > 0 => holder' BY DEF IInv, Strays, seen, HourPasses
<1> QED BY <1>4, <1>5, <1>6, Kept DEF HourPasses, seen, worker

\* An event of the user's changes no record, and neither lock nor backlink of a
\* registration that a removal relies on.
LEMMA UserTyped ==
    ASSUME IInv, TreeType', UNCHANGED <<journal, worker, shut, crashes>>,
           headLate' \in BOOLEAN, editLate' \in BOOLEAN, strays' \in Nat, events' \in 0..MaxExternal
    PROVE  TypeOK'
BY DEF IInv, TypeOK, JournalType, StepType, RootType, SeenType, journal, worker

\* Work in the tree, on its branches and on its path.
LEMMA TreeUserKept ==
    ASSUME IInv, \/ Edit \/ EnterTree \/ LeaveTree \/ MoveAway \/ MoveBack \/ DeleteTree
                 \/ \E c \in Commit : DropBranch(c) \/ \E branch \in BOOLEAN : CommitWork(c, branch)
    PROVE  IInv'
<1>1. \/ UNCHANGED <<left, at>>
      \/ left' = left /\ at' \in {"original", "away", "gone"}
      \/ left' = 0 /\ at' \in {"original", "away", "gone"}
  BY DEF Edit, EnterTree, LeaveTree, MoveAway, MoveBack, DeleteTree, DropBranch, CommitWork
<1>2. left' \in 0..TreeSize BY <1>1, SizeAssumption DEF IInv, TypeOK, TreeType, SizeAssumption
<1>3. at' \in {"original", "away", "gone"} \cup Job BY <1>1 DEF IInv, TypeOK, TreeType
<1>4. /\ edits' \in BOOLEAN /\ head' \in Commit /\ kept' \in SUBSET Commit /\ holder' \in BOOLEAN
      /\ fresh' \in BOOLEAN
  BY DEF IInv, TypeOK, TreeType, Edit, EnterTree, LeaveTree, MoveAway, MoveBack, DeleteTree, DropBranch, CommitWork
<1>5. UNCHANGED <<admin, lock, back, ref, journal, worker, shut, crashes>>
  BY DEF Edit, EnterTree, LeaveTree, MoveAway, MoveBack, DeleteTree, DropBranch, CommitWork, world
<1>6. TreeType' BY <1>2, <1>3, <1>4, <1>5 DEF IInv, TypeOK, TreeType
<1>7. /\ strays' = strays \/ strays' = 0
      /\ (strays' = strays /\ UNCHANGED holder) \/ holder' \/ strays' = 0
      /\ headLate' \/ UNCHANGED <<headLate, head>>
      /\ headLate' = headLate \/ headLate' = TRUE
  BY DEF Edit, EnterTree, LeaveTree, MoveAway, MoveBack, DeleteTree, DropBranch,
         CommitWork, seen
<1>8. editLate' = editLate \/ editLate' = TRUE
  BY DEF Edit, EnterTree, LeaveTree, MoveAway, MoveBack, DeleteTree, DropBranch,
         CommitWork, seen
<1>9. editLate' \/ (UNCHANGED editLate /\ (edits' => edits))
  BY DEF Edit, EnterTree, LeaveTree, MoveAway, MoveBack, DeleteTree, DropBranch,
         CommitWork, seen
<1>10. events' \in 0..MaxExternal
  BY BoundAssumption DEF IInv, TypeOK, SeenType, Edit, EnterTree, LeaveTree, MoveAway, MoveBack, DeleteTree, DropBranch,
     CommitWork, Happens, world, BoundAssumption
<1>11. TypeOK'
  <2>1. headLate' \in BOOLEAN /\ editLate' \in BOOLEAN /\ strays' \in Nat
    <3>1. headLate \in BOOLEAN /\ editLate \in BOOLEAN /\ strays \in Nat BY DEF IInv, TypeOK, SeenType
    <3>2. strays' = strays \/ strays' = 0
      BY DEF Edit, EnterTree, LeaveTree, MoveAway, MoveBack, DeleteTree, DropBranch, CommitWork, seen
    <3>3. headLate' \in BOOLEAN /\ editLate' \in BOOLEAN BY <1>7, <1>8, <3>1
    <3>4. strays' \in Nat BY <3>1, <3>2
    <3> QED BY <3>3, <3>4
  <2> QED BY <1>5, <1>6, <1>10, <2>1, UserTyped
<1>12. strays' > 0 => holder' BY <1>7 DEF IInv, Strays
<1> QED BY <1>5, <1>7, <1>9, <1>11, <1>12, RecKept, Kept DEF journal, worker

\* Work on the registration. git refuses a locked worktree and lists none whose
\* backlink is empty; unlocking needs a hold, under which no handler is at work.
LEMMA AdminUserKept ==
    ASSUME IInv, GitLock \/ GitUnlock \/ GitMove \/ Prune
    PROVE  IInv'
<1>1. TypeOK'
  <2>1. TreeType' BY DEF IInv, TypeOK, TreeType, GitLock, GitUnlock, GitMove, Prune
  <2>2. events' \in 0..MaxExternal
    BY BoundAssumption DEF IInv, TypeOK, SeenType, GitLock, GitUnlock, GitMove, Prune, Happens, BoundAssumption
  <2> QED BY <2>1, <2>2, UserTyped DEF IInv, TypeOK, SeenType, GitLock, GitUnlock, GitMove, Prune, seen
<1>2. /\ UNCHANGED <<journal, worker, ref, head, edits, holder, seen>>
      /\ \/ lock = "none" /\ lock' = "user" /\ UNCHANGED <<admin, back>> /\ admin = "whole"
         \/ hold # NoHold /\ lock' = "none" /\ back # "empty" /\ UNCHANGED <<admin, back>>
         \/ lock = "none" /\ back' = "elsewhere" /\ UNCHANGED <<lock, admin>>
         \/ lock = "none" /\ lock' = "none" /\ admin' = "gone"
  BY DEF GitLock, GitUnlock, GitMove, Prune, Prunable, Listed
<1>3. step = "idle" \/ lock = "none" BY <1>2 DEF IInv, Control, StepHasJob
<1>4. rec' \in [Job -> Record] /\ \A k \in Job : SameClaim(k) BY <1>2, RecKept DEF journal
<1>5. Control'
  <2>1. StepHasJob' BY <1>2 DEF IInv, Control, StepHasJob, worker, journal
  <2>2. LogicalStep' BY <1>2, JobAssumption DEF IInv, Control, StepHasJob, LogicalStep, worker, journal, JobAssumption
  <2>3. CancelStep' BY <1>2, JobAssumption DEF IInv, Control, StepHasJob, CancelStep, CancelSteps, worker, journal, Placed, JobAssumption
  <2>4. DeleteStep' BY <1>2 DEF IInv, Control, DeleteStep, Halted, worker, journal
  <2> QED BY <2>1, <2>2, <2>3, <2>4 DEF Control
<1>6. Marker'
  <2>1. GoneIsUnlocked' /\ NothingRetired'
    BY <1>2 DEF IInv, Marker, GoneIsUnlocked, NothingRetired, Placed, journal
  <2>2. MarkerIsJournaled' BY <1>2, JobAssumption DEF IInv, Marker, MarkerIsJournaled, Answers, journal, JobAssumption
  <2>3. HiddenIsOwned' BY <1>2, JobAssumption DEF IInv, Marker, HiddenIsOwned, Placed, Answers, journal, JobAssumption
  <2> QED BY <2>1, <2>2, <2>3 DEF Marker
<1>7. Proof'
  <2> SUFFICES ASSUME NEW k \in Job, Removes(k)'
               PROVE  (Placed' => lock' = k) /\ Pinned(k)' /\ Intact(k)' /\ strays' <= since'
    BY DEF Proof
  <2>1. Removes(k) /\ hold = NoHold
    BY <1>2, JobAssumption
    DEF Removes, IInv, Control, StepHasJob, DeleteStep, Halted, MoveSteps, worker, journal, JobAssumption
  <2>2. (Placed => lock = k) /\ Pinned(k) /\ Intact(k) /\ strays <= since BY <2>1 DEF IInv, Proof
  <2>3. Placed' => lock' = k BY <1>2, <2>1, <2>2, JobAssumption DEF Placed, JobAssumption
  <2>4. Placed' => Placed BY <1>2, <2>1, <2>2 DEF Placed
  <2>5. Intact(k)' BY <1>2, <2>2, <2>4 DEF Intact, seen, journal
  <2> QED BY <1>2, <2>2, <2>3, <2>5 DEF Pinned, journal, worker, seen
<1>8. Strays' BY <1>2 DEF IInv, Strays, StraysAreBounded, seen
<1>9. Proving'
  <2> SUFFICES ASSUME step \in ProveSteps PROVE Proving' BY <1>2 DEF Proving, worker
  <2>1. /\ who \in Job /\ hold = NoHold /\ Pinned(who) /\ (Placed => native)
        /\ (native /\ owned /\ Placed => lock = who) /\ (native => head = rec[who].head \/ headLate)
        /\ (step = "admitStatus" => strays = 0)
    BY DEF IInv, Proving, Control, StepHasJob, ProveSteps
  <2>2. Placed' => Placed /\ native' BY <1>2, <2>1 DEF Placed, worker
  <2>3. native' /\ owned' /\ Placed' => lock' = who'
    BY <1>2, <2>1, <2>2, JobAssumption DEF worker, JobAssumption
  <2> QED BY <1>2, <2>1, <2>2, <2>3 DEF Proving, Pinned, journal, worker, seen
<1> QED BY <1>1, <1>5, <1>6, <1>7, <1>8, <1>9 DEF IInv

-----------------------------------------------------------------------------
(* Claiming and retiring.                                                    *)

\* A logical handler goes on to its next step.
LEMMA LogicalKept ==
    ASSUME IInv, NEW j \in Job, TypeOK', \A k \in Job : SameClaim(k), rec[j].phase \in Logical,
           hold = NoHold, who' = j, step' \in ClaimSteps \cup RetireSteps,
           UNCHANGED <<at, left, edits, head, kept, holder, admin, lock, back, fresh,
                       paused, hold, open, root, since, seen>>,
           \A k \in Job : k # j => ref'[k] = ref[k],
           step' \in {"claimLock"} \cup (RetireSteps \ {"retireIntent"}) => rec'[j].retirement # "",
           step' \in {"retirePin", "retireIdle", "retireHide", "retireEnd"} => lock = j,
           step' = "retireIntent" /\ owned' => lock = j
    PROVE  IInv'
<1>1. step' # "idle" /\ step' \notin AdmitSteps \cup CancelSteps \cup {"slice"}
  BY DEF ClaimSteps, RetireSteps, CancelSteps, AdmitSteps, MoveSteps
<1>2. rec'[j].phase \in Logical /\ rec[j].phase \notin Physical
  BY DEF SameClaim, Logical, Physical
<1>3. Control'
  <2>1. StepHasJob' BY <1>1 DEF StepHasJob
  <2>2. LogicalStep' BY <1>1, <1>2 DEF LogicalStep
  <2>3. CancelStep' BY <1>1 DEF CancelStep, CancelSteps
  <2>4. open # NoJob => rec'[open].phase \in Physical
    BY DEF IInv, Control, DeleteStep, TypeOK, RootType, SameClaim
  <2>5. DeleteStep' BY <1>1, <2>4 DEF IInv, Control, DeleteStep, Halted
  <2> QED BY <2>1, <2>2, <2>3, <2>5 DEF Control
<1>4. Marker' BY MarkerKept
<1>5. Proof'
  <2>1. \A k \in Job : rec[k].phase \in Physical => ref'[k] = ref[k] BY <1>2
  <2> QED BY <1>1, <2>1, ProofKept DEF seen
<1>6. Strays' BY DEF IInv, Strays, StraysAreBounded, seen
<1> QED BY <1>3, <1>4, <1>5, <1>6, <1>1 DEF IInv, Proving, ProveSteps, AdmitSteps

\* What a step of a logical handler may rely on.
LEMMA LogicalFacts ==
    ASSUME IInv, NEW j \in Job, who = j, step \in ClaimSteps \cup RetireSteps
    PROVE  /\ rec[j].phase \in Logical /\ hold = NoHold /\ open # j
           /\ step \in {"claimLock"} \cup (RetireSteps \ {"retireIntent"}) => rec[j].retirement # ""
           /\ step \in {"retirePin", "retireIdle", "retireHide", "retireEnd"} => lock = j
           /\ step = "retireIntent" /\ owned => lock = j
BY JobAssumption DEF IInv, Control, StepHasJob, LogicalStep, DeleteStep, ClaimSteps, RetireSteps, Logical, Physical,
   JobAssumption

\* Entering a phase of the deletion, or ending it once the registration is gone.
LEMMA EnterMarker ==
    ASSUME IInv, NEW j \in Job, NEW p \in Physical \cup {"done"}, Enter(j, p),
           p = "done" => ~Placed, UNCHANGED <<admin, lock, back>>
    PROVE  Marker'
<1>1. p \in Phase /\ p \notin Logical /\ p # "absent" BY DEF Physical, Phase, Logical
<1>2. rec'[j].phase = p /\ rec'[j].retirement = "" /\ \A k \in Job \ {j} : rec'[k] = rec[k]
  BY <1>1, EnterOne
<1>3. GoneIsUnlocked' BY DEF IInv, Marker, GoneIsUnlocked, Placed
<1>4. NothingRetired' BY <1>2 DEF IInv, Marker, NothingRetired
<1>5. \A k \in Job : Answers(k) => Answers(k)' \/ ~Placed BY <1>2 DEF Answers
<1>6. MarkerIsJournaled'
  BY <1>5, JobAssumption DEF IInv, Marker, GoneIsUnlocked, MarkerIsJournaled, JobAssumption
<1>7. \A k \in Job : rec[k].phase \in Physical => rec'[k].phase \in Physical \/ ~Placed BY <1>2
<1>8. HiddenIsOwned' BY <1>5, <1>7 DEF IInv, Marker, HiddenIsOwned, Placed
<1> QED BY <1>3, <1>4, <1>6, <1>8 DEF Marker

\* What is proven of a removal stands while another job's record changes.
LEMMA ProofElsewhere ==
    ASSUME IInv, NEW j \in Job, \A k \in Job \ {j} : rec'[k] = rec[k], open # j,
           UNCHANGED <<fs, seen, open, root, since>>, step' \notin AdmitSteps \ {"admit"}
    PROVE  Proof'
<1> SUFFICES ASSUME NEW k \in Job, Removes(k)'
             PROVE  (Placed' => lock' = k) /\ Pinned(k)' /\ Intact(k)' /\ strays' <= since'
  BY DEF Proof
<1>1. Removes(k) /\ k # j BY DEF Removes, AdmitSteps, MoveSteps
<1> QED BY <1>1 DEF IInv, Proof, Pinned, Intact, Placed, fs, seen

\* A job that is not deleting enters a phase, and its handler ends.
LEMMA EnterKept ==
    ASSUME IInv, NEW j \in Job, NEW p \in Physical \cup {"done"}, Enter(j, p), Finished,
           p = "done" => ~Placed, open # j, UNCHANGED <<fs, paused, hold, open, root, since, seen, world>>
    PROVE  IInv'
<1>1. p \in Phase BY DEF Physical, Phase
<1>2. rec' \in [Job -> Record] /\ rec'[j].phase = p /\ \A k \in Job \ {j} : rec'[k] = rec[k]
  BY <1>1, EnterOne
<1>3. StepType' /\ step' = "idle" BY DEF Finished, StepType, Steps
<1>4. TypeOK' BY <1>2, <1>3, WorkerTyped
<1>5. Control'
  <2>1. StepHasJob' /\ LogicalStep' /\ CancelStep'
    BY <1>3 DEF StepHasJob, LogicalStep, CancelStep, AdmitSteps, MoveSteps, ClaimSteps, RetireSteps, CancelSteps
  <2>2. DeleteStep'
    BY <1>2, <1>3 DEF IInv, TypeOK, RootType, Control, DeleteStep, Halted, AdmitSteps, MoveSteps
  <2> QED BY <2>1, <2>2 DEF Control
<1>6. Marker' BY EnterMarker DEF fs
<1>7. Proof' BY <1>2, <1>3, ProofElsewhere DEF AdmitSteps, MoveSteps
<1>8. Strays' BY DEF IInv, Strays, StraysAreBounded, fs, seen
<1> QED BY <1>4, <1>5, <1>6, <1>7, <1>8, <1>3 DEF IInv, Proving, ProveSteps

\* The reasons a handler blocks a job for.
LEMMA Reasons ==
    ASSUME NEW j \in Job, NEW own \in BOOLEAN
    PROVE  /\ Bind(j) \in Reason /\ RetireReason(j) \in Reason /\ AdminReason(j) \in Reason
           /\ First(Bind(j), First(HeadReason(j, Follow(j)), DirtReason(j, Follow(j), own))) \in Reason
           /\ First(Bind(j), First(PinReason(j), HeadReason(j, rec[j].head))) \in Reason
           /\ RecheckReason(j) \in Reason /\ First(RecheckReason(j), ResidueReason(j)) \in Reason
           /\ StatusReason(j, own) \in Reason
           /\ First(StatusReason(j, own), First(MarkReason(j), MoveReason(j))) \in Reason
<1>1. /\ Bind(j) \in Reason /\ RetireReason(j) \in Reason /\ AdminReason(j) \in Reason
      /\ PinReason(j) \in Reason /\ HolderReason \in Reason /\ LockReason(j) \in Reason
      /\ MarkReason(j) \in Reason /\ MoveReason(j) \in Reason
  BY DEF Bind, RetireReason, AdminReason, PinReason, HolderReason, LockReason, MarkReason,
         MoveReason, Reason
<1>2. \A want : HeadReason(j, want) \in Reason /\ DirtReason(j, want, own) \in Reason
  BY DEF HeadReason, DirtReason, Reason
<1>3. StatusReason(j, own) \in Reason BY <1>2 DEF StatusReason, Reason
<1>4. \A a, b \in Reason : First(a, b) \in Reason BY DEF First
<1>5. RecheckReason(j) \in Reason BY <1>1, <1>4 DEF RecheckReason
<1>6. ResidueReason(j) \in Reason BY <1>1, <1>2, <1>4 DEF ResidueReason
<1> QED BY <1>1, <1>2, <1>3, <1>4, <1>5, <1>6

LEMMA OwnIs == \A j \in Job, bound \in BOOLEAN : OwnHead(j, bound) \subseteq BOOLEAN
BY DEF OwnHead

\* A marker is linked where the registration carries no lock.
LEMMA MarkKept ==
    ASSUME IInv, NEW j \in Job, NEW next, Mark(j, next), who = j, rec[j].phase \in Logical,
           rec[j].retirement # "", hold = NoHold, next \in {"claimEnter", "retirePin"},
           UNCHANGED <<at, left, edits, head, kept, holder, admin, back, fresh, ref,
                       paused, hold, open, root, since, seen, world>>
    PROVE  IInv'
<1>1. CASE ~(admin = "whole" /\ lock = "none")
  BY <1>1, BlockKept DEF Mark, Reason, fs
<1>2. CASE admin = "whole" /\ lock = "none"
  <2>1. /\ lock' = j /\ lock = "none" /\ step' = next /\ who' = j /\ Placed /\ Placed'
        /\ UNCHANGED <<rec, native, owned>>
    BY <1>2 DEF Mark, Goto, Placed
  <2>2. rec' \in [Job -> Record] /\ \A k \in Job : SameClaim(k) BY <2>1, RecKept
  <2>3. TypeOK'
    <3>1. TreeType' BY <2>1 DEF IInv, TypeOK, TreeType
    <3>2. JournalType' BY <2>2 DEF IInv, TypeOK, JournalType
    <3>3. StepType' /\ RootType' BY <2>1 DEF IInv, TypeOK, StepType, RootType, Steps
    <3>4. SeenType' BY DEF IInv, TypeOK, SeenType, seen, world
    <3> QED BY <3>1, <3>2, <3>3, <3>4 DEF TypeOK
  <2>4. step' # "idle" /\ step' \notin AdmitSteps \cup CancelSteps \cup {"slice"}
    BY <2>1 DEF AdmitSteps, MoveSteps, CancelSteps
  <2>5. Control'
    <3>1. StepHasJob' BY <2>1, <2>4 DEF StepHasJob
    <3>2. LogicalStep' BY <2>1, <2>4 DEF LogicalStep, RetireSteps, ClaimSteps
    <3>3. CancelStep' BY <2>4 DEF CancelStep, CancelSteps
    <3>4. DeleteStep' BY <2>1, <2>4 DEF IInv, Control, DeleteStep, Halted
    <3> QED BY <3>1, <3>2, <3>3, <3>4 DEF Control
  <2>6. Marker'
    <3>1. GoneIsUnlocked' /\ NothingRetired'
      BY <2>1 DEF IInv, Marker, GoneIsUnlocked, NothingRetired, Placed
    <3>2. MarkerIsJournaled' BY <2>1 DEF MarkerIsJournaled, Answers
    <3>3. HiddenIsOwned' BY <2>1 DEF HiddenIsOwned, Answers
    <3> QED BY <3>1, <3>2, <3>3 DEF Marker
  <2>7. Proof'
    <3> SUFFICES ASSUME NEW k \in Job, Removes(k)' PROVE FALSE
      BY DEF Proof
    <3>1. Removes(k) BY <2>1, <2>4 DEF Removes, AdmitSteps
    <3> QED BY <2>1, <3>1, JobAssumption DEF IInv, Proof, JobAssumption
  <2>8. Strays' BY DEF IInv, Strays, StraysAreBounded, seen
  <2> QED BY <2>3, <2>5, <2>6, <2>7, <2>8, <2>4 DEF IInv, Proving, ProveSteps, AdmitSteps
<1> QED BY <1>1, <1>2

LEMMA StepTyped ==
    ASSUME NEW j \in Job, NEW s \in Steps, Goto(s, j), native' \in BOOLEAN, owned' \in BOOLEAN
    PROVE  StepType' /\ step' = s /\ who' = j
BY DEF Goto, StepType

\* The proof of a claim follows a HEAD some branch holds, and settles, blocks or
\* goes on.
LEMMA ClaimProveKept ==
    ASSUME IInv, NEW j \in Job, ClaimProve(j)
    PROVE  IInv'
<1>1. /\ rec[j] \in Record /\ rec[j].phase \in Logical /\ step = "idle" /\ hold = NoHold /\ ~paused
      /\ Follow(j) \in Commit \cup {NoCommit}
  BY DEF ClaimProve, CanClaim, Idle, Halted, IInv, TypeOK, JournalType, TreeType, Record, Follow
<1>2. open # j
  BY <1>1, JobAssumption DEF IInv, Control, DeleteStep, Logical, Physical, JobAssumption
<1>3. UNCHANGED <<fs, paused, hold, open, root, since, seen, world>> BY DEF ClaimProve
<1>4. CASE SettleClaim(j)
  <2>1. CASE Placed /\ lock = j
    BY <1>2, <1>3, <1>4, <2>1, EnterKept DEF SettleClaim, Physical
  <2>2. CASE ~(Placed /\ lock = j)
    <3>1. CASE ~Placed
      BY <1>2, <1>3, <1>4, <2>2, <3>1, EnterKept DEF SettleClaim, Settle
    <3>2. CASE Placed
      <4>1. \E reason \in Reason : Block(j, reason)
        BY <1>4, <2>2, <3>2 DEF SettleClaim, Settle, Reason
      <4> QED BY <1>3, <4>1, BlockKept
    <3> QED BY <3>1, <3>2
  <2> QED BY <2>1, <2>2
<1>5. ASSUME NEW reason \in Reason, Finished,
             Set(j, [rec[j] EXCEPT !.blocked = reason,
                       !.head = IF Bind(j) = "none" THEN Follow(j) ELSE @])
      PROVE  IInv'
  <2> DEFINE r == [rec[j] EXCEPT !.blocked = reason,
                       !.head = IF Bind(j) = "none" THEN Follow(j) ELSE @]
  <2>1. /\ r \in Record /\ r.phase = rec[j].phase /\ r.retirement = rec[j].retirement
        /\ r.force = rec[j].force
    BY <1>1 DEF Record
  <2>2. Set(j, r) BY <1>5
  <2> HIDE DEF r
  <2>3. rec' \in [Job -> Record] /\ \A k \in Job : SameClaim(k) BY <1>1, <2>1, <2>2, SetKeeps
  <2>4. StepType' /\ step' = "idle" BY <1>5 DEF Finished, StepType, Steps
  <2> QED BY <1>3, <2>3, <2>4, WorkerKept
<1>6. ASSUME Set(j, [rec[j] EXCEPT !.head = Follow(j)]), native' = Placed,
             owned' = (Placed /\ lock = j), Goto("claimQuiet", j)
      PROVE  IInv'
  <2> DEFINE r == [rec[j] EXCEPT !.head = Follow(j)]
  <2>1. /\ r \in Record /\ r.phase = rec[j].phase /\ r.retirement = rec[j].retirement
        /\ r.force = rec[j].force
    BY <1>1 DEF Record
  <2>2. Set(j, r) BY <1>6
  <2> HIDE DEF r
  <2>3. rec' \in [Job -> Record] /\ \A k \in Job : SameClaim(k) BY <1>1, <2>1, <2>2, SetKeeps
  <2>4. StepType' /\ step' = "claimQuiet" /\ who' = j
    <3>1. native' \in BOOLEAN /\ owned' \in BOOLEAN BY <1>6 DEF Placed
    <3> QED BY <1>6, <3>1 DEF StepType, Goto, Steps
  <2>5. TypeOK' BY <1>3, <2>3, <2>4, WorkerTyped
  <2> QED BY <1>1, <1>3, <2>3, <2>4, <2>5, LogicalKept DEF ClaimSteps, RetireSteps, fs
<1> QED
  <2>1. PICK own \in OwnHead(j, Placed) :
          LET reason == First(Bind(j), First(HeadReason(j, Follow(j)),
                                             DirtReason(j, Follow(j), own))) IN
          \/ ~Here(j) /\ SettleClaim(j)
          \/ /\ Here(j) /\ reason # "none"
             /\ Set(j, [rec[j] EXCEPT !.blocked = reason,
                       !.head = IF Bind(j) = "none" THEN Follow(j) ELSE @])
             /\ Finished
          \/ /\ Here(j) /\ reason = "none"
             /\ Set(j, [rec[j] EXCEPT !.head = Follow(j)])
             /\ native' = Placed /\ owned' = (Placed /\ lock = j)
             /\ Goto("claimQuiet", j)
    BY DEF ClaimProve
  <2>2. First(Bind(j), First(HeadReason(j, Follow(j)), DirtReason(j, Follow(j), own))) \in Reason
    BY Reasons, OwnIs DEF Placed
  <2> QED BY <1>4, <1>5, <1>6, <2>1, <2>2

\* An intent is journaled without any change of claim.
LEMMA IntentKeeps ==
    ASSUME IInv, NEW j \in Job, rec[j].phase \in Logical,
           Set(j, [rec[j] EXCEPT !.retirement = IF @ = "" THEN "intent" ELSE @])
    PROVE  rec' \in [Job -> Record] /\ rec'[j].retirement # "" /\ \A k \in Job : SameClaim(k)
<1> DEFINE r == [rec[j] EXCEPT !.retirement = IF @ = "" THEN "intent" ELSE @]
<1>1. rec[j] \in Record BY DEF IInv, TypeOK, JournalType
<1>2. r \in Record /\ r.phase = rec[j].phase /\ r.retirement # ""
  BY <1>1 DEF Record
<1>3. Set(j, r) OBVIOUS
<1> HIDE DEF r
<1>4. rec' \in [Job -> Record] /\ rec'[j] = r /\ \A k \in Job \ {j} : rec'[k] = rec[k]
  BY <1>2, <1>3, SetOne DEF IInv
<1>5. rec[j].phase \notin Physical \cup {"absent"} BY DEF Logical, Physical
<1> QED BY <1>2, <1>4, <1>5 DEF SameClaim, IInv, Marker, NothingRetired

LEMMA ClaimKept ==
    ASSUME IInv, NEW j \in Job, Claim(j)
    PROVE  IInv'
<1>0. native \in BOOLEAN /\ owned \in BOOLEAN BY DEF IInv, TypeOK, StepType
<1>1. CASE AwaitInactivity(j)
  <2> DEFINE r == [rec[j] EXCEPT !.phase = "waiting"]
  <2>1. rec[j] \in Record /\ rec[j].phase \in {"queued", "waiting"} 
    BY <1>1 DEF AwaitInactivity, IInv, TypeOK, JournalType
  <2>2. r \in Record /\ r.phase = "waiting" /\ r.retirement = rec[j].retirement
    BY <2>1 DEF Record, Phase, Logical
  <2>3. Set(j, r) BY <1>1 DEF AwaitInactivity
  <2> HIDE DEF r
  <2>4. rec' \in [Job -> Record] /\ rec'[j] = r /\ \A k \in Job \ {j} : rec'[k] = rec[k]
    BY <2>2, <2>3, SetOne DEF IInv
  <2>5. \A k \in Job : SameClaim(k)
    BY <2>1, <2>2, <2>4 DEF SameClaim, IInv, Marker, NothingRetired, Logical, Physical
  <2> QED BY <1>1, <2>4, <2>5, WorkerKept DEF AwaitInactivity, worker, IInv, TypeOK, StepType
<1>2. CASE ClaimProve(j) BY <1>2, ClaimProveKept
<1>3. CASE ClaimQuiet(j)
  <2>1. CASE holder BY <1>3, <2>1, BlockKept DEF ClaimQuiet, Reason
  <2>2. CASE ~holder
    <3>1. step \in ClaimSteps /\ who = j /\ step' = "claimPin" /\ who' = j /\ UNCHANGED <<rec, native, owned>>
      BY <1>3, <2>2 DEF ClaimQuiet, Goto, ClaimSteps
    <3>2. rec' \in [Job -> Record] /\ (\A k \in Job : SameClaim(k)) /\ StepType'
      BY <1>0, <3>1, RecKept DEF StepType, Steps
    <3>3. TypeOK' BY <1>3, <3>2, WorkerTyped DEF ClaimQuiet
    <3> QED BY <1>3, <3>1, <3>2, <3>3, LogicalFacts, LogicalKept DEF ClaimQuiet, ClaimSteps, RetireSteps, fs
  <2> QED BY <2>1, <2>2
<1>4. CASE ClaimPin(j)
  <2>1. ASSUME NEW own \in BOOLEAN, UNCHANGED ref, Block(j, StatusReason(j, own)) PROVE IInv'
    <3>1. StatusReason(j, own) \in Reason BY Reasons
    <3> QED BY <1>4, <2>1, <3>1, BlockKept DEF ClaimPin, fs
  <2>2. CASE /\ ref' = [ref EXCEPT ![j] = rec[j].head]
             /\ Goto(IF native /\ ~owned THEN "claimIntent" ELSE "claimEnter", j)
             /\ UNCHANGED <<rec, native, owned>>
    <3>1. step \in ClaimSteps /\ who = j /\ step' \in {"claimIntent", "claimEnter"} /\ who' = j
      BY <1>4, <2>2 DEF ClaimPin, Goto, ClaimSteps
    <3>2. rec' \in [Job -> Record] /\ (\A k \in Job : SameClaim(k)) /\ StepType'
      BY <1>0, <2>2, <3>1, RecKept DEF StepType, Steps
    <3>3. TypeOK'
      <4>1. TreeType' BY <1>4, <2>2 DEF ClaimPin, IInv, TypeOK, TreeType, JournalType, Record
      <4>2. JournalType' /\ RootType' /\ SeenType'
        BY <1>4, <3>2 DEF ClaimPin, IInv, TypeOK, JournalType, RootType, SeenType, seen, world
      <4> QED BY <3>2, <4>1, <4>2 DEF TypeOK
    <3>4. \A k \in Job : k # j => ref'[k] = ref[k] BY <2>2 DEF IInv, TypeOK, TreeType
    <3> QED BY <1>4, <3>1, <3>2, <3>3, <3>4, LogicalFacts, LogicalKept DEF ClaimPin, ClaimSteps, RetireSteps
  <2> QED BY <1>0, <1>4, <2>1, <2>2, OwnIs DEF ClaimPin
<1>5. CASE ClaimIntent(j)
  <2>1. /\ step \in ClaimSteps /\ who = j /\ step' = "claimLock" /\ who' = j
        /\ rec[j].phase \in Logical /\ hold = NoHold
    BY <1>5, LogicalFacts DEF ClaimIntent, Goto, ClaimSteps
  <2>2. rec' \in [Job -> Record] /\ rec'[j].retirement # "" /\ \A k \in Job : SameClaim(k)
    BY <1>5, <2>1, IntentKeeps DEF ClaimIntent
  <2>3. StepType' BY <1>0, <1>5, <2>1 DEF ClaimIntent, StepType, Steps
  <2>4. TypeOK' BY <1>5, <2>2, <2>3, WorkerTyped DEF ClaimIntent
  <2> QED BY <1>5, <2>1, <2>2, <2>4, LogicalKept DEF ClaimIntent, ClaimSteps, RetireSteps, fs
<1>6. CASE ClaimLock(j)
  <2>1. who = j /\ rec[j].phase \in Logical /\ rec[j].retirement # "" /\ hold = NoHold
    BY <1>6, LogicalFacts DEF ClaimLock, ClaimSteps
  <2> QED BY <1>6, <2>1, MarkKept DEF ClaimLock
<1>7. CASE ClaimEnter(j)
  <2>1. open # j BY <1>7, LogicalFacts DEF ClaimEnter, ClaimSteps
  <2> QED BY <1>7, <2>1, EnterKept DEF ClaimEnter, Physical
<1> QED BY <1>1, <1>2, <1>3, <1>4, <1>5, <1>6, <1>7 DEF Claim

\* The proof before a retirement puts it off, blocks it or goes on.
LEMMA RetireProveKept ==
    ASSUME IInv, NEW j \in Job, RetireProve(j)
    PROVE  IInv'
<1>1. /\ rec[j] \in Record /\ rec[j].phase \in Logical /\ step = "idle" /\ hold = NoHold
      /\ UNCHANGED <<fs, paused, hold, open, root, since, seen, world>>
  BY DEF RetireProve, CanRetire, Idle, IInv, TypeOK, JournalType
<1>2. CASE /\ Set(j, [rec[j] EXCEPT !.rests = TRUE])
           /\ UNCHANGED <<step, who, native, owned>>
  <2> DEFINE r == [rec[j] EXCEPT !.rests = TRUE]
  <2>1. /\ r \in Record /\ r.phase = rec[j].phase /\ r.retirement = rec[j].retirement
        /\ r.force = rec[j].force
    BY <1>1 DEF Record
  <2>2. Set(j, r) BY <1>2
  <2> HIDE DEF r
  <2>3. rec' \in [Job -> Record] /\ \A k \in Job : SameClaim(k) BY <1>1, <2>1, <2>2, SetKeeps
  <2> QED BY <1>1, <1>2, <2>3, WorkerKept DEF IInv, TypeOK, StepType
<1>3. CASE Block(j, RetireReason(j))
  <2>1. RetireReason(j) \in Reason BY Reasons
  <2> QED BY <1>1, <1>3, <2>1, BlockKept
<1>4. CASE native' = TRUE /\ owned' = (lock = j) /\ Goto("retireIntent", j) /\ UNCHANGED rec
  <2>1. rec' \in [Job -> Record] /\ \A k \in Job : SameClaim(k) BY <1>4, RecKept
  <2>2. StepType' /\ step' = "retireIntent" /\ who' = j
    <3>1. native' \in BOOLEAN /\ owned' \in BOOLEAN BY <1>4
    <3> QED BY <1>4, <3>1 DEF StepType, Goto, Steps
  <2>3. TypeOK' BY <1>1, <2>1, <2>2, WorkerTyped
  <2> QED BY <1>1, <1>4, <2>1, <2>2, <2>3, LogicalKept DEF ClaimSteps, RetireSteps, fs
<1> QED BY <1>2, <1>3, <1>4 DEF RetireProve

\* The backlink is truncated under the job's own marker.
LEMMA RetireHideKept ==
    ASSUME IInv, NEW j \in Job, RetireHide(j)
    PROVE  IInv'
<1>1. /\ rec[j].phase \in Logical /\ hold = NoHold /\ rec[j].retirement # "" /\ lock = j
      /\ step = "retireHide" /\ who = j
  BY LogicalFacts DEF RetireHide, RetireSteps
<1>2. CASE ~Unchanged(j)
  BY <1>2, BlockKept DEF RetireHide, Reason, fs
<1>3. CASE Unchanged(j)
  <2>1. back' = "empty" /\ step' = "retireEnd" /\ who' = j /\ UNCHANGED <<rec, native, owned>>
    BY <1>3 DEF RetireHide, Goto
  <2>2. rec' \in [Job -> Record] /\ \A k \in Job : SameClaim(k) BY <2>1, RecKept
  <2>3. TypeOK'
    <3>1. TreeType' BY <2>1 DEF RetireHide, IInv, TypeOK, TreeType
    <3>2. JournalType' BY <2>2 DEF RetireHide, IInv, TypeOK, JournalType
    <3>3. StepType' /\ RootType' BY <1>1, <2>1 DEF RetireHide, IInv, TypeOK, StepType, RootType, Steps
    <3>4. SeenType' BY DEF RetireHide, IInv, TypeOK, SeenType, seen, world
    <3> QED BY <3>1, <3>2, <3>3, <3>4 DEF TypeOK
  <2>4. Control'
    <3>1. StepHasJob' BY <1>1, <2>1 DEF RetireHide, StepHasJob, AdmitSteps, MoveSteps
    <3>2. LogicalStep' BY <1>1, <2>1 DEF RetireHide, LogicalStep
    <3>3. CancelStep' BY <2>1 DEF CancelStep, CancelSteps
    <3>4. DeleteStep' BY <2>1 DEF RetireHide, IInv, Control, DeleteStep, Halted, AdmitSteps, MoveSteps
    <3> QED BY <3>1, <3>2, <3>3, <3>4 DEF Control
  <2>5. Marker'
    <3>1. GoneIsUnlocked' /\ NothingRetired' /\ MarkerIsJournaled'
      BY <2>1 DEF RetireHide, IInv, Marker, GoneIsUnlocked, NothingRetired, MarkerIsJournaled,
                  Answers, Placed
    <3>2. HiddenIsOwned' BY <1>1, <2>1 DEF RetireHide, HiddenIsOwned, Answers
    <3> QED BY <3>1, <3>2 DEF Marker
  <2>6. Proof' BY <2>1, <2>2, ProofKept DEF RetireHide, AdmitSteps, MoveSteps, seen
  <2>7. Strays' BY DEF RetireHide, IInv, Strays, StraysAreBounded, seen
  <2> QED BY <2>3, <2>4, <2>5, <2>6, <2>7, <2>1 DEF IInv, Proving, ProveSteps
<1> QED BY <1>2, <1>3

LEMMA RetireKept ==
    ASSUME IInv, NEW j \in Job, Retire(j)
    PROVE  IInv'
<1>0. native \in BOOLEAN /\ owned \in BOOLEAN BY DEF IInv, TypeOK, StepType
<1>1. CASE RetireProve(j) BY <1>1, RetireProveKept
<1>2. CASE RetireIntent(j)
  <2>1. /\ step = "retireIntent" /\ who = j /\ step' = (IF owned THEN "retirePin" ELSE "retireLock")
        /\ who' = j /\ rec[j].phase \in Logical /\ hold = NoHold /\ (owned => lock = j)
    BY <1>2, LogicalFacts DEF RetireIntent, Goto, RetireSteps
  <2>2. rec' \in [Job -> Record] /\ rec'[j].retirement # "" /\ \A k \in Job : SameClaim(k)
    BY <1>2, <2>1, IntentKeeps DEF RetireIntent
  <2>3. StepType' BY <1>0, <1>2, <2>1 DEF RetireIntent, StepType, Steps
  <2>4. TypeOK' BY <1>2, <2>2, <2>3, WorkerTyped DEF RetireIntent
  <2> QED BY <1>2, <2>1, <2>2, <2>4, LogicalKept DEF RetireIntent, ClaimSteps, RetireSteps, fs
<1>3. CASE RetireLock(j)
  <2>1. who = j /\ rec[j].phase \in Logical /\ rec[j].retirement # "" /\ hold = NoHold
    BY <1>3, LogicalFacts DEF RetireLock, RetireSteps
  <2>2. CASE back = "empty" BY <1>3, <2>2, BlockKept DEF RetireLock, Reason, fs
  <2> QED BY <1>3, <2>1, <2>2, MarkKept DEF RetireLock
<1>4. CASE RetirePin(j)
  <2>1. /\ rec[j].phase \in Logical /\ hold = NoHold /\ rec[j].retirement # "" /\ lock = j
        /\ step' = "retireIdle" /\ who' = j /\ ref' = [ref EXCEPT ![j] = rec[j].head] /\ UNCHANGED rec
    BY <1>4, LogicalFacts DEF RetirePin, RetireSteps, Goto, journal
  <2>2. rec' \in [Job -> Record] /\ \A k \in Job : SameClaim(k) BY <2>1, RecKept
  <2>3. TypeOK'
    <3>1. TreeType' BY <1>4, <2>1 DEF RetirePin, IInv, TypeOK, TreeType, JournalType, Record
    <3>2. JournalType' /\ RootType' /\ SeenType'
      BY <1>4, <2>2 DEF RetirePin, IInv, TypeOK, JournalType, RootType, SeenType, seen, world, journal
    <3>3. StepType' BY <1>0, <1>4, <2>1 DEF RetirePin, StepType, Steps
    <3> QED BY <3>1, <3>2, <3>3 DEF TypeOK
  <2>4. \A k \in Job : k # j => ref'[k] = ref[k] BY <2>1 DEF IInv, TypeOK, TreeType
  <2> QED BY <1>4, <2>1, <2>2, <2>3, <2>4, LogicalKept DEF RetirePin, ClaimSteps, RetireSteps, journal
<1>5. CASE RetireIdle(j)
  <2>1. CASE holder BY <1>5, <2>1, BlockKept DEF RetireIdle, Reason
  <2>2. CASE ~holder
    <3>1. /\ rec[j].phase \in Logical /\ hold = NoHold /\ rec[j].retirement # "" /\ lock = j
          /\ step' = "retireHide" /\ who' = j /\ UNCHANGED <<rec, native, owned>>
      BY <1>5, <2>2, LogicalFacts DEF RetireIdle, RetireSteps, Goto
    <3>2. rec' \in [Job -> Record] /\ (\A k \in Job : SameClaim(k)) /\ StepType'
      BY <1>0, <3>1, RecKept DEF StepType, Steps
    <3>3. TypeOK' BY <1>5, <3>2, WorkerTyped DEF RetireIdle
    <3> QED BY <1>5, <3>1, <3>2, <3>3, LogicalKept DEF RetireIdle, ClaimSteps, RetireSteps, fs
  <2> QED BY <2>1, <2>2
<1>6. CASE RetireHide(j) BY <1>6, RetireHideKept
<1>7. CASE RetireEnd(j)
  <2>1. CASE ~Unchanged(j) BY <1>7, <2>1, BlockKept DEF RetireEnd, Reason
  <2>2. CASE Unchanged(j)
    <3> DEFINE r == [rec[j] EXCEPT !.retirement = "retired"]
    <3>1. rec[j] \in Record /\ rec[j].phase \in Logical
      BY <1>7, LogicalFacts DEF RetireEnd, RetireSteps, IInv, TypeOK, JournalType
    <3>2. r \in Record /\ r.phase = rec[j].phase /\ r.retirement # "" BY <3>1 DEF Record
    <3>3. Set(j, r) BY <1>7, <2>2 DEF RetireEnd
    <3> HIDE DEF r
    <3>4. rec' \in [Job -> Record] /\ rec'[j] = r /\ \A k \in Job \ {j} : rec'[k] = rec[k]
      BY <3>2, <3>3, SetOne DEF IInv
    <3>5. rec[j].phase \notin Physical \cup {"absent"} BY <3>1 DEF Logical, Physical
    <3>6. \A k \in Job : SameClaim(k)
      BY <3>2, <3>4, <3>5 DEF SameClaim, IInv, Marker, NothingRetired
    <3>7. StepType' /\ step' = "idle" BY <1>7, <2>2 DEF RetireEnd, Finished, StepType, Steps
    <3> QED BY <1>7, <3>4, <3>6, <3>7, WorkerKept DEF RetireEnd
  <2> QED BY <2>1, <2>2
<1> QED BY <1>1, <1>2, <1>3, <1>4, <1>5, <1>6, <1>7 DEF Retire

-----------------------------------------------------------------------------
(* Deletion.                                                                 *)

\* What an admission starts from.
LEMMA AdmitFacts ==
    ASSUME IInv, NEW j \in Job, rec[j].phase \in Physical, CanAdmit(j) \/ (step \in AdmitSteps /\ who = j)
    PROVE  open = NoJob /\ since = 0 /\ hold = NoHold /\ ~paused
BY DEF CanAdmit, Halted, Idle, IInv, Control, StepHasJob, DeleteStep, AdmitSteps, MoveSteps

\* An admission that goes on to another step with the same job. Whatever that
\* step relies on of the tree is what the proof found.
LEMMA AdmitGoes ==
    ASSUME IInv, NEW j \in Job, TypeOK', open = NoJob, since = 0, hold = NoHold, ~paused,
           rec'[j].phase \in Physical, Marker', step' \in AdmitSteps, who' = j,
           \A k \in Job \ {j} : rec'[k] = rec[k],
           UNCHANGED <<left, edits, head, kept, holder, admin, lock, fresh, ref,
                       paused, hold, open, root, since, strays>>,
           Removes(j)' => (Placed' => lock' = j) /\ Pinned(j)' /\ Intact(j)' /\ strays' = 0,
           step' \in ProveSteps => Proving'
    PROVE  IInv'
<1>1. step' # "idle" /\ step' \notin CancelSteps \cup ClaimSteps \cup RetireSteps \cup {"slice"}
  BY DEF ClaimSteps, RetireSteps, CancelSteps, AdmitSteps, MoveSteps
<1>2. Control'
  <2>1. StepHasJob' BY DEF StepHasJob
  <2>2. LogicalStep' /\ CancelStep' BY <1>1 DEF LogicalStep, CancelStep, CancelSteps, RetireSteps, ClaimSteps
  <2>3. DeleteStep' BY <1>1 DEF DeleteStep
  <2> QED BY <2>1, <2>2, <2>3 DEF Control
<1>3. Proof'
  <2> SUFFICES ASSUME NEW k \in Job, Removes(k)' PROVE k = j
    BY DEF Proof
  <2> QED BY JobAssumption DEF Removes, JobAssumption
<1>4. Strays' BY DEF IInv, Strays, StraysAreBounded
<1>5. Proving' BY DEF Proving
<1> QED BY <1>2, <1>3, <1>4, <1>5 DEF IInv

\* A job enters a phase of the deletion and is admitted at once.
LEMMA EnterAdmits ==
    ASSUME IInv, NEW j \in Job, NEW p \in Physical, Enter(j, p), Goto("admit", j),
           UNCHANGED <<native, owned>>, open = NoJob, since = 0, hold = NoHold, ~paused,
           UNCHANGED <<fs, paused, hold, open, root, since, seen, world>>
    PROVE  IInv'
<1>1. p \in Phase /\ p # "done" BY DEF Physical, Phase
<1>2. rec' \in [Job -> Record] /\ rec'[j].phase = p /\ \A k \in Job \ {j} : rec'[k] = rec[k]
  BY <1>1, EnterOne
<1>3. StepType' /\ step' = "admit" /\ who' = j
  BY DEF Goto, StepType, Steps, IInv, TypeOK
<1>4. TypeOK' BY <1>2, <1>3, WorkerTyped
<1>5. Marker' BY <1>1, EnterMarker DEF fs
<1>6. ~Removes(j)' BY <1>3, JobAssumption DEF Removes, MoveSteps, JobAssumption
<1> QED BY <1>2, <1>3, <1>4, <1>5, <1>6, AdmitGoes DEF AdmitSteps, ProveSteps, fs, seen

LEMMA SettleKept ==
    ASSUME IInv, NEW j \in Job, Settle(j), open = NoJob, since = 0, hold = NoHold, ~paused,
           UNCHANGED <<fs, paused, hold, open, root, since, seen, world>>
    PROVE  IInv'
<1>1. CASE ~Placed /\ Enter(j, "done") /\ Finished
  BY <1>1, EnterKept, JobAssumption DEF JobAssumption
<1>2. CASE Block(j, "locked") BY <1>2, BlockKept DEF Reason
<1>3. CASE Enter(j, "deleting_registration") /\ Goto("admit", j) /\ UNCHANGED <<native, owned>>
  BY <1>3, EnterAdmits DEF Physical
<1>4. CASE Block(j, IF back = "elsewhere" /\ at = "away" THEN "identity" ELSE "activity")
  <2>1. (IF back = "elsewhere" /\ at = "away" THEN "identity" ELSE "activity") \in Reason
    BY DEF Reason
  <2> QED BY <1>4, <2>1, BlockKept
<1> QED BY <1>1, <1>2, <1>3, <1>4 DEF Settle

\* A proof that goes on has found the pin and the HEAD, and what bind saw.
LEMMA ProvenKept ==
    ASSUME IInv, NEW j \in Job, NEW s \in ProveSteps, Proven(j, s), rec[j].phase \in Physical,
           open = NoJob, since = 0, hold = NoHold, ~paused, Pinned(j),
           Placed => head = rec[j].head, s = "admitStatus" => ~holder,
           UNCHANGED <<fs, paused, hold, open, root, since, editLate, strays, world>>
    PROVE  IInv'
<1>1. /\ step' = s /\ who' = j /\ headLate' = FALSE /\ UNCHANGED rec
      /\ native' = Placed /\ owned' = (Placed /\ lock = j)
  BY DEF Proven, Goto
<1>2. TypeOK'
  <2>1. TreeType' /\ JournalType' /\ RootType'
    BY <1>1 DEF IInv, TypeOK, TreeType, JournalType, RootType, fs
  <2>2. native' \in BOOLEAN /\ owned' \in BOOLEAN BY <1>1 DEF Placed
  <2>3. StepType' BY <1>1, <2>2 DEF StepType, ProveSteps, Steps
  <2>4. SeenType' BY <1>1 DEF IInv, TypeOK, SeenType, world
  <2> QED BY <2>1, <2>3, <2>4 DEF TypeOK
<1>3. Marker' BY <1>1, <1>2, MarkerKept, RecKept DEF fs
<1>4. s = "admitStatus" => strays' = 0 BY DEF IInv, Strays, TypeOK, SeenType
<1>5. Proving' BY <1>1, <1>4 DEF Proving, Pinned, Placed, fs
<1>6. ~Removes(j)' BY <1>1, JobAssumption DEF Removes, MoveSteps, ProveSteps, JobAssumption
<1> QED BY <1>1, <1>2, <1>3, <1>5, <1>6, AdmitGoes DEF AdmitSteps, ProveSteps, fs

\* A proven tree is removed where it sits, or moved out first.
LEMMA MoveOutKept ==
    ASSUME IInv, NEW j \in Job, MoveOut(j), rec[j].phase \in Physical, open = NoJob, since = 0,
           hold = NoHold, ~paused, Placed => lock = j, Pinned(j), edits => rec[j].force,
           head = rec[j].head \/ headLate \/ (rec[j].force /\ ~Placed), strays = 0,
           UNCHANGED <<fs, paused, hold, open, root, since, headLate, strays, world>>
    PROVE  IInv'
<1>1. /\ step' \in MoveSteps /\ who' = j /\ editLate' = FALSE /\ UNCHANGED <<rec, native, owned>>
  BY DEF MoveOut, Goto, MoveSteps
<1>2. TypeOK'
  <2>1. TreeType' /\ JournalType' /\ RootType'
    BY <1>1 DEF IInv, TypeOK, TreeType, JournalType, RootType, fs
  <2>2. StepType' BY <1>1 DEF IInv, TypeOK, StepType, MoveSteps, Steps
  <2>3. SeenType' BY <1>1 DEF IInv, TypeOK, SeenType, world
  <2> QED BY <2>1, <2>2, <2>3 DEF TypeOK
<1>3. Marker' BY <1>1, <1>2, MarkerKept, RecKept DEF fs
<1>4. Intact(j)' BY <1>1 DEF Intact, Placed, fs
<1>5. Pinned(j)' /\ (Placed' => lock' = j) BY <1>1 DEF Pinned, Placed, fs
<1>6. step' \notin ProveSteps BY <1>1 DEF MoveSteps, ProveSteps
<1> QED BY <1>1, <1>2, <1>3, <1>4, <1>5, <1>6, AdmitGoes DEF AdmitSteps, ProveSteps, fs

LEMMA AdmitClaimedKept ==
    ASSUME IInv, NEW j \in Job, AdmitClaimed(j)
    PROVE  IInv'
<1>1. rec[j].phase \in Physical /\ open = NoJob /\ since = 0 /\ hold = NoHold /\ ~paused
  BY AdmitFacts DEF AdmitClaimed, Admits, Physical, AdmitSteps
<1>2. UNCHANGED <<fs, paused, hold, open, root, since, editLate, strays, world>> BY DEF AdmitClaimed
<1> DEFINE reason == First(Bind(j), First(PinReason(j), HeadReason(j, rec[j].head)))
<1>3. CASE Settle(j) /\ UNCHANGED headLate BY <1>1, <1>2, <1>3, SettleKept DEF seen
<1>4. CASE reason = "none" /\ Proven(j, "admitQuiet")
  <2>1. PinReason(j) = "none" /\ HeadReason(j, rec[j].head) = "none" BY <1>4 DEF First
  <2>2. Pinned(j) /\ (Placed => head = rec[j].head) BY <2>1 DEF PinReason, HeadReason
  <2> QED BY <1>1, <1>2, <1>4, <2>2, ProvenKept DEF ProveSteps
<1>5. CASE Block(j, reason) /\ UNCHANGED headLate
  <2>1. reason \in Reason BY Reasons
  <2> HIDE DEF reason
  <2> QED BY <1>2, <1>5, <2>1, BlockKept DEF seen
<1> QED BY <1>3, <1>4, <1>5 DEF AdmitClaimed

LEMMA AdmitTreeKept ==
    ASSUME IInv, NEW j \in Job, AdmitTree(j)
    PROVE  IInv'
<1>1. rec[j].phase \in Physical /\ open = NoJob /\ since = 0 /\ hold = NoHold /\ ~paused
  BY AdmitFacts DEF AdmitTree, Admits, Physical, AdmitSteps
<1>2. UNCHANGED <<fs, paused, hold, open, root, since, editLate, strays, world>> BY DEF AdmitTree
<1> DEFINE reason == First(RecheckReason(j), ResidueReason(j))
<1>3. CASE Settle(j) /\ UNCHANGED headLate BY <1>1, <1>2, <1>3, SettleKept DEF seen
<1>4. CASE reason = "none" /\ Proven(j, "admitStatus")
  <2>1. PinReason(j) = "none" /\ HeadReason(j, rec[j].head) = "none" /\ HolderReason = "none"
    BY <1>4 DEF RecheckReason, ResidueReason, First
  <2>2. Pinned(j) /\ (Placed => head = rec[j].head) /\ ~holder
    BY <2>1 DEF PinReason, HeadReason, HolderReason
  <2> QED BY <1>1, <1>2, <1>4, <2>2, ProvenKept DEF ProveSteps
<1>5. CASE Block(j, reason) /\ UNCHANGED headLate
  <2>1. reason \in Reason BY Reasons
  <2> HIDE DEF reason
  <2> QED BY <1>2, <1>5, <2>1, BlockKept DEF seen
<1> QED BY <1>3, <1>4, <1>5 DEF AdmitTree

\* What the rest of a proof relies on.
LEMMA ProveFacts ==
    ASSUME IInv, NEW j \in Job, step \in ProveSteps, who = j
    PROVE  /\ open = NoJob /\ since = 0 /\ hold = NoHold /\ ~paused /\ rec[j].phase \in Physical
           /\ Pinned(j) /\ (Placed => native) /\ (native /\ owned /\ Placed => lock = j)
           /\ native => head = rec[j].head \/ headLate
           /\ native \in BOOLEAN /\ owned \in BOOLEAN
BY DEF IInv, TypeOK, StepType, Control, StepHasJob, DeleteStep, Proving, ProveSteps, AdmitSteps

\* The probes find no process, or the job is blocked.
LEMMA AdmitQuietKept ==
    ASSUME IInv, NEW j \in Job, AdmitQuiet(j)
    PROVE  IInv'
<1>1. step \in ProveSteps /\ who = j /\ UNCHANGED <<fs, paused, hold, open, root, since, seen, world>>
  BY DEF AdmitQuiet, ProveSteps
<1>2. CASE holder BY <1>1, <1>2, BlockKept DEF AdmitQuiet, Reason
<1>3. CASE ~holder
  <2>1. step' = "admitStatus" /\ who' = j /\ UNCHANGED <<rec, native, owned>>
    BY <1>3 DEF AdmitQuiet, Goto
  <2>2. rec' \in [Job -> Record] /\ (\A k \in Job : SameClaim(k)) /\ StepType'
    BY <1>1, <2>1, RecKept, ProveFacts DEF StepType, Steps
  <2>3. TypeOK' BY <1>1, <2>2, WorkerTyped
  <2>4. Marker' BY <1>1, <2>2, <2>3, MarkerKept DEF fs
  <2>5. strays' = 0 BY <1>1, <1>3 DEF IInv, Strays, TypeOK, SeenType, seen
  <2>6. Proving'
    BY <1>1, <2>1, <2>5, ProveFacts DEF Proving, Pinned, Placed, fs, seen
  <2>7. ~Removes(j)' BY <1>1, <2>1, ProveFacts, JobAssumption DEF Removes, MoveSteps, JobAssumption
  <2> QED BY <1>1, <2>1, <2>3, <2>4, <2>6, <2>7, ProveFacts, AdmitGoes DEF AdmitSteps, ProveSteps, fs, seen
<1> QED BY <1>2, <1>3

\* The status is read against the HEAD of the moment: a clean one with a HEAD
\* that is not the pinned one has seen HEAD move since it was compared.
LEMMA AdmitStatusKept ==
    ASSUME IInv, NEW j \in Job, AdmitStatus(j)
    PROVE  IInv'
<1>1. /\ step = "admitStatus" /\ step \in ProveSteps /\ who = j
      /\ UNCHANGED <<fs, paused, hold, open, root, since, headLate, strays, world>>
  BY DEF AdmitStatus, ProveSteps
<1>2. ASSUME NEW own \in OwnHead(j, native), MoveOut(j),
             StatusReason(j, own) = "none", MarkReason(j) = "none"
      PROVE  IInv'
  <2>1. own \in BOOLEAN /\ (own => native) BY <1>1, <1>2, ProveFacts, OwnIs DEF OwnHead
  <2>2. DirtReason(j, rec[j].head, own) = "none" \/ (own /\ rec[j].force)
    BY <1>2 DEF StatusReason
  <2>3. edits => rec[j].force BY <2>2 DEF DirtReason
  <2>4. head = rec[j].head \/ headLate \/ (rec[j].force /\ ~Placed)
    <3>1. CASE native BY <1>1, <3>1, ProveFacts
    <3>2. CASE ~native
      <4>1. ~own /\ ~Placed BY <1>1, <2>1, <3>2, ProveFacts
      <4>2. ~rec[j].force => head = rec[j].head BY <2>2, <4>1 DEF DirtReason
      <4> QED BY <1>1, <4>1, <4>2 DEF IInv, TypeOK, JournalType, Record
    <3> QED BY <3>1, <3>2
  <2>5. Placed => lock = j BY <1>1, <1>2, ProveFacts DEF MarkReason
  <2>6. strays = 0 BY <1>1 DEF IInv, Proving
  <2> QED BY <1>1, <1>2, <2>3, <2>4, <2>5, <2>6, ProveFacts, MoveOutKept
<1>3. ASSUME NEW own \in OwnHead(j, native), UNCHANGED editLate,
             Block(j, First(StatusReason(j, own), First(MarkReason(j), MoveReason(j))))
      PROVE  IInv'
  <2> DEFINE reason == First(StatusReason(j, own), First(MarkReason(j), MoveReason(j)))
  <2>1. own \in BOOLEAN BY <1>1, <1>3, ProveFacts, OwnIs
  <2>2. reason \in Reason BY <2>1, Reasons
  <2>3. Block(j, reason) BY <1>3
  <2> HIDE DEF reason
  <2> QED BY <1>1, <1>3, <2>2, <2>3, BlockKept DEF seen
<1> QED BY <1>2, <1>3 DEF AdmitStatus, First

\* A step of the move relies on the proof the admission made.
LEMMA MoveFacts ==
    ASSUME IInv, NEW j \in Job, step \in MoveSteps \cup {"openRoot"}, who = j
    PROVE  /\ open = NoJob /\ since = 0 /\ hold = NoHold /\ ~paused /\ rec[j].phase \in Physical
           /\ Removes(j) => (Placed => lock = j) /\ Pinned(j) /\ Intact(j) /\ strays = 0
<1>1. open = NoJob /\ since = 0 /\ hold = NoHold /\ ~paused /\ rec[j].phase \in Physical
  BY DEF IInv, Control, StepHasJob, DeleteStep, AdmitSteps, MoveSteps
<1>2. Removes(j) => (Placed => lock = j) /\ Pinned(j) /\ Intact(j) /\ strays <= since
  BY DEF IInv, Proof
<1>3. strays \in Nat BY DEF IInv, TypeOK, SeenType
<1> QED BY <1>1, <1>2, <1>3

LEMMA UnregisterKept ==
    ASSUME IInv, NEW j \in Job, Unregister(j)
    PROVE  IInv'
<1>1. /\ open = NoJob /\ since = 0 /\ hold = NoHold /\ ~paused /\ rec[j].phase \in Physical
      /\ (Placed => lock = j) /\ Pinned(j) /\ Intact(j) /\ strays = 0
  BY MoveFacts DEF Unregister, MoveSteps, Removes
<1>2. CASE ~Placed BY <1>2, BlockKept DEF Unregister, Reason, fs
<1>3. CASE Placed
  <2>1. back' = "empty" /\ step' = "rename" /\ who' = j /\ UNCHANGED <<rec, native, owned>>
    BY <1>3 DEF Unregister, Goto
  <2>2. TypeOK'
    <3>1. TreeType' BY <2>1 DEF Unregister, IInv, TypeOK, TreeType
    <3>2. JournalType' /\ RootType' BY <2>1 DEF Unregister, IInv, TypeOK, JournalType, RootType
    <3>3. StepType' BY <2>1 DEF IInv, TypeOK, StepType, Steps
    <3>4. SeenType' BY DEF Unregister, IInv, TypeOK, SeenType, seen, world
    <3> QED BY <3>1, <3>2, <3>3, <3>4 DEF TypeOK
  <2>3. Marker'
    <3>1. GoneIsUnlocked' /\ NothingRetired' /\ MarkerIsJournaled'
      BY <2>1 DEF Unregister, IInv, Marker, GoneIsUnlocked, NothingRetired, MarkerIsJournaled,
                  Answers, Placed
    <3>2. HiddenIsOwned' BY <1>1, <2>1 DEF Unregister, HiddenIsOwned, Answers
    <3> QED BY <3>1, <3>2 DEF Marker
  <2>4. Pinned(j)' /\ Intact(j)' /\ (Placed' => lock' = j)
    BY <1>1, <2>1 DEF Unregister, Pinned, Intact, Placed, seen
  <2> QED BY <1>1, <2>1, <2>2, <2>3, <2>4, AdmitGoes DEF Unregister, AdmitSteps, ProveSteps, MoveSteps, seen
<1> QED BY <1>2, <1>3

LEMMA RenameKept ==
    ASSUME IInv, NEW j \in Job, Rename(j)
    PROVE  IInv'
<1>1. /\ open = NoJob /\ since = 0 /\ hold = NoHold /\ ~paused /\ rec[j].phase \in Physical
      /\ (Placed => lock = j) /\ Pinned(j) /\ Intact(j) /\ strays = 0
  BY MoveFacts DEF Rename, MoveSteps, Removes
<1>2. CASE at # "original" BY <1>2, BlockKept DEF Rename, Reason, fs, world
<1>3. CASE at = "original"
  <2>1. at' = j /\ step' = "admitEnter" /\ who' = j /\ UNCHANGED <<rec, native, owned>>
    BY <1>3 DEF Rename, Goto
  <2>2. TypeOK'
    <3>1. TreeType' BY <2>1 DEF Rename, IInv, TypeOK, TreeType
    <3>2. JournalType' /\ RootType' BY <2>1 DEF Rename, IInv, TypeOK, JournalType, RootType
    <3>3. StepType' BY <2>1 DEF IInv, TypeOK, StepType, Steps
    <3>4. SeenType' BY DEF Rename, IInv, TypeOK, SeenType, seen, world
    <3> QED BY <3>1, <3>2, <3>3, <3>4 DEF TypeOK
  <2>3. Marker' BY <2>1, <2>2, MarkerKept, RecKept DEF Rename
  <2>4. Pinned(j)' /\ Intact(j)' /\ (Placed' => lock' = j)
    BY <1>1, <2>1 DEF Rename, Pinned, Intact, Placed, seen
  <2> QED BY <1>1, <2>1, <2>2, <2>3, <2>4, AdmitGoes DEF Rename, AdmitSteps, ProveSteps, MoveSteps, seen
<1> QED BY <1>2, <1>3

LEMMA AdmitEnterKept ==
    ASSUME IInv, NEW j \in Job, AdmitEnter(j)
    PROVE  IInv'
<1>1. /\ open = NoJob /\ since = 0 /\ hold = NoHold /\ ~paused /\ rec[j].phase \in Physical
      /\ (Placed => lock = j) /\ Pinned(j) /\ Intact(j) /\ strays = 0
  BY MoveFacts DEF AdmitEnter, MoveSteps, Removes
<1> DEFINE r == [rec[j] EXCEPT !.phase = "deleting_tree", !.retirement = "", !.rests = FALSE,
                               !.moved = @ \/ at = j]
<1>2. rec[j] \in Record BY DEF IInv, TypeOK, JournalType
<1>3. /\ r \in Record /\ r.phase = "deleting_tree" /\ r.retirement = ""
      /\ r.head = rec[j].head /\ r.force = rec[j].force
  BY <1>2 DEF Record, Phase, Physical
<1>4. rec' = [rec EXCEPT ![j] = r]
  BY DEF AdmitEnter, IInv, TypeOK, JournalType
<1> HIDE DEF r
<1>5. rec' \in [Job -> Record] /\ rec'[j] = r /\ \A k \in Job \ {j} : rec'[k] = rec[k]
  BY <1>3, <1>4 DEF IInv, TypeOK, JournalType
<1>6. step' = "openRoot" /\ who' = j /\ StepType' /\ rec'[j].phase \in Physical
  BY <1>3, <1>5 DEF AdmitEnter, Goto, IInv, TypeOK, StepType, Steps, Physical
<1>7. TypeOK' BY <1>5, <1>6, WorkerTyped DEF AdmitEnter
<1>8. Marker'
  <2>1. GoneIsUnlocked' BY DEF AdmitEnter, IInv, Marker, GoneIsUnlocked, Placed, fs
  <2>2. NothingRetired' BY <1>3, <1>5 DEF IInv, Marker, NothingRetired
  <2>3. \A k \in Job : Answers(k) => Answers(k)' BY <1>5, <1>6 DEF Answers
  <2>4. MarkerIsJournaled' BY <2>3 DEF AdmitEnter, IInv, Marker, MarkerIsJournaled, fs
  <2>5. HiddenIsOwned' BY <1>5, <1>6, <2>3 DEF AdmitEnter, IInv, Marker, HiddenIsOwned, Placed, fs
  <2> QED BY <2>1, <2>2, <2>4, <2>5 DEF Marker
<1>9. Pinned(j)' /\ Intact(j)' /\ (Placed' => lock' = j)
  BY <1>1, <1>3, <1>5 DEF AdmitEnter, Pinned, Intact, Placed, fs, seen
<1> QED BY <1>1, <1>5, <1>6, <1>7, <1>8, <1>9, AdmitGoes DEF AdmitEnter, AdmitSteps, ProveSteps, fs, seen

LEMMA AdmitRegistrationKept ==
    ASSUME IInv, NEW j \in Job, AdmitRegistration(j)
    PROVE  IInv'
<1>1. /\ rec[j].phase = "deleting_registration" /\ rec[j].phase \in Physical
      /\ open = NoJob /\ since = 0 /\ hold = NoHold /\ ~paused
  BY AdmitFacts DEF AdmitRegistration, Admits, Physical, AdmitSteps
<1>2. UNCHANGED <<fs, paused, hold, open, root, since, seen, world>> BY DEF AdmitRegistration
<1>3. CASE Enter(j, "claimed") /\ Goto("admit", j) /\ UNCHANGED <<native, owned>>
  BY <1>1, <1>2, <1>3, EnterAdmits DEF Physical
<1>4. CASE ~Placed /\ Enter(j, "done") /\ Finished
  BY <1>1, <1>2, <1>4, EnterKept, JobAssumption DEF JobAssumption
<1>5. CASE Block(j, AdminReason(j))
  <2>1. AdminReason(j) \in Reason BY Reasons
  <2> QED BY <1>2, <1>5, <2>1, BlockKept
<1>6. CASE Goto("openRoot", j) /\ UNCHANGED <<rec, native, owned>>
  <2>1. StepType' /\ step' = "openRoot" /\ who' = j
    BY <1>6 DEF Goto, StepType, Steps, IInv, TypeOK
  <2>2. rec' \in [Job -> Record] /\ \A k \in Job : SameClaim(k) BY <1>6, RecKept
  <2>3. TypeOK' BY <1>2, <2>1, <2>2, WorkerTyped
  <2>4. Marker' BY <1>2, <2>2, <2>3, MarkerKept DEF fs
  <2>5. ~Removes(j)'
    BY <1>1, <1>2, <1>6, <2>1, JobAssumption DEF Removes, MoveSteps, JobAssumption
  <2> QED BY <1>1, <1>2, <1>6, <2>1, <2>3, <2>4, <2>5, AdmitGoes DEF AdmitSteps, ProveSteps, fs, seen
<1> QED BY <1>3, <1>4, <1>5, <1>6 DEF AdmitRegistration

\* What an open deletion relies on.
LEMMA OpenFacts ==
    ASSUME IInv, NEW j \in Job, open = j
    PROVE  /\ rec[j].phase \in Physical /\ ~Halted /\ since \in 0..Readmit /\ open # NoJob
           /\ step \notin AdmitSteps
           /\ root = "tree" => (Placed => lock = j) /\ Pinned(j) /\ Intact(j) /\ strays <= since
<1>1. open # NoJob BY JobAssumption DEF JobAssumption
<1> QED BY <1>1 DEF IInv, Control, DeleteStep, Proof, Removes, TypeOK, RootType

\* A handler that ends with its root still open keeps what the deletion relies on.
LEMMA SliceControl ==
    ASSUME IInv, Finished, rec'[open].phase \in Physical, open # NoJob,
           UNCHANGED <<open, paused, hold>>
    PROVE  Control'
<1>1. step' = "idle" /\ StepType' BY DEF Finished, StepType, Steps
<1>2. StepHasJob' /\ LogicalStep' /\ CancelStep'
  BY <1>1 DEF StepHasJob, LogicalStep, CancelStep, AdmitSteps, MoveSteps, ClaimSteps, RetireSteps, CancelSteps
<1>3. DeleteStep'
  BY <1>1 DEF IInv, Control, DeleteStep, Halted, AdmitSteps, MoveSteps
<1> QED BY <1>2, <1>3 DEF Control

LEMMA OpenRootKept ==
    ASSUME IInv, NEW j \in Job, OpenRoot(j)
    PROVE  IInv'
<1>1. /\ open = NoJob /\ since = 0 /\ hold = NoHold /\ ~paused /\ rec[j].phase \in Physical
      /\ step = "openRoot" /\ who = j
      /\ Removes(j) => (Placed => lock = j) /\ Pinned(j) /\ Intact(j) /\ strays = 0
  BY MoveFacts DEF OpenRoot
<1>2. UNCHANGED <<fs, paused, hold, seen, world>> BY DEF OpenRoot
<1>3. CASE /\ open' = j /\ since' = 0
           /\ root' = IF rec[j].phase = "deleting_tree" THEN "tree" ELSE "admin"
           /\ Goto("slice", j) /\ UNCHANGED <<rec, native, owned>>
  <2>1. StepType' /\ step' = "slice" /\ who' = j
    BY <1>3 DEF Goto, StepType, Steps, IInv, TypeOK
  <2>2. rec' \in [Job -> Record] /\ \A k \in Job : SameClaim(k) BY <1>3, RecKept
  <2>3. TypeOK'
    <3>1. TreeType' /\ SeenType' BY <1>2 DEF IInv, TypeOK, TreeType, SeenType, fs, seen, world
    <3>2. JournalType' BY <1>2, <2>2 DEF IInv, TypeOK, JournalType
    <3>3. RootType'
      <4>1. root' \in {"none", "tree", "admin"} BY <1>3
      <4>2. since' \in 0..Readmit BY <1>3, SizeAssumption DEF SizeAssumption
      <4> QED BY <1>3, <4>1, <4>2 DEF RootType
    <3> QED BY <2>1, <3>1, <3>2, <3>3 DEF TypeOK
  <2>4. Control'
    <3>1. StepHasJob' BY <1>1, <1>2, <2>1 DEF StepHasJob
    <3>2. LogicalStep' /\ CancelStep'
      BY <2>1 DEF LogicalStep, CancelStep, ClaimSteps, RetireSteps, CancelSteps
    <3>3. DeleteStep'
      BY <1>1, <1>2, <1>3, <2>1, JobAssumption
      DEF DeleteStep, Halted, AdmitSteps, MoveSteps, JobAssumption
    <3> QED BY <3>1, <3>2, <3>3 DEF Control
  <2>5. Marker' BY <1>2, <2>2, <2>3, MarkerKept DEF fs
  <2>6. Proof'
    <3> SUFFICES ASSUME NEW k \in Job, Removes(k)'
                 PROVE  (Placed' => lock' = k) /\ Pinned(k)' /\ Intact(k)' /\ strays' <= since'
      BY DEF Proof
    <3>1. k = j /\ rec[j].phase = "deleting_tree" BY <1>3, <2>1 DEF Removes, MoveSteps
    <3>2. Removes(j) BY <1>1, <3>1 DEF Removes
    <3>3. (Placed => lock = j) /\ Pinned(j) /\ Intact(j) /\ strays = 0 BY <1>1, <3>2
    <3> QED BY <1>2, <1>3, <3>1, <3>3 DEF Pinned, Intact, Placed, fs, seen
  <2>7. Strays' BY <1>2 DEF IInv, Strays, StraysAreBounded, fs, seen
  <2> QED BY <2>3, <2>4, <2>5, <2>6, <2>7, <2>1 DEF IInv, Proving, ProveSteps
<1>4. CASE Finished /\ UNCHANGED <<rec, open, root, since>>
  <2>1. StepType' /\ step' = "idle" BY <1>4 DEF Finished, StepType, Steps
  <2> QED BY <1>2, <1>4, <2>1, RecKept, WorkerKept
<1>5. CASE ~Placed /\ Enter(j, "done") /\ Finished /\ UNCHANGED <<open, root, since>>
  BY <1>1, <1>2, <1>5, EnterKept, JobAssumption DEF JobAssumption
<1> QED BY <1>3, <1>4, <1>5 DEF OpenRoot

LEMMA SliceTreeKept ==
    ASSUME IInv, NEW j \in Job, SliceTree(j)
    PROVE  IInv'
<1>1. /\ open = j /\ root = "tree" /\ rec[j].phase \in Physical /\ open # NoJob
      /\ (Placed => lock = j) /\ Pinned(j) /\ Intact(j) /\ strays <= since
      /\ since \in 0..Readmit /\ since < Readmit
  BY OpenFacts, SizeAssumption
  DEF SliceTree, Slices, SizeAssumption, IInv, Control, DeleteStep
<1>2. UNCHANGED <<edits, head, kept, admin, lock, back, fresh, ref, paused, hold, headLate, editLate, world>>
  BY DEF SliceTree
<1>3. CASE ~Here(j) /\ Block(j, "delete") /\ NoDeletion /\ UNCHANGED <<at, left, holder, strays>>
  BY <1>2, <1>3, BlockKept DEF Reason, fs, seen
<1>4. CASE /\ left > 1 /\ left' = left - 1 /\ since' = since + 1
           /\ strays' = IF holder THEN strays + 1 ELSE 0
           /\ Finished /\ UNCHANGED <<at, holder, rec, open, root>>
  <2>1. TypeOK'
    <3>1. left' \in 0..TreeSize
      <4>1. left \in 0..TreeSize BY DEF IInv, TypeOK, TreeType
      <4> QED BY <1>4, <4>1, SizeAssumption DEF SizeAssumption
    <3>2. TreeType' BY <1>2, <1>4, <3>1 DEF IInv, TypeOK, TreeType
    <3>3. JournalType' BY <1>2, <1>4 DEF IInv, TypeOK, JournalType
    <3>4. StepType' BY <1>4 DEF Finished, StepType, Steps
    <3>5. RootType' BY <1>1, <1>4, SizeAssumption DEF IInv, TypeOK, RootType, SizeAssumption
    <3>6. strays' \in Nat BY <1>4 DEF IInv, TypeOK, SeenType
    <3>7. SeenType' BY <1>2, <3>6 DEF IInv, TypeOK, SeenType, world
    <3> QED BY <3>2, <3>3, <3>4, <3>5, <3>7 DEF TypeOK
  <2>2. Control' BY <1>1, <1>2, <1>4, SliceControl
  <2>3. Marker' BY <1>2, <1>4, <2>1, RecKept, MarkerKept
  <2>4. strays' <= since' /\ since' <= Readmit
    BY <1>1, <1>4, SizeAssumption DEF IInv, TypeOK, SeenType, SizeAssumption
  <2>5. Proof'
    <3> SUFFICES ASSUME NEW k \in Job, Removes(k)'
                 PROVE  (Placed' => lock' = k) /\ Pinned(k)' /\ Intact(k)' /\ strays' <= since'
      BY DEF Proof
    <3>1. k = j BY <1>1, <1>4 DEF Removes, Finished, MoveSteps
    <3> QED BY <1>1, <1>2, <1>4, <2>4, <3>1 DEF Pinned, Intact, Placed
  <2>6. Strays'
    <3>1. strays' <= Readmit BY <2>1, <2>4, SizeAssumption DEF TypeOK, SeenType, RootType, SizeAssumption
    <3>2. strays' > 0 => holder' BY <1>4
    <3> QED BY <3>1, <3>2 DEF Strays, StraysAreBounded
  <2> QED BY <2>1, <2>2, <2>3, <2>5, <2>6, <1>4 DEF IInv, Proving, ProveSteps, Finished
<1>5. CASE /\ left' = 0 /\ at' = "gone" /\ holder' = FALSE /\ strays' = 0
           /\ Finished /\ NoDeletion /\ UNCHANGED rec
  <2>1. step' = "idle" /\ StepType' BY <1>5 DEF Finished, StepType, Steps
  <2>2. TypeOK'
    <3>1. left' \in 0..TreeSize BY <1>5, SizeAssumption DEF SizeAssumption
    <3>2. TreeType' BY <1>2, <1>5, <3>1 DEF IInv, TypeOK, TreeType
    <3>3. JournalType' BY <1>2, <1>5 DEF IInv, TypeOK, JournalType
    <3>4. RootType' BY <1>5, SizeAssumption DEF RootType, NoDeletion, SizeAssumption
    <3>5. SeenType' BY <1>2, <1>5 DEF IInv, TypeOK, SeenType, world
    <3> QED BY <2>1, <3>2, <3>3, <3>4, <3>5 DEF TypeOK
  <2> QED BY <1>2, <1>5, <2>1, <2>2, RecKept, Kept
<1> QED BY <1>3, <1>4, <1>5 DEF SliceTree

LEMMA SliceAdminKept ==
    ASSUME IInv, NEW j \in Job, SliceAdmin(j)
    PROVE  IInv'
<1>1. /\ open = j /\ root = "admin" /\ rec[j].phase \in Physical /\ open # NoJob
      /\ since \in 0..Readmit /\ since < Readmit
  BY OpenFacts, SizeAssumption
  DEF SliceAdmin, Slices, SizeAssumption, IInv, Control, DeleteStep
<1>2. UNCHANGED <<at, left, edits, head, kept, holder, fresh, ref, paused, hold, seen, world>>
  BY DEF SliceAdmin
<1>3. CASE Block(j, "delete") /\ NoDeletion /\ UNCHANGED <<admin, lock, back>>
  BY <1>2, <1>3, BlockKept DEF Reason, fs
<1>4. CASE /\ Placed /\ admin' \in {admin, "partial"}
           /\ lock' \in {lock, "none"} /\ back' \in {back, "empty"}
           /\ since' = since + 1 /\ Finished /\ UNCHANGED <<rec, open, root>>
  <2>1. TypeOK'
    <3>1. TreeType' BY <1>2, <1>4 DEF IInv, TypeOK, TreeType
    <3>2. JournalType' BY <1>2, <1>4 DEF IInv, TypeOK, JournalType
    <3>3. StepType' BY <1>4 DEF Finished, StepType, Steps
    <3>4. RootType' BY <1>1, <1>4, SizeAssumption DEF IInv, TypeOK, RootType, SizeAssumption
    <3>5. SeenType' BY <1>2 DEF IInv, TypeOK, SeenType, seen, world
    <3> QED BY <3>1, <3>2, <3>3, <3>4, <3>5 DEF TypeOK
  <2>2. Control' BY <1>1, <1>2, <1>4, SliceControl
  <2>3. Marker'
    <3>1. Placed' BY <1>4 DEF Placed
    <3>2. GoneIsUnlocked' /\ NothingRetired'
      BY <1>4, <3>1 DEF IInv, Marker, GoneIsUnlocked, NothingRetired
    <3>3. MarkerIsJournaled'
      BY <1>4, JobAssumption DEF IInv, Marker, MarkerIsJournaled, Answers, JobAssumption
    <3>4. HiddenIsOwned' BY <1>1, <1>4 DEF HiddenIsOwned, Answers
    <3> QED BY <3>2, <3>3, <3>4 DEF Marker
  <2>4. Proof' BY <1>1, <1>4 DEF Proof, Removes, Finished, MoveSteps
  <2>5. Strays' BY <1>2 DEF IInv, Strays, StraysAreBounded, seen
  <2> QED BY <2>1, <2>2, <2>3, <2>4, <2>5, <1>4 DEF IInv, Proving, ProveSteps, Finished
<1>5. CASE /\ admin' = "gone" /\ lock' = "none" /\ back' = "empty"
           /\ Enter(j, "done") /\ Finished /\ NoDeletion
  <2>1. /\ rec' \in [Job -> Record] /\ rec'[j].phase = "done" /\ rec'[j].retirement = ""
        /\ \A k \in Job \ {j} : rec'[k] = rec[k]
    BY <1>5, EnterOne DEF Phase, Logical
  <2>2. step' = "idle" /\ StepType' BY <1>5 DEF Finished, StepType, Steps
  <2>3. TypeOK'
    <3>1. TreeType' BY <1>2, <1>5 DEF IInv, TypeOK, TreeType
    <3>2. JournalType' BY <1>2, <2>1 DEF IInv, TypeOK, JournalType
    <3>3. RootType' BY <1>5, SizeAssumption DEF RootType, NoDeletion, SizeAssumption
    <3>4. SeenType' BY <1>2 DEF IInv, TypeOK, SeenType, seen, world
    <3> QED BY <2>2, <3>1, <3>2, <3>3, <3>4 DEF TypeOK
  <2>4. Control'
    BY <1>5, <2>2 DEF Control, StepHasJob, LogicalStep, CancelStep, DeleteStep, NoDeletion,
       AdmitSteps, MoveSteps, ClaimSteps, RetireSteps, CancelSteps
  <2>5. Marker'
    <3>1. GoneIsUnlocked' /\ HiddenIsOwned' BY <1>5 DEF GoneIsUnlocked, HiddenIsOwned, Placed
    <3>2. NothingRetired' BY <2>1 DEF IInv, Marker, NothingRetired
    <3>3. MarkerIsJournaled' BY <1>5, JobAssumption DEF MarkerIsJournaled, JobAssumption
    <3> QED BY <3>1, <3>2, <3>3 DEF Marker
  <2>6. Proof' BY <1>5, <2>2, JobAssumption DEF Proof, Removes, NoDeletion, MoveSteps, JobAssumption
  <2>7. Strays' BY <1>2 DEF IInv, Strays, StraysAreBounded, seen
  <2> QED BY <2>3, <2>4, <2>5, <2>6, <2>7, <2>2 DEF IInv, Proving, ProveSteps
<1> QED BY <1>3, <1>4, <1>5 DEF SliceAdmin

\* The admission begins again. A tree with a process in it is not admitted.
LEMMA ReadmittedKept ==
    ASSUME IInv, Readmitted, step = "idle", open # NoJob, root = "tree" => strays = 0,
           UNCHANGED <<fs, paused, hold, seen, world>>
    PROVE  IInv'
<1>1. since' = 0 /\ UNCHANGED <<rec, step, who, native, owned, open, root>> BY DEF Readmitted
<1>2. rec' \in [Job -> Record] /\ \A k \in Job : SameClaim(k) BY <1>1, RecKept
<1>3. TypeOK'
  <2>1. TreeType' /\ SeenType' BY DEF IInv, TypeOK, TreeType, SeenType, fs, seen, world
  <2>2. JournalType' /\ StepType' BY <1>1 DEF IInv, TypeOK, JournalType, StepType
  <2>3. RootType' BY <1>1, SizeAssumption DEF IInv, TypeOK, RootType, SizeAssumption
  <2> QED BY <2>1, <2>2, <2>3 DEF TypeOK
<1>4. Control'
  BY <1>1 DEF IInv, Control, StepHasJob, LogicalStep, CancelStep, DeleteStep, Halted, AdmitSteps,
     MoveSteps, ClaimSteps, RetireSteps, CancelSteps
<1>5. Marker' BY <1>2, <1>3, MarkerKept DEF fs
<1>6. Proof'
  <2> SUFFICES ASSUME NEW k \in Job, Removes(k)'
               PROVE  (Placed' => lock' = k) /\ Pinned(k)' /\ Intact(k)' /\ strays' <= since'
    BY DEF Proof
  <2>1. Removes(k) /\ root = "tree" BY <1>1 DEF Removes, MoveSteps
  <2> QED BY <1>1, <2>1 DEF IInv, Proof, Pinned, Intact, Placed, fs, seen
<1>7. Strays' BY DEF IInv, Strays, StraysAreBounded, fs, seen
<1> QED BY <1>3, <1>4, <1>5, <1>6, <1>7, <1>1 DEF IInv, Proving, ProveSteps

LEMMA ReadmitKept ==
    ASSUME IInv, NEW j \in Job, ReadmitTree(j) \/ ReadmitAdmin(j)
    PROVE  IInv'
<1>1. /\ open = j /\ open # NoJob /\ step = "idle" /\ UNCHANGED <<fs, paused, hold, seen, world>>
  BY JobAssumption DEF ReadmitTree, ReadmitAdmin, Due, Idle, JobAssumption
<1>2. CASE Parked
  BY <1>1, <1>2, RecKept, WorkerKept DEF Parked, IInv, TypeOK, StepType
<1>3. ASSUME NEW reason \in Reason, Block(j, reason), NoDeletion PROVE IInv'
  BY <1>1, <1>3, BlockKept
<1>4. CASE ReadmitTree(j) /\ RecheckReason(j) = "none" /\ Readmitted
  <2>1. root = "tree" /\ ~holder
    BY <1>4 DEF ReadmitTree, Due, RecheckReason, First, HolderReason
  <2>2. strays = 0 BY <2>1 DEF IInv, Strays, TypeOK, SeenType
  <2> QED BY <1>1, <1>4, <2>2, ReadmittedKept
<1>5. CASE ReadmitAdmin(j) /\ Readmitted
  <2>1. root = "admin" BY <1>5 DEF ReadmitAdmin, Due
  <2> QED BY <1>1, <1>5, <2>1, ReadmittedKept
<1>6. RecheckReason(j) \in Reason /\ AdminReason(j) \in Reason BY Reasons
<1>7. CASE ReadmitTree(j) BY <1>2, <1>3, <1>4, <1>6, <1>7 DEF ReadmitTree
<1>8. CASE ReadmitAdmin(j) BY <1>2, <1>3, <1>5, <1>6, <1>8 DEF ReadmitAdmin
<1> QED BY <1>7, <1>8

LEMMA DeleteKept ==
    ASSUME IInv, NEW j \in Job, Delete(j)
    PROVE  IInv'
BY AdmitClaimedKept, AdmitQuietKept, AdmitTreeKept, AdmitStatusKept, UnregisterKept, RenameKept, AdmitEnterKept,
   AdmitRegistrationKept, OpenRootKept, SliceTreeKept, SliceAdminKept, ReadmitKept DEF Delete

-----------------------------------------------------------------------------
(* The invariant and what follows from it.                                   *)

LEMMA InitInv == Init => IInv
<1> SUFFICES ASSUME Init PROVE IInv OBVIOUS
<1>1. TypeOK
  <2>1. TreeType
    <3>1. left \in 0..TreeSize BY SizeAssumption DEF Init, SizeAssumption
    <3> QED BY <3>1 DEF Init, TreeType
  <2>2. Absent \in Record BY DEF Absent, Record, Phase, Reason
  <2>3. JournalType BY <2>2 DEF Init, JournalType
  <2>4. StepType BY DEF Init, StepType, Steps
  <2>5. RootType
    <3>1. since \in 0..Readmit BY SizeAssumption DEF Init, SizeAssumption
    <3> QED BY <3>1 DEF Init, RootType
  <2>6. SeenType
    <3>1. events \in 0..MaxExternal /\ crashes \in 0..MaxCrash
      BY BoundAssumption DEF Init, BoundAssumption
    <3> QED BY <3>1 DEF Init, SeenType
  <2> QED BY <2>1, <2>3, <2>4, <2>5, <2>6 DEF TypeOK
<1>2. Control
  BY DEF Init, Control, StepHasJob, LogicalStep, CancelStep, DeleteStep, AdmitSteps, MoveSteps,
     ClaimSteps, RetireSteps, CancelSteps
<1>3. Marker
  BY JobAssumption DEF Init, Marker, GoneIsUnlocked, NothingRetired, MarkerIsJournaled,
     HiddenIsOwned, Absent, Placed, JobAssumption
<1>4. Proof /\ Proving
  BY JobAssumption DEF Init, Proof, Removes, MoveSteps, Proving, ProveSteps, JobAssumption
<1>5. Strays BY SizeAssumption DEF Init, Strays, StraysAreBounded, SizeAssumption
<1> QED BY <1>1, <1>2, <1>3, <1>4, <1>5 DEF IInv

LEMMA StutterKept ==
    ASSUME IInv, UNCHANGED vars
    PROVE  IInv'
<1>1. TypeOK' BY DEF IInv, TypeOK, TreeType, JournalType, StepType, RootType, SeenType, vars, fs,
                  journal, worker, seen, world
<1>2. strays' > 0 => holder' BY DEF IInv, Strays, vars, fs, seen
<1> QED BY <1>1, <1>2, RecKept, Kept DEF vars, fs, journal, worker, seen

\* Every action keeps the invariant, and so does a stutter.
LEMMA NextInv ==
    ASSUME IInv, [Next]_vars
    PROVE  IInv'
<1>1. ASSUME NEW j \in Job, Request(j) PROVE IInv' BY <1>1, RequestKept
<1>2. ASSUME NEW j \in Job, Work(j) PROVE IInv'
  BY <1>2, ClaimKept, RetireKept, DeleteKept, TurnKept, CancelUnlockKept, CancelDiscardKept DEF Work
<1>3. ASSUME NEW j \in Job, StepTimesOut(j) PROVE IInv' BY <1>3, TimeoutKept
<1>4. CASE Switch BY <1>4, SwitchKept
<1>5. CASE Reconcile \/ Park BY <1>5, TurnKept
<1>6. CASE Crash BY <1>6, CrashKept
<1>7. CASE HourPasses BY <1>7, HourKept
<1>8. CASE User BY <1>8, TreeUserKept, AdminUserKept DEF User
<1>9. CASE UNCHANGED vars BY <1>9, StutterKept
<1>10. CASE Sample BY <1>10, SampleKept
<1> QED BY <1>1, <1>2, <1>3, <1>4, <1>5, <1>6, <1>7, <1>8, <1>9, <1>10 DEF Next

\* The inductive invariant holds of every behaviour of the daemon, whatever the
\* user, git and the clock do between its steps.
THEOREM Invariance == Spec => []IInv
<1>1. Init => IInv BY InitInv
<1>2. IInv /\ [Next]_vars => IInv' BY NextInv
<1> QED BY <1>1, <1>2, PTL DEF Spec

\* Every variable keeps to its range in every behaviour.
THEOREM TypeCorrect == Spec => []TypeOK
BY Invariance, PTL DEF IInv

\* However steps, crashes and the user interleave, a marker in the registration
\* is one a record in the journal answers for.
THEOREM MarkersAnswered == Spec => []MarkerIsJournaled
BY Invariance, PTL DEF IInv, Marker

\* No behaviour leaves a registration hidden from git that no removal restores or
\* deletes, provided the user unlocks worktrees only under a hold.
THEOREM HiddenAnswered == Spec => []HiddenIsOwned
BY Invariance, PTL DEF IInv, Marker

\* With any number of rival removals, a registered tree is deleted only under the
\* marker of the one that deletes it.
THEOREM DeletionsMarked == Spec => []DeletesUnderOwnMarker
<1>1. IInv => DeletesUnderOwnMarker BY DEF IInv, Proof, Removes, DeletesUnderOwnMarker
<1> QED BY <1>1, Invariance, PTL

\* The recovery ref names the captured HEAD for as long as the tree is deleted.
THEOREM DeletionsPinned == Spec => []PinnedWhileDeleting
<1>1. IInv => PinnedWhileDeleting BY DEF IInv, Proof, Removes, PinnedWhileDeleting
<1> QED BY <1>1, Invariance, PTL

\* A tree whose HEAD is not the pinned one, or that holds work no --force waived,
\* has been changed since the last full proof read that very thing of it, however
\* the user's changes fall between the reads of the proof, the steps of the
\* deletion, parks and restarts.
THEOREM DeletionsProven == Spec => []ProvenWhileDeleting
<1>1. IInv => ProvenWhileDeleting BY DEF IInv, Proof, Removes, Intact, ProvenWhileDeleting
<1> QED BY <1>1, Invariance, PTL

\* For every size of tree and every length of admission, a process that enters
\* the tree sees at most one admission's slices.
THEOREM StraysBounded == Spec => []StraysAreBounded
BY Invariance, PTL DEF IInv, Strays

\* No step of the daemon's changes the registration under a hold, nor the tree
\* under a hold or a pause.
THEOREM HaltsFreeze == Spec => HaltFreezes
<1> DEFINE Frozen == /\ hold # NoHold /\ ~User => UNCHANGED <<at, left, admin, lock, back, ref>>
                     /\ paused /\ ~User => UNCHANGED <<at, left, admin>>
<1>1. IInv /\ [Next]_vars => [Frozen]_vars
  <2> SUFFICES ASSUME IInv, Next PROVE Frozen
    BY DEF vars
  <2>2. ASSUME NEW j \in Job, Request(j) PROVE Frozen
    BY <2>2 DEF Request, Remove, Defer, Cancel, Retry, fs
  <2>3. ASSUME NEW j \in Job, Claim(j) PROVE Frozen
    <3>1. UNCHANGED <<at, left, admin>> /\ (hold = NoHold \/ UNCHANGED <<lock, back, ref>>)
      BY <2>3 DEF Claim, AwaitInactivity, ClaimProve, ClaimQuiet, ClaimPin, ClaimIntent, ClaimLock,
         ClaimEnter, fs, IInv, Control, StepHasJob
    <3> QED BY <3>1
  <2>4. ASSUME NEW j \in Job, Retire(j) PROVE Frozen
    <3>1. UNCHANGED <<at, left, admin>> /\ (hold = NoHold \/ UNCHANGED <<lock, back, ref>>)
      BY <2>4 DEF Retire, RetireProve, RetireIntent, RetireLock, RetirePin, RetireIdle, RetireHide,
         RetireEnd, fs, IInv, Control, StepHasJob
    <3> QED BY <3>1
  <2>5. ASSUME NEW j \in Job, Delete(j) PROVE Frozen
    <3>1. CASE Unregister(j) \/ Rename(j)
      BY <3>1 DEF Unregister, Rename, IInv, Control, StepHasJob, AdmitSteps, MoveSteps
    <3>2. CASE SliceTree(j) \/ SliceAdmin(j)
      <4>1. ~Halted BY <3>2, OpenFacts DEF SliceTree, SliceAdmin, Slices
      <4> QED BY <4>1 DEF Halted
    <3>3. CASE UNCHANGED fs BY <3>3 DEF fs
    <3> QED BY <2>5, <3>1, <3>2, <3>3 DEF Delete, AdmitClaimed, AdmitQuiet, AdmitTree, AdmitStatus,
            AdmitEnter, AdmitRegistration, OpenRoot, ReadmitTree, ReadmitAdmin
  <2>6. ASSUME NEW j \in Job, AutoRetry(j) \/ CancelUnlock(j) \/ CancelDiscard(j) PROVE Frozen
    <3>1. UNCHANGED <<at, left, admin>> /\ (hold = NoHold \/ UNCHANGED <<lock, back, ref>>)
      BY <2>6 DEF AutoRetry, CancelUnlock, CancelDiscard, fs, IInv, Control, StepHasJob
    <3> QED BY <3>1
  <2>7. ASSUME NEW j \in Job, StepTimesOut(j) PROVE Frozen
    BY <2>7 DEF StepTimesOut, fs
  <2>8. CASE Switch BY <2>8 DEF Switch, Pause, Resume, Take, Release, Publish, fs
  <2>9. CASE Reconcile \/ Park \/ Sample \/ Crash \/ HourPasses
    BY <2>9 DEF Reconcile, Park, Sample, Crash, HourPasses, fs
  <2>10. CASE User BY <2>10
  <2> QED BY <2>2, <2>3, <2>4, <2>5, <2>6, <2>7, <2>8, <2>9, <2>10 DEF Next, Work
<1> QED BY <1>1, Invariance, PTL DEF Spec, HaltFreezes

-----------------------------------------------------------------------------
(* The promise. Each step is matched with the step of RemovalPromise that it *)
(* takes, or with none.                                                      *)

\* Only a removal not yet claimed has retired anything.
Tidy == \A j \in Job : rec[j].retirement # "" => rec[j].phase \in Logical

Matched == Tidy' /\ [Promise!Next]_(Promise!vars)

\* No removal changes its stage, and none turns untidy.
Calm == \A k \in Job : /\ Stage(k)' = Stage(k)
                       /\ rec'[k].retirement # "" => rec'[k].phase \in Logical
\* Removal j alone does, and ends tidy.
Advances(j, s) == /\ Stage(j)' = s
                  /\ rec'[j].retirement # "" => rec'[j].phase \in Logical
                  /\ \A k \in Job \ {j} : rec'[k] = rec[k]

LEMMA Stages ==
    ASSUME NEW j \in Job
    PROVE  /\ rec[j].phase = "absent"      => Stage(j) = "none"
           /\ rec[j].phase \in Logical     => Stage(j) = "asked"
           /\ rec[j].phase \in Physical    => Stage(j) = "committed"
           /\ rec'[j].phase \in Logical    => Stage(j)' = "asked"
           /\ rec'[j].phase \in Physical   => Stage(j)' = "committed"
           /\ rec'[j].phase = "discarded"  => Stage(j)' = "withdrawn"
           /\ rec'[j].phase = "done"       => Stage(j)' = "done"
           /\ rec'[j].phase = rec[j].phase => Stage(j)' = Stage(j)
<1>1. /\ "absent" \notin Logical \cup Physical /\ "discarded" \notin Logical \cup Physical
      /\ "done" \notin Logical \cup Physical /\ Logical \cap Physical = {}
  BY DEF Logical, Physical
<1> QED BY <1>1 DEF Stage

LEMMA CalmMatched ==
    ASSUME Calm, UNCHANGED <<left, admin, back>>
    PROVE  Matched
<1>1. Tidy' BY DEF Calm, Tidy
<1>2. [j \in Job |-> Stage(j)]' = [j \in Job |-> Stage(j)] BY DEF Calm
<1>3. Tree' = Tree /\ Registration' = Registration BY DEF Tree, Registration, Placed
<1> QED BY <1>1, <1>2, <1>3 DEF Matched, Promise!vars

LEMMA SameCalm ==
    ASSUME Tidy, UNCHANGED rec
    PROVE  Calm
BY Stages DEF Calm, Tidy

LEMMA SetCalm ==
    ASSUME IInv, Tidy, NEW j \in Job, NEW r \in Record, Set(j, r),
           r.phase = rec[j].phase \/ {r.phase, rec[j].phase} \subseteq Logical,
           r.retirement = rec[j].retirement \/ rec[j].phase \in Logical
    PROVE  Calm
<1>1. rec'[j] = r /\ \A k \in Job \ {j} : rec'[k] = rec[k] BY SetOne DEF IInv
<1>2. Stage(j)' = Stage(j) BY <1>1, Stages
<1>3. \A k \in Job \ {j} : Stage(k)' = Stage(k) BY <1>1, Stages
<1> QED BY <1>1, <1>2, <1>3 DEF Calm, Tidy

LEMMA BlockCalm ==
    ASSUME IInv, Tidy, NEW j \in Job, NEW reason \in Reason,
           Set(j, [rec[j] EXCEPT !.blocked = reason])
    PROVE  Calm
<1> DEFINE r == [rec[j] EXCEPT !.blocked = reason]
<1>1. rec[j] \in Record BY DEF IInv, TypeOK, JournalType
<1>2. r \in Record /\ r.phase = rec[j].phase /\ r.retirement = rec[j].retirement BY <1>1 DEF Record
<1>3. Set(j, r) OBVIOUS
<1> HIDE DEF r
<1> QED BY <1>2, <1>3, SetCalm

LEMMA AdvancesMatched ==
    ASSUME Tidy, NEW j \in Job, NEW s, Advances(j, s)
    PROVE  Tidy' /\ Promise!To(j, s)
<1>1. Tidy' BY DEF Advances, Tidy
<1>2. \A k \in Job \ {j} : Stage(k)' = Stage(k) BY Stages DEF Advances
<1>3. [k \in Job |-> Stage(k)]' = [[k \in Job |-> Stage(k)] EXCEPT ![j] = s]
  BY <1>2 DEF Advances
<1> QED BY <1>1, <1>3 DEF Promise!To

LEMMA CreateMatched ==
    ASSUME IInv, Tidy, NEW j \in Job, NEW phase \in Logical, NEW force \in BOOLEAN,
           Create(j, phase, force), UNCHANGED <<left, admin, back>>
    PROVE  Matched
<1> DEFINE r == [Absent EXCEPT !.phase = phase, !.head = head, !.force = force]
<1>1. r \in Record /\ r.phase = phase
  BY DEF Record, Absent, Phase, Logical, Reason, IInv, TypeOK, TreeType
<1>2. rec'[j] = r /\ \A k \in Job \ {j} : rec'[k] = rec[k]
  BY <1>1, SetOne DEF Create, IInv
<1> HIDE DEF r
<1>3. Advances(j, "asked") BY <1>1, <1>2, Stages DEF Advances
<1>4. Stage(j) = "none" BY Stages DEF Create
<1>5. Promise!Ask(j)
  BY <1>3, <1>4, AdvancesMatched DEF Promise!Ask, Tree, Registration, Placed
<1> QED BY <1>3, <1>5, AdvancesMatched DEF Matched, Promise!Next

\* A removal is withdrawn from a registration that git lists, or that another
\* removal answers for.
LEMMA DiscardMatched ==
    ASSUME IInv, IInv', Tidy, NEW j \in Job, Discard(j), rec[j].phase \in Logical,
           UNCHANGED <<left, admin, back>>
    PROVE  Matched
<1> DEFINE r == [Absent EXCEPT !.phase = "discarded", !.head = rec[j].head]
<1>1. r \in Record /\ r.phase = "discarded" /\ r.retirement = ""
  <2>1. rec[j] \in Record BY DEF IInv, TypeOK, JournalType
  <2> QED BY <2>1 DEF Record, Absent, Phase, Reason
<1>2. Set(j, r) BY DEF Discard
<1> HIDE DEF r
<1>3. rec'[j] = r /\ \A k \in Job \ {j} : rec'[k] = rec[k] BY <1>1, <1>2, SetOne DEF IInv
<1>4. Advances(j, "withdrawn") BY <1>1, <1>3, Stages DEF Advances
<1>5. Stage(j) = "asked" BY Stages
<1>6. Registration = "hidden" => \E k \in Job \ {j} : Stage(k) \in {"asked", "committed"}
  <2> SUFFICES ASSUME Registration = "hidden"
               PROVE  \E k \in Job \ {j} : Stage(k) \in {"asked", "committed"}
    OBVIOUS
  <2>1. Placed' /\ back' = "empty" BY DEF Registration, Placed
  <2>2. PICK k \in Job : Answers(k)' BY <2>1 DEF IInv, Marker, HiddenIsOwned
  <2>3. k # j BY <1>1, <1>3, <2>2 DEF Answers, Physical
  <2>4. Answers(k) BY <1>3, <2>2, <2>3 DEF Answers
  <2>5. rec[k].phase \in Logical \cup Physical BY <2>4 DEF Answers, Tidy
  <2> QED BY <2>3, <2>5, Stages
<1>7. Promise!Withdraw(j)
  BY <1>4, <1>5, <1>6, AdvancesMatched
  DEF Promise!Withdraw, Promise!Active, Tree, Registration, Placed
<1> QED BY <1>4, <1>7, AdvancesMatched DEF Matched, Promise!Next

\* A claim commits the removal, and a later phase keeps it committed.
LEMMA EnterMatched ==
    ASSUME IInv, Tidy, NEW j \in Job, NEW p \in Physical, Enter(j, p),
           rec[j].phase \in Logical \cup Physical, UNCHANGED <<left, admin, back>>
    PROVE  Matched
<1>1. p \in Phase /\ p \notin Logical BY DEF Phase, Logical, Physical
<1>2. /\ rec'[j].phase = p /\ rec'[j].retirement = ""
      /\ \A k \in Job \ {j} : rec'[k] = rec[k]
  BY <1>1, EnterOne
<1>3. Advances(j, "committed") BY <1>2, Stages DEF Advances
<1>4. CASE rec[j].phase \in Logical
  <2>1. Stage(j) = "asked" BY <1>4, Stages
  <2>2. Promise!Begin(j)
    BY <1>3, <2>1, AdvancesMatched DEF Promise!Begin, Tree, Registration, Placed
  <2> QED BY <1>3, <2>2, AdvancesMatched DEF Matched, Promise!Next
<1>5. CASE rec[j].phase \in Physical
  <2>1. Stage(j) = "committed" BY <1>5, Stages
  <2>2. Calm BY <1>2, <1>3, <2>1, Stages DEF Calm, Advances, Tidy
  <2> QED BY <2>2, CalmMatched
<1> QED BY <1>4, <1>5

\* A removal is done when the registration is gone, or with its last entry.
LEMMA DoneMatched ==
    ASSUME IInv, Tidy, NEW j \in Job, Enter(j, "done"), rec[j].phase \in Logical \cup Physical,
           UNCHANGED left, admin' = "gone", Placed => rec[j].phase \in Physical
    PROVE  Matched
<1>1. /\ rec'[j].phase = "done" /\ rec'[j].retirement = ""
      /\ \A k \in Job \ {j} : rec'[k] = rec[k]
  BY EnterOne DEF Phase, Logical
<1>2. Advances(j, "done") BY <1>1, Stages DEF Advances
<1>3. Stage(j) \in {"asked", "committed"} /\ (Placed => Stage(j) = "committed") BY Stages
<1>4. Registration' = "gone" /\ (Registration # "gone" => Placed) BY DEF Registration, Placed
<1>5. Promise!Finish(j)
  BY <1>2, <1>3, <1>4, AdvancesMatched DEF Promise!Finish, Promise!Active, Tree
<1> QED BY <1>2, <1>5, AdvancesMatched DEF Matched, Promise!Next

\* A removal whose tree is gone ends with it, deletes what git still registers,
\* or is blocked.
LEMMA SettleMatched ==
    ASSUME IInv, Tidy, NEW j \in Job, Settle(j) \/ SettleClaim(j),
           rec[j].phase \in Logical \cup Physical, UNCHANGED <<left, admin, back>>
    PROVE  Matched
<1>1. \/ ~Placed /\ Enter(j, "done")
      \/ Enter(j, "deleting_registration")
      \/ \E reason \in Reason : Set(j, [rec[j] EXCEPT !.blocked = reason])
  BY DEF Settle, SettleClaim, Block, Reason
<1>2. CASE ~Placed /\ Enter(j, "done")
  <2>1. admin' = "gone" BY <1>2 DEF Placed
  <2> QED BY <1>2, <2>1, DoneMatched
<1>3. CASE Enter(j, "deleting_registration") BY <1>3, EnterMatched DEF Physical
<1>4. CASE \E reason \in Reason : Set(j, [rec[j] EXCEPT !.blocked = reason])
  BY <1>4, BlockCalm, CalmMatched
<1> QED BY <1>1, <1>2, <1>3, <1>4

\* The steps that hide, restore or remove a registration, and shrink a tree.
LEMMA HideMatched ==
    ASSUME IInv, Tidy, UNCHANGED rec, UNCHANGED left, Placed, Placed', back' = "empty",
           NEW j \in Job, rec[j].phase \in Logical \cup Physical
    PROVE  Matched
<1>1. Calm /\ Tidy' BY SameCalm DEF Tidy
<1>2. [k \in Job |-> Stage(k)]' = [k \in Job |-> Stage(k)] BY <1>1 DEF Calm
<1>3. Tree' = Tree /\ Registration' = "hidden" /\ Registration \in {"listed", "hidden"}
  BY DEF Tree, Registration
<1>4. CASE Registration = "listed"
  <2>1. Stage(j) \in {"asked", "committed"} BY Stages
  <2>2. Promise!Hide BY <1>2, <1>3, <1>4, <2>1 DEF Promise!Hide, Promise!Active
  <2> QED BY <1>1, <2>2 DEF Matched, Promise!Next
<1>5. CASE Registration = "hidden" BY <1>1, <1>2, <1>3, <1>5 DEF Matched, Promise!vars
<1> QED BY <1>3, <1>4, <1>5

LEMMA RestoreMatched ==
    ASSUME IInv, Tidy, UNCHANGED <<rec, left, admin>>, Placed, back' = "tree",
           NEW j \in Job, rec[j].phase \in Logical
    PROVE  Matched
<1>1. Calm /\ Tidy' BY SameCalm DEF Tidy
<1>2. [k \in Job |-> Stage(k)]' = [k \in Job |-> Stage(k)] BY <1>1 DEF Calm
<1>3. Tree' = Tree /\ Registration' = "listed" /\ Registration \in {"listed", "hidden"}
  BY DEF Tree, Registration, Placed
<1>4. CASE Registration = "hidden"
  <2>1. Stage(j) = "asked" BY Stages
  <2>2. Promise!Restore BY <1>2, <1>3, <1>4, <2>1 DEF Promise!Restore
  <2> QED BY <1>1, <2>2 DEF Matched, Promise!Next
<1>5. CASE Registration = "listed" BY <1>1, <1>2, <1>3, <1>5 DEF Matched, Promise!vars
<1> QED BY <1>3, <1>4, <1>5

LEMMA ShrinkMatched ==
    ASSUME IInv, Tidy, UNCHANGED <<rec, admin, back>>, left > 0, left' = left - 1,
           NEW j \in Job, rec[j].phase \in Physical
    PROVE  Matched
<1>1. Calm /\ Tidy' BY SameCalm DEF Tidy
<1>2. [k \in Job |-> Stage(k)]' = [k \in Job |-> Stage(k)] BY <1>1 DEF Calm
<1>3. Registration' = Registration BY DEF Registration, Placed
<1>4. left \in Nat /\ left <= TreeSize /\ TreeSize \in Nat
  BY SizeAssumption DEF IInv, TypeOK, TreeType, SizeAssumption
<1>5. \/ Tree = "whole" /\ Tree' \in {"partial", "gone"}
      \/ Tree = "partial" /\ Tree' \in {"partial", "gone"}
  BY <1>4 DEF Tree
<1>6. CASE Tree' = Tree BY <1>1, <1>2, <1>3, <1>6 DEF Matched, Promise!vars
<1>7. CASE Tree' # Tree
  <2>1. Stage(j) = "committed" BY Stages
  <2>2. Promise!Shrink BY <1>2, <1>3, <1>5, <1>7, <2>1 DEF Promise!Shrink
  <2> QED BY <1>1, <2>2 DEF Matched, Promise!Next
<1> QED BY <1>6, <1>7

LEMMA RequestMatched ==
    ASSUME IInv, IInv', Tidy, NEW j \in Job, Request(j)
    PROVE  Matched
<1>1. ASSUME Revive(j), UNCHANGED fs PROVE Matched
  BY <1>1, BlockCalm, CalmMatched DEF Revive, Reason, fs
<1>2. ASSUME NEW force \in BOOLEAN, Remove(j, force) PROVE Matched
  BY <1>1, <1>2, CreateMatched DEF Remove, Logical, fs
<1>3. ASSUME NEW force \in BOOLEAN, Defer(j, force) PROVE Matched
  BY <1>1, <1>3, CreateMatched DEF Defer, Logical, fs
<1>4. CASE Retry(j) BY <1>1, <1>4 DEF Retry
<1>5. CASE Cancel(j)
  <2>1. rec[j].phase \in Logical /\ UNCHANGED <<left, admin>> BY <1>5 DEF Cancel, Logical
  <2>2. CASE rec[j].retirement = "" BY <1>5, <2>1, <2>2, DiscardMatched DEF Cancel
  <2>3. CASE rec[j].retirement # ""
    <3>1. Placed /\ back' = "tree" /\ UNCHANGED rec BY <1>5, <2>3 DEF Cancel, Placed
    <3> QED BY <2>1, <3>1, RestoreMatched
  <2> QED BY <2>2, <2>3
<1> QED BY <1>2, <1>3, <1>4, <1>5 DEF Request

\* A step that leaves the tree and the registration alone, and blocks its job or
\* leaves it as it is.
LEMMA BlockMatched ==
    ASSUME IInv, Tidy, NEW j \in Job, NEW reason \in Reason,
           UNCHANGED rec \/ Block(j, reason), UNCHANGED <<left, admin, back>>
    PROVE  Matched
BY SameCalm, BlockCalm, CalmMatched DEF Block

\* An intent, or a retirement, is journaled of a job not yet claimed.
LEMMA IntentMatched ==
    ASSUME IInv, Tidy, NEW j \in Job, rec[j].phase \in Logical, NEW s \in {"intent", "retired"},
           Set(j, [rec[j] EXCEPT !.retirement = IF @ = "" THEN s ELSE @])
             \/ Set(j, [rec[j] EXCEPT !.retirement = s]),
           UNCHANGED <<left, admin, back>>
    PROVE  Matched
<1>1. rec[j] \in Record BY DEF IInv, TypeOK, JournalType
<1>2. \E r \in Record : Set(j, r) /\ r.phase = rec[j].phase
  <2> DEFINE r == [rec[j] EXCEPT !.retirement = s]
  <2>1. r \in Record /\ r.phase = rec[j].phase BY <1>1 DEF Record
  <2>2. [rec[j] EXCEPT !.retirement = IF @ = "" THEN s ELSE @] \in {r, rec[j]} BY <1>1 DEF Record
  <2> QED BY <1>1, <2>1, <2>2
<1> QED BY <1>2, SetCalm, CalmMatched

LEMMA ClaimProveMatched ==
    ASSUME IInv, Tidy, NEW j \in Job, ClaimProve(j)
    PROVE  Matched
<1>1. /\ rec[j].phase \in Logical /\ rec[j] \in Record /\ UNCHANGED <<left, admin, back>>
      /\ Follow(j) \in Commit \cup {NoCommit}
  BY DEF ClaimProve, CanClaim, Follow, IInv, TypeOK, TreeType, JournalType, Record, fs
<1>2. CASE SettleClaim(j) BY <1>1, <1>2, SettleMatched
<1>3. ASSUME NEW h \in Commit \cup {NoCommit}, NEW b \in Reason,
             Set(j, [rec[j] EXCEPT !.blocked = b, !.head = h])
      PROVE  Matched
  <2> DEFINE r == [rec[j] EXCEPT !.blocked = b, !.head = h]
  <2>1. r \in Record /\ r.phase = rec[j].phase BY <1>1 DEF Record
  <2>2. Set(j, r) BY <1>3
  <2> HIDE DEF r
  <2> QED BY <1>1, <2>1, <2>2, SetCalm, CalmMatched
<1>4. ASSUME Set(j, [rec[j] EXCEPT !.head = Follow(j)]) PROVE Matched
  <2> DEFINE r == [rec[j] EXCEPT !.head = Follow(j)]
  <2>1. r \in Record /\ r.phase = rec[j].phase BY <1>1 DEF Record
  <2>2. Set(j, r) BY <1>4
  <2> HIDE DEF r
  <2> QED BY <1>1, <2>1, <2>2, SetCalm, CalmMatched
<1>5. \/ SettleClaim(j)
      \/ Set(j, [rec[j] EXCEPT !.head = Follow(j)])
      \/ \E h \in Commit \cup {NoCommit}, b \in Reason :
            Set(j, [rec[j] EXCEPT !.blocked = b, !.head = h])
  <2>1. PICK own \in OwnHead(j, Placed) :
           LET reason == First(Bind(j), First(HeadReason(j, Follow(j)),
                                              DirtReason(j, Follow(j), own))) IN
           \/ SettleClaim(j)
           \/ Set(j, [rec[j] EXCEPT !.blocked = reason,
                        !.head = IF Bind(j) = "none" THEN Follow(j) ELSE @])
           \/ Set(j, [rec[j] EXCEPT !.head = Follow(j)])
    BY DEF ClaimProve
  <2>2. First(Bind(j), First(HeadReason(j, Follow(j)), DirtReason(j, Follow(j), own))) \in Reason
    BY OwnIs, Reasons DEF Placed
  <2>3. (IF Bind(j) = "none" THEN Follow(j) ELSE rec[j].head) \in Commit \cup {NoCommit}
    BY <1>1 DEF Record
  <2> QED BY <2>1, <2>2, <2>3
<1> QED BY <1>2, <1>3, <1>4, <1>5

LEMMA ClaimMatched ==
    ASSUME IInv, Tidy, NEW j \in Job, Claim(j)
    PROVE  Matched
<1>1. CASE AwaitInactivity(j)
  <2> DEFINE r == [rec[j] EXCEPT !.phase = "waiting"]
  <2>1. rec[j] \in Record /\ rec[j].phase \in Logical
    BY <1>1 DEF AwaitInactivity, Logical, IInv, TypeOK, JournalType
  <2>2. r \in Record /\ r.phase \in Logical BY <2>1 DEF Record, Phase, Logical
  <2>3. Set(j, r) BY <1>1 DEF AwaitInactivity
  <2> HIDE DEF r
  <2>4. UNCHANGED <<left, admin, back>> BY <1>1 DEF AwaitInactivity, fs
  <2> QED BY <2>1, <2>2, <2>3, <2>4, SetCalm, CalmMatched
<1>2. CASE ClaimProve(j) BY <1>2, ClaimProveMatched
<1>3. CASE ClaimQuiet(j) BY <1>3, BlockMatched DEF ClaimQuiet, Reason, fs
<1>4. CASE ClaimPin(j)
  <2>1. UNCHANGED <<left, admin, back>> BY <1>4 DEF ClaimPin
  <2>2. PICK own \in OwnHead(j, native) : UNCHANGED rec \/ Block(j, StatusReason(j, own))
    BY <1>4 DEF ClaimPin
  <2>3. StatusReason(j, own) \in Reason BY OwnIs, Reasons DEF IInv, TypeOK, StepType
  <2> QED BY <2>1, <2>2, <2>3, BlockMatched
<1>5. CASE ClaimIntent(j)
  BY <1>5, LogicalFacts, IntentMatched DEF ClaimIntent, ClaimSteps, fs
<1>6. CASE ClaimLock(j) BY <1>6, BlockMatched DEF ClaimLock, Mark, Reason
<1>7. CASE ClaimEnter(j)
  BY <1>7, LogicalFacts, EnterMatched DEF ClaimEnter, ClaimSteps, Physical, fs
<1> QED BY <1>1, <1>2, <1>3, <1>4, <1>5, <1>6, <1>7 DEF Claim

LEMMA RetireMatched ==
    ASSUME IInv, Tidy, NEW j \in Job, Retire(j)
    PROVE  Matched
<1>1. CASE RetireProve(j)
  <2>1. rec[j] \in Record /\ UNCHANGED <<left, admin, back>>
    BY <1>1 DEF RetireProve, IInv, TypeOK, JournalType, fs
  <2>2. CASE Set(j, [rec[j] EXCEPT !.rests = TRUE])
    <3> DEFINE r == [rec[j] EXCEPT !.rests = TRUE]
    <3>1. r \in Record /\ r.phase = rec[j].phase /\ r.retirement = rec[j].retirement
      BY <2>1 DEF Record
    <3>2. Set(j, r) BY <2>2
    <3> HIDE DEF r
    <3> QED BY <2>1, <3>1, <3>2, SetCalm, CalmMatched
  <2>3. CASE UNCHANGED rec \/ Block(j, RetireReason(j))
    <3>1. RetireReason(j) \in Reason BY Reasons
    <3> QED BY <2>1, <2>3, <3>1, BlockMatched
  <2> QED BY <1>1, <2>2, <2>3 DEF RetireProve
<1>2. CASE RetireIntent(j)
  BY <1>2, LogicalFacts, IntentMatched DEF RetireIntent, RetireSteps, fs
<1>3. CASE RetireLock(j) BY <1>3, BlockMatched DEF RetireLock, Mark, Reason
<1>4. CASE RetirePin(j) BY <1>4, BlockMatched DEF RetirePin, journal, Reason
<1>5. CASE RetireIdle(j) BY <1>5, BlockMatched DEF RetireIdle, Reason, fs
<1>6. CASE RetireHide(j)
  <2>1. rec[j].phase \in Logical /\ UNCHANGED <<left, admin>>
    BY <1>6, LogicalFacts DEF RetireHide, RetireSteps
  <2>2. CASE Unchanged(j)
    <3>1. UNCHANGED rec /\ back' = "empty" /\ Placed /\ Placed'
      BY <1>6, <2>1, <2>2 DEF RetireHide, Unchanged, Placed
    <3> QED BY <2>1, <3>1, HideMatched
  <2>3. CASE ~Unchanged(j) BY <1>6, <2>1, <2>3, BlockMatched DEF RetireHide, Reason
  <2> QED BY <2>2, <2>3
<1>7. CASE RetireEnd(j)
  <2>1. rec[j].phase \in Logical /\ UNCHANGED <<left, admin, back>>
    BY <1>7, LogicalFacts DEF RetireEnd, RetireSteps, fs
  <2>2. CASE Unchanged(j) BY <1>7, <2>1, <2>2, IntentMatched DEF RetireEnd
  <2>3. CASE ~Unchanged(j) BY <1>7, <2>1, <2>3, BlockMatched DEF RetireEnd, Reason
  <2> QED BY <2>2, <2>3
<1> QED BY <1>1, <1>2, <1>3, <1>4, <1>5, <1>6, <1>7 DEF Retire

LEMMA AdmitMatched ==
    ASSUME IInv, Tidy, NEW j \in Job,
           \/ AdmitClaimed(j) \/ AdmitQuiet(j) \/ AdmitTree(j) \/ AdmitStatus(j)
           \/ AdmitEnter(j) \/ AdmitRegistration(j)
    PROVE  Matched
<1>1. CASE AdmitClaimed(j)
  <2>1. rec[j].phase \in Physical /\ UNCHANGED <<left, admin, back>>
    BY <1>1 DEF AdmitClaimed, Admits, Physical, fs
  <2> DEFINE reason == First(Bind(j), First(PinReason(j), HeadReason(j, rec[j].head)))
  <2>2. Settle(j) \/ UNCHANGED rec \/ Block(j, reason) BY <1>1 DEF AdmitClaimed, Proven
  <2>3. reason \in Reason
    <3>1. FALSE \in BOOLEAN OBVIOUS
    <3> QED BY <3>1, Reasons
  <2> HIDE DEF reason
  <2> QED BY <2>1, <2>2, <2>3, SettleMatched, BlockMatched
<1>2. CASE AdmitTree(j)
  <2>1. rec[j].phase \in Physical /\ UNCHANGED <<left, admin, back>>
    BY <1>2 DEF AdmitTree, Admits, Physical, fs
  <2> DEFINE reason == First(RecheckReason(j), ResidueReason(j))
  <2>2. Settle(j) \/ UNCHANGED rec \/ Block(j, reason) BY <1>2 DEF AdmitTree, Proven
  <2>3. reason \in Reason
    <3>1. FALSE \in BOOLEAN OBVIOUS
    <3> QED BY <3>1, Reasons
  <2> HIDE DEF reason
  <2> QED BY <2>1, <2>2, <2>3, SettleMatched, BlockMatched
<1>3. CASE AdmitEnter(j)
  <2>1. rec[j].phase \in Physical /\ UNCHANGED <<left, admin, back>>
    BY <1>3, MoveFacts DEF AdmitEnter, MoveSteps, fs
  <2>2. rec \in [Job -> Record] /\ rec[j] \in Record BY DEF IInv, TypeOK, JournalType
  <2>3. /\ rec'[j].phase = "deleting_tree" /\ rec'[j].retirement = ""
        /\ \A k \in Job \ {j} : rec'[k] = rec[k]
    BY <1>3, <2>2 DEF AdmitEnter, Record
  <2>4. Calm BY <2>1, <2>3, Stages DEF Calm, Tidy, Physical
  <2> QED BY <2>1, <2>4, CalmMatched
<1>4. CASE AdmitRegistration(j)
  <2>1. rec[j].phase \in Physical /\ UNCHANGED <<left, admin, back>>
    BY <1>4 DEF AdmitRegistration, Admits, Physical, fs
  <2>2. CASE Enter(j, "claimed") BY <2>1, <2>2, EnterMatched DEF Physical
  <2>3. CASE ~Placed /\ Enter(j, "done")
    <3>1. admin' = "gone" BY <2>1, <2>3 DEF Placed
    <3> QED BY <2>1, <2>3, <3>1, DoneMatched
  <2>4. CASE UNCHANGED rec \/ Block(j, AdminReason(j))
    <3>1. AdminReason(j) \in Reason
      <4>1. FALSE \in BOOLEAN OBVIOUS
      <4> QED BY <4>1, Reasons
    <3> QED BY <2>1, <2>4, <3>1, BlockMatched
  <2> QED BY <1>4, <2>2, <2>3, <2>4 DEF AdmitRegistration
<1>5. CASE AdmitQuiet(j) BY <1>5, BlockMatched DEF AdmitQuiet, Reason, fs
<1>6. CASE AdmitStatus(j)
  <2>1. UNCHANGED <<left, admin, back>> BY <1>6 DEF AdmitStatus, fs
  <2>2. PICK own \in OwnHead(j, native) :
           \/ UNCHANGED rec
           \/ Block(j, First(StatusReason(j, own), First(MarkReason(j), MoveReason(j))))
    BY <1>6 DEF AdmitStatus, MoveOut
  <2> DEFINE reason == First(StatusReason(j, own), First(MarkReason(j), MoveReason(j)))
  <2>3. reason \in Reason BY <2>2, OwnIs, Reasons DEF IInv, TypeOK, StepType
  <2>4. UNCHANGED rec \/ Block(j, reason) BY <2>2
  <2> HIDE DEF reason
  <2> QED BY <2>1, <2>3, <2>4, BlockMatched
<1> QED BY <1>1, <1>2, <1>3, <1>4, <1>5, <1>6

LEMMA DeleteMatched ==
    ASSUME IInv, Tidy, NEW j \in Job, Delete(j)
    PROVE  Matched
<1>1. CASE Unregister(j)
  <2>1. rec[j].phase \in Physical /\ UNCHANGED <<left, admin>>
    BY <1>1, MoveFacts DEF Unregister, MoveSteps
  <2>2. CASE Placed
    <3>1. UNCHANGED rec /\ back' = "empty" /\ Placed' BY <1>1, <2>1, <2>2 DEF Unregister, Placed
    <3> QED BY <2>1, <2>2, <3>1, HideMatched
  <2>3. CASE ~Placed BY <1>1, <2>1, <2>3, BlockMatched DEF Unregister, Reason
  <2> QED BY <2>2, <2>3
<1>2. CASE Rename(j) BY <1>2, BlockMatched DEF Rename, Reason
<1>3. CASE OpenRoot(j)
  <2>1. rec[j].phase \in Physical /\ UNCHANGED <<left, admin, back>>
    BY <1>3, MoveFacts DEF OpenRoot, fs
  <2>2. CASE UNCHANGED rec BY <2>1, <2>2, SameCalm, CalmMatched
  <2>3. CASE ~Placed /\ Enter(j, "done")
    <3>1. admin' = "gone" BY <2>1, <2>3 DEF Placed
    <3> QED BY <2>1, <2>3, <3>1, DoneMatched
  <2> QED BY <1>3, <2>2, <2>3 DEF OpenRoot
<1>4. CASE SliceTree(j)
  <2>1. rec[j].phase \in Physical /\ UNCHANGED <<admin, back>>
    BY <1>4, OpenFacts DEF SliceTree, Slices
  <2>2. CASE Block(j, "delete") /\ UNCHANGED left BY <2>1, <2>2, BlockMatched DEF Reason
  <2>3. CASE UNCHANGED rec /\ left > 0 /\ left' = left - 1 BY <2>1, <2>3, ShrinkMatched
  <2>4. left \in Nat BY SizeAssumption DEF IInv, TypeOK, TreeType, SizeAssumption
  <2> QED BY <1>4, <2>2, <2>3, <2>4 DEF SliceTree
<1>5. CASE SliceAdmin(j)
  <2>1. rec[j].phase \in Physical /\ UNCHANGED left BY <1>5, OpenFacts DEF SliceAdmin, Slices
  <2>2. CASE Block(j, "delete") /\ UNCHANGED <<admin, back>> BY <2>1, <2>2, BlockMatched DEF Reason
  <2>3. CASE Placed /\ admin' \in {admin, "partial"} /\ back' \in {back, "empty"} /\ UNCHANGED rec
    <3>1. Placed' BY <2>3 DEF Placed
    <3>2. CASE back' = "empty" BY <2>1, <2>3, <3>1, <3>2, HideMatched
    <3>3. CASE back' = back
      <4>1. Calm BY <2>3, SameCalm
      <4>2. [k \in Job |-> Stage(k)]' = [k \in Job |-> Stage(k)] BY <4>1 DEF Calm
      <4>3. Tree' = Tree /\ Registration' = Registration
        BY <2>1, <2>3, <3>1, <3>3 DEF Tree, Registration
      <4> QED BY <2>3, <4>2, <4>3 DEF Matched, Promise!vars, Tidy
    <3> QED BY <2>3, <3>2, <3>3
  <2>4. CASE admin' = "gone" /\ Enter(j, "done") BY <2>1, <2>4, DoneMatched
  <2> QED BY <1>5, <2>2, <2>3, <2>4 DEF SliceAdmin
<1>6. CASE ReadmitTree(j) \/ ReadmitAdmin(j)
  <2>1. RecheckReason(j) \in Reason /\ AdminReason(j) \in Reason
    <3>1. FALSE \in BOOLEAN OBVIOUS
    <3> QED BY <3>1, Reasons
  <2>2. UNCHANGED <<left, admin, back>> BY <1>6 DEF ReadmitTree, ReadmitAdmin, fs
  <2>3. UNCHANGED rec \/ Block(j, RecheckReason(j)) \/ Block(j, AdminReason(j))
    BY <1>6 DEF ReadmitTree, ReadmitAdmin, Parked, Readmitted
  <2> QED BY <2>1, <2>2, <2>3, BlockMatched
<1> QED BY <1>1, <1>2, <1>3, <1>4, <1>5, <1>6, AdmitMatched DEF Delete

\* What the user does to the tree and its registration is the owner's to do.
LEMMA UserMatched ==
    ASSUME IInv, Tidy, User
    PROVE  Matched
<1>1. UNCHANGED rec
  BY DEF User, Edit, EnterTree, LeaveTree, GitLock, GitUnlock, GitMove, MoveAway, MoveBack,
     DeleteTree, Prune, DropBranch, CommitWork, journal
<1>2. Calm /\ Tidy' BY <1>1, SameCalm DEF Tidy
<1>3. [k \in Job |-> Stage(k)]' = [k \in Job |-> Stage(k)] BY <1>2 DEF Calm
<1>4. CASE UNCHANGED <<left, admin, back>> BY <1>2, <1>4, CalmMatched
<1>5. CASE GitMove
  <2>1. Tree' = Tree /\ Registration' = Registration
    BY <1>5 DEF GitMove, Tree, Registration, Placed
  <2> QED BY <1>2, <1>3, <2>1 DEF Matched, Promise!vars
<1>6. CASE DeleteTree
  <2>1. Tree' = "gone" /\ Registration' = Registration /\ "delete" \in External
    BY <1>6, SizeAssumption DEF DeleteTree, Happens, Tree, Registration, Placed, SizeAssumption
  <2>2. Promise!OwnersDelete BY <1>3, <2>1 DEF Promise!OwnersDelete
  <2> QED BY <1>2, <2>2 DEF Matched, Promise!Next
<1>7. CASE Prune
  <2>1. Tree' = Tree /\ Registration' = "gone" /\ Placed /\ lock = "none"
    BY <1>7 DEF Prune, Prunable, Tree, Registration, Placed
  <2>2. CASE back # "empty"
    <3>1. Registration = "listed" BY <2>1, <2>2 DEF Registration
    <3>2. Promise!OwnersPrune BY <1>3, <2>1, <3>1 DEF Promise!OwnersPrune
    <3> QED BY <1>2, <3>2 DEF Matched, Promise!Next
  <2>3. CASE back = "empty"
    <3>1. PICK j \in Job : rec[j].phase \in Physical
      BY <2>1, <2>3, JobAssumption DEF IInv, Marker, HiddenIsOwned, JobAssumption
    <3>2. Registration = "hidden" BY <2>1, <2>3 DEF Registration
    <3>3. Stage(j) = "committed" BY <3>1, Stages
    <3>4. Promise!Forget BY <1>3, <2>1, <3>2, <3>3 DEF Promise!Forget
    <3> QED BY <1>2, <3>4 DEF Matched, Promise!Next
  <2> QED BY <2>2, <2>3
<1> QED BY <1>4, <1>5, <1>6, <1>7
    DEF User, Edit, EnterTree, LeaveTree, GitLock, GitUnlock, MoveAway, MoveBack, DropBranch,
        CommitWork

LEMMA NextMatched ==
    ASSUME IInv, IInv', Tidy, [Next]_vars
    PROVE  Matched
<1>1. ASSUME NEW j \in Job, Request(j) PROVE Matched BY <1>1, RequestMatched
<1>2. ASSUME NEW j \in Job, AutoRetry(j) \/ CancelUnlock(j) \/ CancelDiscard(j) PROVE Matched
  <2>1. CASE AutoRetry(j)
    BY <2>1, BlockCalm, CalmMatched DEF AutoRetry, Revive, Reason, fs
  <2>2. CASE CancelUnlock(j)
    BY <2>2, SameCalm, CalmMatched DEF CancelUnlock, journal
  <2>3. CASE CancelDiscard(j)
    <3>1. rec[j].phase \in Logical
      BY <2>3 DEF CancelDiscard, IInv, Control, LogicalStep, CancelSteps
    <3> QED BY <2>3, <3>1, DiscardMatched DEF CancelDiscard, fs
  <2> QED BY <1>2, <2>1, <2>2, <2>3
<1>3. ASSUME NEW j \in Job, Work(j) PROVE Matched
  BY <1>2, <1>3, ClaimMatched, RetireMatched, DeleteMatched DEF Work
<1>4. ASSUME NEW j \in Job, StepTimesOut(j) PROVE Matched
  BY <1>4, BlockMatched DEF StepTimesOut, Reason, fs
<1>5. CASE Switch \/ Park \/ Sample \/ Crash \/ UNCHANGED vars
  BY <1>5, SameCalm, CalmMatched
  DEF Switch, Pause, Resume, Take, Release, Publish, Park, Parked, Sample, Crash, vars, fs, journal
<1>6. CASE Reconcile \/ HourPasses
  <2>1. \A k \in Job : rec[k] \in Record BY DEF IInv, TypeOK, JournalType
  <2>2. \A k \in Job : rec'[k].phase = rec[k].phase /\ rec'[k].retirement = rec[k].retirement
    <3>1. CASE Reconcile BY <2>1, <3>1 DEF Reconcile, Record
    <3>2. CASE HourPasses BY <2>1, <3>2 DEF HourPasses, Record
    <3> QED BY <1>6, <3>1, <3>2
  <2>3. Calm BY <2>2, Stages DEF Calm, Tidy
  <2> QED BY <1>6, <2>3, CalmMatched DEF Reconcile, HourPasses, fs
<1>7. CASE User BY <1>7, UserMatched
<1> QED BY <1>1, <1>3, <1>4, <1>5, <1>6, <1>7 DEF Next

\* Whatever the user, git and crashes do, and for every number of rival removals,
\* the worker implements the promise: the tree shrinks only to a removal that has
\* committed, nothing stays hidden that no removal answers for, and a removal
\* withdrawn or done leaves the registration as promised.
THEOREM PromiseKept == Spec => KeepsPromise
<1>1. Init => Tidy
  <2> SUFFICES ASSUME Init, NEW j \in Job PROVE rec[j].retirement = "" BY DEF Tidy
  <2> QED BY DEF Init, Absent
<1>2. Init => Promise!Init
  <2> SUFFICES ASSUME Init PROVE Promise!Init OBVIOUS
  <2>1. \A j \in Job : Stage(j) = "none" BY Stages DEF Init, Absent
  <2>2. Tree = "whole" /\ Registration = "listed" BY DEF Init, Tree, Registration, Placed
  <2> QED BY <2>1, <2>2 DEF Promise!Init
<1>3. IInv /\ IInv' /\ Tidy /\ [Next]_vars => Tidy' /\ [Promise!Next]_(Promise!vars)
  BY NextMatched DEF Matched
<1> QED BY <1>1, <1>2, <1>3, Invariance, PTL DEF Spec, KeepsPromise, Promise!Spec
===============================================================================
