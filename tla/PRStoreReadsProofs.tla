--------------------------- MODULE PRStoreReadsProofs ---------------------------
(***************************************************************************)
(* What the reads of the pull request store are told, for any number of    *)
(* processes, pull requests and lanes: a record is as recent as its read   *)
(* asked for, what is said to be missing was, and a push is told of until  *)
(* GitHub shows it, in whatever order polls are claimed, served and land.  *)
(***************************************************************************)
EXTENDS PRStoreProofs

Answers     == [kind : {"none"} \cup Causes, prs : PRRecords, lanes : LaneListings]
PushesNoted == [head : 0 .. MaxHead, stamp : Instant, shown : BOOLEAN, lacked : BOOLEAN]

(* GitHub has the pull request, and no poll under way was told otherwise. *)
Found(n) == heads[n] # 0 /\ \A q \in Process : n \notin reply[q].missing

(* The latest push of `n' is still to be told of. *)
Standing(n) == clock < pushes[n].stamp + PushLag /\ ~pushes[n].lacked

(* The record of the latest push of `n' is on file. *)
Recorded(prs, n) ==
    /\ n \in DOMAIN prs /\ pushes[n].head # 0
    /\ prs[n].pushedHead = pushes[n].head /\ prs[n].pushedAt = pushes[n].stamp

(* A record is of what GitHub showed since its poll began. *)
Sound(prs) == \A n \in DOMAIN prs :
    prs[n].seen >= prs[n].polledAt /\ (prs[n].settled => n \in squashed)

(* A record that answers the read of process `p', but for its age. *)
Reaches(prs, p, n) == n \in DOMAIN prs /\ prs[n].polledAt >= want[p].after

Recent(prs, p, n) ==
    /\ Reaches(prs, p, n)
    /\ n \in squashed \/ prs[n].polledAt > asked[p] - MaxAge(want[p])

(* The pull requests the read of process `p' is to be told of. *)
Wanted(p) == want[p].prs \ lacked[p]

Lacked(p) == Prompt(p) => lacked[p] \cap want[p].prs # {}

(* What all processes share: nothing on file is of the future, and a push  *)
(* is on file, under a lease, until a poll has shown it.                   *)
Shared ==
    /\ pushes \in [PR -> PushesNoted]
    /\ \A n \in PR : shown[n] = 0 <=> heads[n] = 0
    /\ Sound(file.prs)
    /\ \A n \in PR : pushes[n].stamp <= clock
    /\ \A n \in PR : Standing(n) =>
         /\ Found(n) /\ lease.prs[n] >= pushes[n].stamp
         /\ ~pushes[n].shown => Recorded(file.prs, n)

(* The instants a process holds are in the order it read them. *)
Timed(p) ==
    /\ asked[p] <= clock /\ now[p] <= clock /\ want[p].after <= asked[p]
    /\ pc[p] \in {"probe", "claim", "poll", "land"} => asked[p] <= now[p]
    /\ want[p].prs # {} => asked[p] # Never

(* What it asks for, and why. *)
Asks(p) ==
    /\ pc[p] = "idle" => want[p].prs = {} /\ job[p].cause = "ok"
    /\ pc[p] # "done" => answer[p].kind = "none"
    /\ pc[p] = "over" \/ job[p].kind = "rest" => job[p].cause # "ok"
    /\ job[p].cause = "missing" => Lacked(p)

(* What GitHub answered it. *)
Told(p) ==
    pc[p] = "land" =>
      /\ \A n \in DOMAIN reply[p].prs :
           reply[p].prs[n].seen >= now[p] /\ (reply[p].prs[n].settled => n \in squashed)
      /\ reply[p].outcome \in {"ok", "low"} =>
           job[p].prs \subseteq DOMAIN reply[p].prs \cup reply[p].missing

(* What it reads or pushes exists, under a lease no older than the read or *)
(* the push.                                                               *)
Leased(p) ==
    /\ \A n \in Wanted(p) : Found(n)
    /\ Prompt(p) => \A n \in Wanted(p) : lease.prs[n] >= asked[p]
    /\ pc[p] \in {"pushed", "mark"} => \A n \in job[p].prs \ lacked[p] : Found(n)
    /\ pc[p] = "mark" /\ clock < now[p] + PushLag =>
         \A n \in job[p].prs \ lacked[p] : lease.prs[n] >= now[p]

(* What it does not ask for is on file. *)
Covered(p) ==
    pc[p] \in {"poll", "land"} /\ Prompt(p) =>
      \A n \in Wanted(p) \ job[p].prs : Recent(file.prs, p, n)

Held(p) == Timed(p) /\ Asks(p) /\ Told(p) /\ Leased(p) /\ Covered(p)

HeldTypes == /\ asked \in [Process -> Instant] /\ answer \in [Process -> Answers]
             /\ lacked \in [Process -> SUBSET PR]

ReadsInv == HeldTypes /\ Shared /\ \A p \in Process : Held(p)

-----------------------------------------------------------------------------
(* Merging what a poll read.                                               *)

LEMMA Spans ==
    /\ PushLag \in Nat \ {0} /\ PushLag <= LeaseTTL /\ PushLag < Epoch /\ LeaseTTL < Epoch
    /\ KeepFor \in Nat \ {0}
BY TimeAssumption DEF TimeAssumption

LEMMA BesideSound ==
    ASSUME NEW rec \in Records, NEW was \in Records, NEW t \in Instant
    PROVE  /\ Beside(rec, was, t).seen = rec.seen /\ Beside(rec, was, t).settled = rec.settled
           /\ Beside(rec, was, t).head = rec.head
           /\ was.pushedHead # 0 /\ rec.head # was.pushedHead /\ t - was.pushedAt < PushLag =>
                /\ Beside(rec, was, t).pushedHead = was.pushedHead
                /\ Beside(rec, was, t).pushedAt = was.pushedAt
BY DEF Beside, Records

(* A record of a merge is the one that was there, or the one just read.    *)
LEMMA MergeFrom ==
    ASSUME NEW prs \in PRRecords, NEW r \in Replies, NEW t \in Instant,
           NEW n \in DOMAIN Merge(prs, r, t)
    PROVE  \/ n \in DOMAIN prs /\ Merge(prs, r, t)[n] = prs[n]
           \/ /\ n \in DOMAIN r.prs /\ r.prs[n] \in Records
              /\ Merge(prs, r, t)[n] = Beside(r.prs[n], Was(prs, n), t)
<1>1. r.prs \in PRRecords
    BY DEF Replies
<1> QED BY <1>1, RecordsPartial DEF Merge

LEMMA MergeSound ==
    ASSUME NEW prs \in PRRecords, NEW r \in Replies, NEW t \in Instant, Sound(prs),
           \A n \in DOMAIN r.prs : r.prs[n].seen >= t /\ (r.prs[n].settled => n \in squashed)
    PROVE  Sound(Merge(prs, r, t))
<1> SUFFICES ASSUME NEW n \in DOMAIN Merge(prs, r, t)
             PROVE  /\ Merge(prs, r, t)[n].seen >= Merge(prs, r, t)[n].polledAt
                    /\ Merge(prs, r, t)[n].settled => n \in squashed
    BY DEF Sound
<1>1. CASE n \in DOMAIN prs /\ Merge(prs, r, t)[n] = prs[n]
    BY <1>1 DEF Sound
<1>2. CASE /\ n \in DOMAIN r.prs /\ r.prs[n] \in Records
           /\ Merge(prs, r, t)[n] = Beside(r.prs[n], Was(prs, n), t)
  <2>1. Was(prs, n) \in Records
      BY WasType
  <2>2. /\ Beside(r.prs[n], Was(prs, n), t).seen = r.prs[n].seen
        /\ Beside(r.prs[n], Was(prs, n), t).settled = r.prs[n].settled
        /\ Beside(r.prs[n], Was(prs, n), t).polledAt = t
      BY <1>2, <2>1, BesideSound, BesideType
  <2>3. r.prs[n].seen >= t /\ (r.prs[n].settled => n \in squashed)
      BY <1>2
  <2> QED BY <1>2, <2>2, <2>3
<1> QED BY <1>1, <1>2, MergeFrom

(* What is not missing stays, and what was read is no older than the poll. *)
LEMMA MergeHolds ==
    ASSUME NEW prs \in PRRecords, NEW r \in Replies, NEW t \in Instant, NEW n, n \notin r.missing
    PROVE  /\ n \in DOMAIN prs => n \in DOMAIN Merge(prs, r, t)
           /\ n \in DOMAIN r.prs =>
                n \in DOMAIN Merge(prs, r, t) /\ Merge(prs, r, t)[n].polledAt >= t
<1>1. r.prs \in PRRecords /\ t \in Nat
    BY Times DEF Replies
<1>2. n \in DOMAIN prs => n \in DOMAIN Merge(prs, r, t)
    BY DEF Merge, Gone
<1>3. ASSUME n \in DOMAIN r.prs
      PROVE  n \in DOMAIN Merge(prs, r, t) /\ Merge(prs, r, t)[n].polledAt >= t
  <2>1. Was(prs, n) \in Records /\ Was(prs, n).polledAt \in Nat /\ r.prs[n] \in Records
      BY <1>1, <1>3, WasType, RecordsPartial, Times DEF Records
  <2>2. CASE Was(prs, n).polledAt <= t
    <3>1. n \in DOMAIN Merge(prs, r, t) /\ Merge(prs, r, t)[n] = Beside(r.prs[n], Was(prs, n), t)
        BY <1>3, <2>2 DEF Merge, Gone
    <3>2. Beside(r.prs[n], Was(prs, n), t).polledAt = t
        BY <2>1, BesideType
    <3> QED BY <1>1, <3>1, <3>2
  <2>3. CASE ~(Was(prs, n).polledAt <= t)
    <3>1. Was(prs, n).polledAt > t /\ Was(prs, n) # NoRecord
        BY <1>1, <2>1, <2>3, Times DEF NoRecord
    <3>2. n \in DOMAIN prs /\ Was(prs, n) = prs[n]
        BY <3>1 DEF Was
    <3>3. n \in DOMAIN Merge(prs, r, t) /\ Merge(prs, r, t)[n] = prs[n]
      <4> DEFINE taken == {m \in DOMAIN r.prs : Was(prs, m).polledAt <= t}
                 D == (DOMAIN prs \cup taken) \ Gone(prs, r, t)
                 val(m) == IF m \in taken THEN Beside(r.prs[m], Was(prs, m), t) ELSE prs[m]
      <4>1. n \notin taken /\ n \in D
          BY <2>3, <3>2 DEF Gone
      <4>2. Merge(prs, r, t) = [m \in D |-> val(m)] /\ val(n) = prs[n]
          BY <4>1 DEF Merge
      <4> HIDE DEF D, val
      <4> QED BY <4>1, <4>2
    <3> QED BY <1>1, <2>1, <3>1, <3>2, <3>3
  <2> QED BY <2>2, <2>3
<1> QED BY <1>2, <1>3

(* A push is kept beside what was read, unless that shows it.              *)
LEMMA MergePush ==
    ASSUME NEW prs \in PRRecords, NEW r \in Replies, NEW t \in Instant,
           NEW n \in DOMAIN prs \cap DOMAIN Merge(prs, r, t),
           prs[n].pushedHead # 0, t < prs[n].pushedAt + PushLag
    PROVE  \/ /\ Merge(prs, r, t)[n].pushedHead = prs[n].pushedHead
              /\ Merge(prs, r, t)[n].pushedAt = prs[n].pushedAt
           \/ Merge(prs, r, t)[n].head = prs[n].pushedHead
<1>1. prs[n] \in Records /\ Was(prs, n) = prs[n] /\ prs[n].pushedAt \in Nat /\ t \in Nat
    BY RecordsPartial, Times DEF Was, Records
<1>2. CASE n \in DOMAIN r.prs /\ r.prs[n] \in Records
           /\ Merge(prs, r, t)[n] = Beside(r.prs[n], prs[n], t)
  <2>1. t - prs[n].pushedAt < PushLag
      BY <1>1, Spans
  <2>2. CASE r.prs[n].head # prs[n].pushedHead
      BY <1>1, <1>2, <2>1, <2>2, BesideSound
  <2>3. CASE r.prs[n].head = prs[n].pushedHead
      BY <1>1, <1>2, <2>3, BesideSound
  <2> QED BY <2>2, <2>3
<1> QED BY <1>1, <1>2, MergeFrom

(* A lease that holds keeps what it is taken for.                          *)
LEMMA AbsorbHolds ==
    ASSUME NEW st \in Files, NEW r \in Replies, NEW t \in Instant, lease \in LeaseFiles,
           NEW n \in PR, NEW b \in Nat \ {0}, lease.prs[n] >= b, t < b + LeaseTTL,
           n \notin r.missing
    PROVE  /\ AbsorbLeases(st, r, t).prs[n] >= b
           /\ n \in DOMAIN Merge(st.prs, r, t) => n \in DOMAIN Absorb(st, r, t).prs
<1> DEFINE found == UNION {r.lanes[l] : l \in Listed(st, r, t)}
           raised == IF n \in found /\ lease.prs[n] < t THEN t ELSE lease.prs[n]
<1>1. lease.prs[n] \in Nat /\ t \in Nat /\ LeaseTTL \in Nat /\ Never = 0
    BY Times DEF LeaseFiles
<1>2. AbsorbLeases(st, r, t).prs[n] = IF n \in Gone(st.prs, r, t) \/ Expired(raised, t)
                                      THEN Never ELSE raised
    BY DEF AbsorbLeases
<1>3. n \notin Gone(st.prs, r, t)
    BY DEF Gone
<1> HIDE DEF found
<1>4. raised \in Nat /\ raised >= b
    BY <1>1
<1> HIDE DEF raised
<1>5. ~Expired(raised, t)
    BY <1>1, <1>4 DEF Expired
<1>6. AbsorbLeases(st, r, t).prs[n] >= b
    BY <1>2, <1>3, <1>4, <1>5
<1>7. AbsorbLeases(st, r, t).prs[n] # Never
    BY <1>1, <1>2, <1>3, <1>4, <1>5
<1> QED BY <1>6, <1>7 DEF Absorb, Files

LEMMA AbsorbFrom ==
    ASSUME NEW st \in Files, NEW r, NEW t, NEW n \in DOMAIN Absorb(st, r, t).prs
    PROVE  n \in DOMAIN Merge(st.prs, r, t) /\ Absorb(st, r, t).prs[n] = Merge(st.prs, r, t)[n]
BY DEF Absorb, Files

-----------------------------------------------------------------------------
(* What the steps leave to the other processes.                            *)

(* What is on file when a poll lands is what was merged, and of that every *)
(* record under a lease that holds.                                        *)
LEMMA LandForm ==
    ASSUME TypeInv, NEW p \in Process, Land(p) \/ LandRest(p)
    PROVE  LET merged == Merge(file.prs, reply[p], now[p])
           IN  \/ file'.prs = file.prs /\ lease' = lease /\ reply[p].outcome \notin {"ok", "low"}
               \/ /\ \A n \in DOMAIN file'.prs : n \in DOMAIN merged /\ file'.prs[n] = merged[n]
                  /\ \A n \in PR, b \in Nat \ {0} :
                       lease.prs[n] >= b /\ now[p] < b + LeaseTTL /\ n \notin reply[p].missing =>
                         lease'.prs[n] >= b /\ (n \in DOMAIN merged => n \in DOMAIN file'.prs)
<1> DEFINE r == reply[p]  t == now[p]  merged == Merge(file.prs, r, t)
           Form == /\ \A n \in DOMAIN file'.prs : n \in DOMAIN merged /\ file'.prs[n] = merged[n]
                   /\ \A n \in PR, b \in Nat \ {0} :
                        lease.prs[n] >= b /\ t < b + LeaseTTL /\ n \notin r.missing =>
                          lease'.prs[n] >= b /\ (n \in DOMAIN merged => n \in DOMAIN file'.prs)
<1>1. file \in Files /\ r \in Replies /\ t \in Instant /\ lease \in LeaseFiles
    BY Times DEF TypeInv, StoreType, NowType, ReplyType
<1>2. CASE Land(p) /\ r.outcome \in {"ok", "low"}
  <2>1. file' = Absorb(file, r, t) /\ lease' = AbsorbLeases(file, r, t)
      BY <1>2 DEF Land, Landed
  <2> HIDE DEF r, t
  <2>2. \A n \in DOMAIN file'.prs : n \in DOMAIN merged /\ file'.prs[n] = merged[n]
      BY <1>1, <2>1, AbsorbFrom
  <2>3. ASSUME NEW n \in PR, NEW b \in Nat \ {0},
               lease.prs[n] >= b, t < b + LeaseTTL, n \notin r.missing
        PROVE  lease'.prs[n] >= b /\ (n \in DOMAIN merged => n \in DOMAIN file'.prs)
      BY <1>1, <2>1, <2>3, AbsorbHolds
  <2>4. Form
      BY <2>2, <2>3
  <2> QED BY <2>4 DEF r, t
<1>3. CASE Land(p) /\ r.outcome \notin {"ok", "low"}
  <2> DEFINE s == IF r.outcome = "limited" THEN [file EXCEPT !.backoff = Refused(t, t)]
                  ELSE IF Blamed(p, t) THEN [file EXCEPT !.failure = t] ELSE file
  <2>1. file' = [s EXCEPT !.prs = Merge(s.prs, r, t)] /\ lease' = lease
      BY <1>3 DEF Land, Landed
  <2>2. s.prs = file.prs /\ DOMAIN s = DOMAIN file
      BY <1>1 DEF Files
  <2>3. file'.prs = merged
      BY <1>1, <2>1, <2>2 DEF Files
  <2> HIDE DEF s, merged, r, t
  <2>4. Form
      BY <2>1, <2>3
  <2> QED BY <2>4 DEF merged, r, t
<1>4. CASE LandRest(p) /\ r.outcome \in {"ok", "low"}
  <2>1. /\ file' = [file EXCEPT !.prs = merged, !.rest = NoBackoff]
        /\ lease' = [lease EXCEPT !.prs =
                       [n \in PR |-> IF n \in Gone(file.prs, r, t) THEN Never ELSE lease.prs[n]]]
      BY <1>4 DEF LandRest
  <2>2. \A n : n \notin r.missing => n \notin Gone(file.prs, r, t)
      BY DEF Gone
  <2>3. file'.prs = merged
      BY <1>1, <2>1 DEF Files
  <2>4. \A n \in PR : n \notin r.missing => lease'.prs[n] = lease.prs[n]
      BY <1>1, <2>1, <2>2 DEF LeaseFiles
  <2> HIDE DEF merged, r, t
  <2>5. Form
      BY <2>3, <2>4
  <2> QED BY <2>5 DEF merged, r, t
<1>5. CASE LandRest(p) /\ r.outcome \notin {"ok", "low"}
    BY <1>1, <1>5 DEF LandRest, Files
<1> QED BY <1>2, <1>3, <1>4, <1>5

(* A poll that lands keeps the records and the leases of what it did not   *)
(* find missing, and the pushes it does not show.                          *)
LEMMA LandKeeps ==
    ASSUME TypeInv, ReadsInv, NEW p \in Process, Land(p) \/ LandRest(p)
    PROVE  /\ Sound(file'.prs)
           /\ \A n \in PR, b \in Nat \ {0} :
                Found(n) /\ lease.prs[n] >= b /\ clock < b + LeaseTTL =>
                  /\ lease'.prs[n] >= b
                  /\ n \in DOMAIN file.prs => n \in DOMAIN file'.prs
                  /\ n \in DOMAIN reply[p].prs /\ reply[p].outcome \in {"ok", "low"} =>
                       n \in DOMAIN file'.prs /\ file'.prs[n].polledAt >= now[p]
<1> DEFINE r == reply[p]  t == now[p]  merged == Merge(file.prs, r, t)
<1>1. /\ file.prs \in PRRecords /\ r \in Replies /\ t \in Instant /\ t \in Nat /\ clock \in Nat
      /\ lease \in LeaseFiles /\ pc[p] = "land"
    BY Times DEF Land, LandRest, TypeInv, StoreType, NowType, ReplyType, Files
<1>2. /\ Sound(file.prs) /\ t <= clock
      /\ \A n \in DOMAIN r.prs : r.prs[n].seen >= t /\ (r.prs[n].settled => n \in squashed)
    BY <1>1 DEF ReadsInv, Shared, Held, Timed, Told
<1>3. CASE file'.prs = file.prs /\ lease' = lease /\ r.outcome \notin {"ok", "low"}
    BY <1>2, <1>3
<1>4. CASE /\ \A n \in DOMAIN file'.prs : n \in DOMAIN merged /\ file'.prs[n] = merged[n]
           /\ \A n \in PR, b \in Nat \ {0} :
                lease.prs[n] >= b /\ t < b + LeaseTTL /\ n \notin r.missing =>
                  lease'.prs[n] >= b /\ (n \in DOMAIN merged => n \in DOMAIN file'.prs)
  <2> HIDE DEF r, t
  <2>1. Sound(merged)
      BY <1>1, <1>2, MergeSound
  <2>2. Sound(file'.prs)
      BY <1>4, <2>1 DEF Sound
  <2>3. ASSUME NEW n \in PR, NEW b \in Nat \ {0}, Found(n), lease.prs[n] >= b,
               clock < b + LeaseTTL
        PROVE  /\ lease'.prs[n] >= b
               /\ n \in DOMAIN file.prs => n \in DOMAIN file'.prs
               /\ n \in DOMAIN r.prs => n \in DOMAIN file'.prs /\ file'.prs[n].polledAt >= t
    <3>1. n \notin r.missing
        BY <2>3 DEF Found, r
    <3>2. /\ n \in DOMAIN file.prs => n \in DOMAIN merged
          /\ n \in DOMAIN r.prs => n \in DOMAIN merged /\ merged[n].polledAt >= t
        BY <1>1, <3>1, MergeHolds
    <3>3. t < b + LeaseTTL
        BY <1>1, <1>2, <2>3, Times
    <3> HIDE DEF merged
    <3> QED BY <1>4, <2>3, <3>1, <3>2, <3>3
  <2> QED BY <2>2, <2>3 DEF r, t
<1> QED BY <1>3, <1>4, LandForm

LEMMA NotedType ==
    ASSUME pushes \in [PR -> PushesNoted], NEW prs, Noted(prs), NEW n \in PR
    PROVE  /\ pushes'[n] \in PushesNoted
           /\ pushes'[n].head = pushes[n].head /\ pushes'[n].stamp = pushes[n].stamp
           /\ pushes'[n].lacked = pushes[n].lacked
           /\ pushes[n].shown \/ (n \in DOMAIN prs /\ prs[n].head >= pushes[n].head)
                <=> pushes'[n].shown
<1> DEFINE seen == pushes[n].shown \/ (n \in DOMAIN prs /\ prs[n].head >= pushes[n].head)
<1>1. pushes'[n] = [pushes[n] EXCEPT !.shown = seen] /\ pushes[n] \in PushesNoted
    BY DEF Noted
<1>2. seen \in BOOLEAN
    BY <1>1 DEF PushesNoted
<1> HIDE DEF seen
<1>3. /\ pushes'[n] \in PushesNoted
      /\ pushes'[n].head = pushes[n].head /\ pushes'[n].stamp = pushes[n].stamp
      /\ pushes'[n].lacked = pushes[n].lacked /\ pushes'[n].shown = seen
    BY <1>1, <1>2 DEF PushesNoted
<1>4. seen <=> pushes'[n].shown
    BY <1>2, <1>3
<1> QED BY <1>3, <1>4 DEF seen

LEMMA LandPushes ==
    ASSUME TypeInv, ReadsInv, NEW p \in Process, Land(p) \/ LandRest(p), NEW n \in PR
    PROVE  /\ pushes'[n] \in PushesNoted
           /\ pushes'[n].head = pushes[n].head /\ pushes'[n].stamp = pushes[n].stamp
           /\ pushes'[n].lacked = pushes[n].lacked /\ (~pushes'[n].shown => ~pushes[n].shown)
           /\ /\ Recorded(file.prs, n) /\ clock < pushes[n].stamp + PushLag
              /\ n \in DOMAIN file'.prs /\ ~pushes'[n].shown
              => /\ file'.prs[n].pushedHead = pushes[n].head
                 /\ file'.prs[n].pushedAt = pushes[n].stamp
<1> DEFINE r == reply[p]  t == now[p]  merged == Merge(file.prs, r, t)
<1>1. /\ file.prs \in PRRecords /\ r \in Replies /\ t \in Instant /\ t \in Nat /\ clock \in Nat
      /\ t <= clock /\ pushes \in [PR -> PushesNoted]
    BY Times DEF TypeInv, StoreType, NowType, ReplyType, Files, ReadsInv, Shared, Held, Timed
<1>2. Noted(file'.prs)
    BY DEF Land, LandRest
<1>3. /\ pushes'[n] \in PushesNoted
      /\ pushes'[n].head = pushes[n].head /\ pushes'[n].stamp = pushes[n].stamp
      /\ pushes'[n].lacked = pushes[n].lacked
      /\ pushes[n].shown \/ (n \in DOMAIN file'.prs /\ file'.prs[n].head >= pushes[n].head)
           <=> pushes'[n].shown
    BY <1>1, <1>2, NotedType
<1>4. ASSUME Recorded(file.prs, n), clock < pushes[n].stamp + PushLag,
             n \in DOMAIN file'.prs, ~pushes'[n].shown
      PROVE  file'.prs[n].pushedHead = pushes[n].head /\ file'.prs[n].pushedAt = pushes[n].stamp
  <2>1. /\ n \in DOMAIN file.prs /\ pushes[n].head # 0 /\ pushes[n].head \in Nat
        /\ file.prs[n].pushedHead = pushes[n].head /\ file.prs[n].pushedAt = pushes[n].stamp
        /\ pushes[n].stamp \in Nat
    <3>1. pushes[n] \in PushesNoted
        BY <1>1
    <3>2. pushes[n].head \in 0 .. MaxHead /\ pushes[n].stamp \in Instant
        BY <3>1 DEF PushesNoted
    <3>3. pushes[n].head \in Nat
        BY <3>2
    <3>4. pushes[n].stamp \in Nat
        BY <3>2, Times
    <3> QED BY <1>4, <3>3, <3>4 DEF Recorded
  <2>2. CASE file'.prs = file.prs
      BY <2>1, <2>2
  <2>3. CASE n \in DOMAIN merged /\ file'.prs[n] = merged[n]
    <3>1. t < file.prs[n].pushedAt + PushLag
        BY <1>1, <1>4, <2>1, Spans
    <3> HIDE DEF r, t
    <3>2. \/ /\ merged[n].pushedHead = file.prs[n].pushedHead
             /\ merged[n].pushedAt = file.prs[n].pushedAt
          \/ merged[n].head = file.prs[n].pushedHead
        BY <1>1, <2>1, <2>3, <3>1, MergePush
    <3> HIDE DEF merged
    <3>3. merged[n].head # file.prs[n].pushedHead
        BY <1>3, <1>4, <2>1, <2>3
    <3> QED BY <2>1, <2>3, <3>2, <3>3
  <2> QED BY <1>4, <2>2, <2>3, LandForm
<1> QED BY <1>3, <1>4

-----------------------------------------------------------------------------
(* Time passes, GitHub forgets nothing, and what is leased is kept.        *)

Grows ==
    /\ clock \in Nat /\ clock' \in Nat /\ clock <= clock' /\ squashed \subseteq squashed'
    /\ \A n \in PR : shown'[n] = 0 <=> heads'[n] = 0
    /\ \A n \in PR : Found(n) => Found(n)'

(* What was leased by an instant `b' of the past is still, and is on file. *)
Lasts ==
    \A n \in PR, b \in Nat \ {0} :
      Found(n) /\ lease.prs[n] >= b /\ b <= clock /\ clock' < b + LeaseTTL =>
        /\ lease'.prs[n] >= b
        /\ n \in DOMAIN file.prs => n \in DOMAIN file'.prs

LEMMA NoReplyMisses == NoReply.missing = {}
BY DEF NoReply

LEMMA FoundKept ==
    ASSUME TypeInv, heads' = heads, shown' = shown, Shared,
           reply' = reply \/ \E p \in Process : reply' = [reply EXCEPT ![p] = NoReply]
    PROVE  /\ \A n \in PR : shown'[n] = 0 <=> heads'[n] = 0
           /\ \A n \in PR : Found(n) => Found(n)'
<1>1. reply \in [Process -> Replies]
    BY DEF TypeInv, ReplyType
<1>2. \A q \in Process, n \in PR : n \notin reply[q].missing => n \notin reply'[q].missing
    BY <1>1, NoReplyMisses
<1> QED BY <1>2 DEF Found, Shared

LEMMA GrowsStep == ASSUME TypeInv, ReadsInv, [Next]_vars PROVE Grows
<1>1. /\ clock \in Nat /\ heads \in [PR -> 0 .. MaxHead] /\ shown \in [PR -> 0 .. MaxHead]
      /\ reply \in [Process -> Replies]
    BY Times DEF TypeInv, GitHubType, ReplyType
<1>2. \A n \in PR : shown[n] = 0 <=> heads[n] = 0
    BY DEF ReadsInv, Shared
<1>3. /\ clock' = clock \/ clock' = clock + 1
      /\ squashed \subseteq squashed'
  <2>1. CASE World \/ UNCHANGED vars
      BY <2>1 DEF World, Show, OpenPR, Squash, TimePasses, vars, github
  <2>2. ASSUME NEW p \in Process, Leave(p)
        PROVE  clock' = clock /\ squashed' = squashed
      BY <2>2 DEF Leave, github
  <2>3. ASSUME NEW p \in Process, Step(p)
        PROVE  (clock' = clock \/ clock' = clock + 1) /\ squashed' = squashed
      BY <2>3 DEF Step, Begin, Look, Cut, Claim, Over, Probe, Serve, Land, LandRest, Miss, GitPush,
                  Renew, Mark, Tick, github
  <2> QED BY <2>1, <2>2, <2>3 DEF Next
<1> DEFINE Same == /\ \A n \in PR : shown'[n] = 0 <=> heads'[n] = 0
                   /\ \A n \in PR : Found(n) => Found(n)'
<1>4. ASSUME NEW p \in Process, NEW o \in Outcomes, NEW g \in Graphite, Serve(p, o, g) PROVE Same
  <2>1. heads' = heads /\ shown' = shown
      BY <1>4 DEF Serve, github
  <2>2. PICK m : m.missing \subseteq {n \in job[p].prs : shown[n] = 0}
                 /\ reply' = [reply EXCEPT ![p] = m]
      BY <1>4 DEF Serve
  <2>3. \A q \in Process, n \in PR :
          heads[n] # 0 /\ n \notin reply[q].missing => n \notin reply'[q].missing
      BY <1>1, <1>2, <2>2
  <2> QED BY <1>2, <2>1, <2>3 DEF Found
<1>5. ASSUME NEW p \in Process, NEW n \in PR, GitPush(p, n) PROVE Same
  <2>1. /\ heads' = [heads EXCEPT ![n] = heads[n] + 1] /\ heads[n] # 0 /\ reply' = reply
        /\ shown' = shown \/ shown' = heads'
      BY <1>5 DEF GitPush
  <2>2. heads'[n] # 0
      BY <1>1, <2>1
  <2>3. \A m \in PR : heads[m] # 0 <=> heads'[m] # 0
      BY <1>1, <2>1, <2>2
  <2> QED BY <1>2, <2>1, <2>3 DEF Found
<1>6. ASSUME \E p \in Process : \/ \E w \in Wants : Begin(p, w)
                                \/ \E o \in Outcomes : Probe(p, o)
                                \/ Look(p) \/ Cut(p) \/ Claim(p) \/ Over(p) \/ Land(p) \/ LandRest(p)
                                \/ Miss(p) \/ Renew(p) \/ Mark(p) \/ Leave(p)
      PROVE  Same
  <2>1. /\ heads' = heads /\ shown' = shown
        /\ reply' = reply \/ \E p \in Process : reply' = [reply EXCEPT ![p] = NoReply]
      BY <1>6 DEF Begin, Look, Cut, Claim, Over, Probe, Land, LandRest, Miss, Renew, Mark, Leave,
                  github, sent
  <2> QED BY <2>1, FoundKept DEF ReadsInv
<1>7. ASSUME World \/ UNCHANGED vars PROVE Same
  <2>1. /\ reply' = reply
        /\ \/ heads' = heads /\ shown' = shown
           \/ \E n \in PR : heads' = heads /\ shown' = [shown EXCEPT ![n] = heads[n]]
           \/ \E n \in PR : /\ heads[n] = 0 /\ heads' = [heads EXCEPT ![n] = 1]
                            /\ shown' = [shown EXCEPT ![n] = 1]
      BY <1>7 DEF World, Show, OpenPR, Squash, TimePasses, vars, sent, github
  <2> QED BY <1>1, <1>2, <2>1 DEF Found
<1>8. Same
    BY <1>4, <1>5, <1>6, <1>7 DEF Next, Step
<1> QED BY <1>1, <1>3, <1>8 DEF Grows

LEMMA RenewedLasts ==
    ASSUME TypeInv, NEW prs, NEW lanes, lease' = Renewed(prs, lanes, clock'), clock' = clock + 1,
           NEW n \in PR, NEW b \in Nat, lease.prs[n] >= b, b <= clock
    PROVE  lease'.prs[n] >= b /\ (n \in prs => lease'.prs[n] = clock')
<1>1. clock \in Nat /\ lease.prs[n] \in Nat
    BY Times DEF TypeInv, StoreType, LeaseFiles
<1>2. lease'.prs[n] = IF n \in prs THEN clock' ELSE lease.prs[n]
    BY DEF Renewed
<1> QED BY <1>1, <1>2

LEMMA LastsStep == ASSUME TypeInv, ReadsInv, [Next]_vars PROVE Lasts
<1>1. ASSUME lease' = lease, DOMAIN file.prs \subseteq DOMAIN file'.prs PROVE Lasts
    BY <1>1 DEF Lasts
<1>2. ASSUME NEW prs, NEW lanes, lease' = Renewed(prs, lanes, clock'), Tick, file' = file
      PROVE  Lasts
    BY <1>2, RenewedLasts DEF Lasts, Tick
<1>3. ASSUME NEW p \in Process, Land(p) \/ LandRest(p) PROVE Lasts
  <2>1. clock' = clock
      BY <1>3 DEF Land, LandRest
  <2> QED BY <1>3, <2>1, LandKeeps DEF Lasts
<1>4. ASSUME NEW p \in Process, Mark(p) PROVE Lasts
  <2>1. lease' = lease
      BY <1>4 DEF Mark
  <2> QED BY <1>1, <1>4, <2>1, MarkKeeps
<1>5. ASSUME NEW p \in Process, (\E w \in Wants : Begin(p, w)) \/ Renew(p) PROVE Lasts
    BY <1>2, <1>5 DEF Begin, Renew
<1>6. ASSUME NEW p \in Process, \/ \E o \in Outcomes : Probe(p, o)
                                \/ \E o \in Outcomes, g \in Graphite : Serve(p, o, g)
                                \/ \E n \in PR : GitPush(p, n)
                                \/ Look(p) \/ Cut(p) \/ Claim(p) \/ Over(p) \/ Miss(p) \/ Leave(p)
      PROVE  Lasts
  <2>1. lease' = lease
      BY <1>6 DEF Look, Cut, Claim, Over, Probe, Serve, Miss, GitPush, Leave
  <2>2. file'.prs = file.prs
    <3>1. file \in Files
        BY DEF TypeInv, StoreType
    <3>2. \/ file' = file
          \/ file' = [file EXCEPT !.attemptedAt = now[p], !.failure = Never]
          \/ \E b : file' = [file EXCEPT !.backoff = b]
        BY <1>6 DEF Look, Cut, Claim, Over, Probe, Serve, Miss, GitPush, Leave
    <3> QED BY <3>1, <3>2 DEF Files
  <2> QED BY <1>1, <2>1, <2>2
<1>7. ASSUME World \/ UNCHANGED vars PROVE Lasts
    BY <1>1, <1>7 DEF World, Show, OpenPR, Squash, TimePasses, vars
<1> QED BY <1>3, <1>4, <1>5, <1>6, <1>7 DEF Next, Step

(* What a process holds stays so while it does nothing. *)
Idles(q) == UNCHANGED <<pc[q], want[q], asked[q], now[q], job[q], reply[q], answer[q], lacked[q]>>

LEMMA HeldKept ==
    ASSUME TypeInv, ReadsInv, [Next]_vars, NEW q \in Process, Idles(q) PROVE Held(q)'
<1>1. /\ TypeInv' /\ Grows /\ Lasts
    BY TypeStep, GrowsStep, LastsStep
<1>2. /\ asked[q] \in Nat /\ now[q] \in Nat /\ want[q].after \in Nat
      /\ want[q].prs \subseteq PR /\ job[q].prs \subseteq PR /\ Held(q)
      /\ LeaseTTL \in Nat /\ PushLag \in Nat /\ PushLag <= LeaseTTL /\ Never = 0
      /\ pc[q] = "mark" => now[q] # 0
    BY Times, Spans DEF TypeInv, NowType, ProcessType, WantsRead, Jobs, ReadsInv, HeldTypes
<1>3. /\ pc'[q] = pc[q] /\ want'[q] = want[q] /\ asked'[q] = asked[q] /\ now'[q] = now[q]
      /\ job'[q] = job[q] /\ reply'[q] = reply[q] /\ answer'[q] = answer[q]
      /\ lacked'[q] = lacked[q]
    BY DEF Idles
<1>4. clock \in Nat /\ clock' \in Nat /\ clock <= clock' /\ squashed \subseteq squashed'
    BY <1>1 DEF Grows
<1>5. Prompt(q)' => Prompt(q)
    BY <1>2, <1>3, <1>4 DEF Prompt
<1>6. Wanted(q)' = Wanted(q) /\ Wanted(q) \subseteq PR
    BY <1>2, <1>3 DEF Wanted
<1>7. Timed(q)'
    BY <1>2, <1>3, <1>4 DEF Held, Timed
<1>8. Asks(q)'
    BY <1>2, <1>3, <1>5 DEF Held, Asks, Lacked
<1>9. Told(q)'
    BY <1>2, <1>3, <1>4 DEF Held, Told
<1>10. ASSUME Prompt(q)', NEW n \in Wanted(q)
       PROVE  /\ lease'.prs[n] >= asked[q]
              /\ n \in DOMAIN file.prs => n \in DOMAIN file'.prs
  <2>1. lease.prs[n] >= asked[q] /\ Found(n)
      BY <1>2, <1>5, <1>10 DEF Held, Leased
  <2>2. asked[q] # 0 /\ asked[q] <= clock
      BY <1>2, <1>10 DEF Held, Timed, Wanted
  <2>3. clock' < asked[q] + LeaseTTL
      BY <1>3, <1>10 DEF Prompt
  <2> QED BY <1>1, <1>2, <1>6, <1>10, <2>1, <2>2, <2>3 DEF Lasts
<1>11. Leased(q)'
  <2>1. \A n \in Wanted(q)' : Found(n)'
      BY <1>1, <1>2, <1>6 DEF Held, Leased, Grows
  <2>2. Prompt(q)' => \A n \in Wanted(q)' : lease'.prs[n] >= asked'[q]
      BY <1>3, <1>6, <1>10
  <2>3. pc'[q] \in {"pushed", "mark"} => \A n \in job'[q].prs \ lacked'[q] : Found(n)'
      BY <1>1, <1>2, <1>3 DEF Held, Leased, Grows
  <2>4. ASSUME pc'[q] = "mark", clock' < now'[q] + PushLag, NEW n \in job'[q].prs \ lacked'[q]
        PROVE  lease'.prs[n] >= now'[q]
    <3>1. pc[q] = "mark" /\ clock < now[q] + PushLag /\ clock' < now[q] + LeaseTTL
        BY <1>2, <1>3, <1>4, <2>4
    <3>2. lease.prs[n] >= now[q] /\ Found(n) /\ n \in PR /\ now[q] <= clock
        BY <1>2, <1>3, <2>4, <3>1 DEF Held, Leased, Timed
    <3> QED BY <1>1, <1>2, <1>3, <3>1, <3>2 DEF Lasts
  <2> QED BY <2>1, <2>2, <2>3, <2>4 DEF Leased
<1>12. Covered(q)'
  <2> SUFFICES ASSUME pc[q] \in {"poll", "land"}, Prompt(q)', NEW n \in Wanted(q) \ job[q].prs
               PROVE  Recent(file.prs, q, n)'
      BY <1>3, <1>6 DEF Covered
  <2>1. Recent(file.prs, q, n)
      BY <1>2, <1>5 DEF Held, Covered
  <2>2. n \in DOMAIN file.prs /\ n \in DOMAIN file'.prs
      BY <1>10, <2>1 DEF Recent, Reaches
  <2>3. file'.prs[n].polledAt >= file.prs[n].polledAt
      BY <2>2, AgeStep
  <2>4. file.prs[n].polledAt \in Nat /\ file'.prs[n].polledAt \in Nat /\ MaxAge(want[q]) \in Nat
    <3>1. file.prs \in PRRecords /\ file'.prs \in PRRecords
        BY <1>1 DEF TypeInv, StoreType, Files
    <3>2. file.prs[n] \in Records /\ file'.prs[n] \in Records
        BY <2>2, <3>1, RecordsPartial
    <3>3. want[q].maxAge \in Nat /\ Interval \in Nat
        BY Times DEF TypeInv, ProcessType, WantsRead
    <3> QED BY <3>2, <3>3, Times DEF Records, MaxAge
  <2>5. MaxAge(want[q])' = MaxAge(want[q])
      BY <1>3 DEF MaxAge
  <2> QED BY <1>2, <1>3, <1>4, <2>1, <2>2, <2>3, <2>4, <2>5 DEF Recent, Reaches
<1> QED BY <1>7, <1>8, <1>9, <1>11, <1>12 DEF Held

-----------------------------------------------------------------------------
(* What a step of a read comes to, of the records `prs' it goes by.        *)

Says(p, prs) ==
    pc'[p] = "done" /\ answer'[p].kind = "ok" =>
      /\ \A n \in DOMAIN answer'[p].prs : n \in DOMAIN prs /\ answer'[p].prs[n] = prs[n]
      /\ Prompt(p) => \A n \in Wanted(p) :
           /\ n \in DOMAIN answer'[p].prs /\ Reaches(prs, p, n)
           /\ want[p].patient => Recent(prs, p, n)

Sends(p, prs) ==
    pc'[p] = "poll" /\ Prompt(p) => \A n \in Wanted(p) \ job'[p].prs : Recent(prs, p, n)

Reasons(p) ==
    /\ pc'[p] # "done" => answer'[p].kind = "none"
    /\ pc'[p] = "over" \/ job'[p].kind = "rest" => job'[p].cause # "ok"
    /\ job'[p].cause = "missing" => Lacked(p)
    /\ pc'[p] = "done" /\ answer'[p].kind = "missing" => Lacked(p)

Goes(p) ==
    /\ \E s \in Places \ {"idle", "land", "pushed", "mark"} : pc' = [pc EXCEPT ![p] = s]
    /\ \E j \in Jobs : job' = [job EXCEPT ![p] = j]
    /\ \E a \in Answers : answer' = [answer EXCEPT ![p] = a]

Result(p, prs) == Goes(p) /\ Says(p, prs) /\ Sends(p, prs) /\ Reasons(p)

LEMMA SetsUp ==
    ASSUME TypeInv, ReadsInv, NEW p \in Process
    PROVE  /\ pc \in [Process -> Places] /\ job \in [Process -> Jobs]
           /\ answer \in [Process -> Answers] /\ want[p] \in WantsRead
           /\ lacked[p] \subseteq PR /\ Wanted(p) \subseteq want[p].prs
           /\ job[p].cause = "missing" => Lacked(p)
           /\ job[p].kind = "rest" => job[p].cause # "ok"
           /\ pc[p] = "over" => job[p].cause # "ok"
           /\ pc[p] # "done" => answer[p].kind = "none"
BY DEF TypeInv, ProcessType, ReadsInv, HeldTypes, Held, Asks, Wanted

LEMMA ViewType ==
    ASSUME NEW st \in Files, NEW w
    PROVE  /\ View(st, w) \in Answers /\ View(st, w).kind = "ok"
           /\ \A n \in DOMAIN View(st, w).prs :
                n \in DOMAIN st.prs /\ View(st, w).prs[n] = st.prs[n]
           /\ \A n \in w.prs : n \in DOMAIN st.prs => n \in DOMAIN View(st, w).prs
<1> DEFINE D == (w.prs \cup Members(st, w.lanes)) \cap DOMAIN st.prs
           E == w.lanes \cap DOMAIN st.lanes
           prs == [n \in D |-> st.prs[n]]
           lanes == [l \in E |-> st.lanes[l]]
<1>1. View(st, w) = [kind |-> "ok", prs |-> prs, lanes |-> lanes]
    BY DEF View, Restrict
<1>2. st.prs \in PRRecords /\ st.lanes \in LaneListings
    BY DEF Files
<1>3. D \subseteq DOMAIN st.prs /\ E \subseteq DOMAIN st.lanes
    OBVIOUS
<1>4. \A n \in w.prs : n \in DOMAIN st.prs => n \in D
    OBVIOUS
<1> HIDE DEF D, E
<1>5. prs \in PRRecords
    BY <1>2, <1>3, RecordsPartial
<1>6. lanes \in LaneListings
    BY <1>2, <1>3, ListingsPartial
<1>7. DOMAIN prs = D /\ \A n \in D : prs[n] = st.prs[n]
    OBVIOUS
<1> HIDE DEF prs, lanes
<1> QED BY <1>1, <1>3, <1>4, <1>5, <1>6, <1>7 DEF Answers, Causes

(* The records `st' has of what the read wants answer it. *)
Gives(p, st) ==
    Prompt(p) => \A n \in Wanted(p) :
      Reaches(st.prs, p, n) /\ (want[p].patient => Recent(st.prs, p, n))

LEMMA ReturnResult ==
    ASSUME TypeInv, ReadsInv, NEW p \in Process, NEW kind \in Causes, NEW st \in Files, NEW late,
           pc[p] # "done", Return(p, kind, st, late),
           kind = "missing" => Lacked(p), kind = "ok" => Gives(p, st)
    PROVE  Result(p, st.prs)
<1>1. CASE kind = "ok" /\ Go(p, "done") /\ answer' = [answer EXCEPT ![p] = View(st, want[p])]
           /\ UNCHANGED job
  <2>1. Goes(p)
    <3>1. \E s \in Places \ {"idle", "land", "pushed", "mark"} : pc' = [pc EXCEPT ![p] = s]
        BY <1>1 DEF Go, Places
    <3>2. \E j \in Jobs : job' = [job EXCEPT ![p] = j]
      <4>1. job[p] \in Jobs /\ job' = [job EXCEPT ![p] = job[p]]
          BY <1>1, SetsUp
      <4> QED BY <4>1
    <3> QED BY <1>1, <3>1, <3>2, ViewType DEF Goes
  <2>2. pc'[p] = "done" /\ answer'[p] = View(st, want[p]) /\ job'[p] = job[p]
      BY <1>1, SetsUp DEF Go
  <2>3. Says(p, st.prs)
    <3> HIDE DEF View
    <3>1. \A n \in Wanted(p) : n \in DOMAIN st.prs => n \in DOMAIN View(st, want[p]).prs
        BY SetsUp, ViewType
    <3>2. \A n \in DOMAIN View(st, want[p]).prs :
            n \in DOMAIN st.prs /\ View(st, want[p]).prs[n] = st.prs[n]
        BY ViewType
    <3> QED BY <1>1, <2>2, <3>1, <3>2 DEF Says, Gives, Reaches
  <2>4. Reasons(p)
    <3>1. answer'[p].kind = "ok"
        BY <2>2, ViewType
    <3> QED BY <2>2, <3>1, SetsUp DEF Reasons
  <2> QED BY <2>1, <2>2, <2>3, <2>4 DEF Result, Sends
<1>2. CASE kind # "ok" /\ Go(p, "over") /\ UNCHANGED answer
           /\ job' = [job EXCEPT ![p] = [NoJob EXCEPT !.cause = kind]]
  <2>1. [NoJob EXCEPT !.cause = kind] \in Jobs
      BY DEF NoJob, Jobs, Causes
  <2>2. Goes(p)
    <3>1. answer[p] \in Answers /\ answer' = [answer EXCEPT ![p] = answer[p]]
        BY <1>2, SetsUp
    <3>2. \E s \in Places \ {"idle", "land", "pushed", "mark"} : pc' = [pc EXCEPT ![p] = s]
        BY <1>2 DEF Go, Places
    <3> QED BY <1>2, <2>1, <3>1, <3>2 DEF Goes
  <2>3. /\ pc'[p] = "over" /\ answer'[p] = answer[p] /\ job'[p].cause = kind
        /\ job'[p].kind = "none"
      BY <1>2, SetsUp DEF Go, NoJob
  <2> QED BY <1>2, <2>2, <2>3, SetsUp DEF Result, Says, Sends, Reasons
<1>3. CASE kind # "ok" /\ Go(p, "done") /\ answer' = [answer EXCEPT ![p].kind = kind]
           /\ UNCHANGED job
  <2>1. [answer[p] EXCEPT !.kind = kind] \in Answers
        /\ answer' = [answer EXCEPT ![p] = [answer[p] EXCEPT !.kind = kind]]
      BY <1>3, SetsUp DEF Answers
  <2>2. Goes(p)
    <3>1. job[p] \in Jobs /\ job' = [job EXCEPT ![p] = job[p]]
        BY <1>3, SetsUp
    <3>2. \E s \in Places \ {"idle", "land", "pushed", "mark"} : pc' = [pc EXCEPT ![p] = s]
        BY <1>3 DEF Go, Places
    <3> QED BY <1>3, <2>1, <3>1, <3>2 DEF Goes
  <2>3. pc'[p] = "done" /\ answer'[p].kind = kind /\ job'[p] = job[p]
      BY <1>3, <2>1, SetsUp DEF Go, Answers
  <2> QED BY <1>3, <2>2, <2>3, SetsUp DEF Result, Says, Sends, Reasons
<1> QED BY <1>1, <1>2, <1>3 DEF Return

LEMMA SendResult ==
    ASSUME TypeInv, ReadsInv, NEW p \in Process, NEW j \in Jobs, NEW prs,
           pc[p] # "done", Send(p, j), j.cause = "missing" => Lacked(p),
           j.kind = "rest" => j.cause # "ok",
           Prompt(p) => \A n \in Wanted(p) \ j.prs : Recent(prs, p, n)
    PROVE  Result(p, prs)
<1>1. pc' = [pc EXCEPT ![p] = "poll"] /\ job' = [job EXCEPT ![p] = j] /\ answer' = answer
    BY DEF Send, Go
<1>2. Goes(p)
  <2>1. answer[p] \in Answers /\ answer' = [answer EXCEPT ![p] = answer[p]]
      BY <1>1, SetsUp
  <2>2. "poll" \in Places \ {"idle", "land", "pushed", "mark"}
      BY DEF Places
  <2> QED BY <1>1, <2>1, <2>2 DEF Goes
<1>3. pc'[p] = "poll" /\ job'[p] = j /\ answer'[p] = answer[p]
    BY <1>1, SetsUp
<1> QED BY <1>2, <1>3, SetsUp DEF Result, Says, Sends, Reasons

LEMMA GoResult ==
    ASSUME TypeInv, ReadsInv, NEW p \in Process, NEW prs, pc[p] # "done",
           NEW s \in {"look", "sleep", "watch", "probe", "claim"}, Go(p, s), UNCHANGED <<job, answer>>
    PROVE  Result(p, prs)
<1>1. Goes(p)
  <2>1. answer[p] \in Answers /\ answer' = [answer EXCEPT ![p] = answer[p]]
        /\ job[p] \in Jobs /\ job' = [job EXCEPT ![p] = job[p]]
      BY SetsUp
  <2>2. s \in Places \ {"idle", "land", "pushed", "mark"}
      BY DEF Places
  <2> QED BY <2>1, <2>2 DEF Goes, Go
<1>2. pc'[p] = s /\ job'[p] = job[p] /\ answer'[p] = answer[p]
    BY SetsUp DEF Go
<1> QED BY <1>1, <1>2, SetsUp DEF Result, Says, Sends, Reasons

LEMMA FreshRecent ==
    ASSUME TypeInv, ReadsInv, NEW p \in Process, NEW st \in Files, Sound(st.prs), NEW n, NEW at \in Nat,
           NEW age \in Nat, asked[p] <= at, age <= MaxAge(want[p]),
           PRFresh(st, n, age, want[p].after, at)
    PROVE  Recent(st.prs, p, n)
<1>1. n \in DOMAIN st.prs /\ st.prs[n].polledAt >= want[p].after
      /\ (st.prs[n].settled \/ at - st.prs[n].polledAt < age)
    BY DEF PRFresh
<1>2. st.prs \in PRRecords /\ asked[p] \in Nat /\ want[p].maxAge \in Nat /\ Interval \in Nat
    BY Times DEF TypeInv, ProcessType, WantsRead, ReadsInv, HeldTypes, Files
<1>3. st.prs[n] \in Records
    BY <1>1, <1>2, RecordsPartial
<1>4. st.prs[n].polledAt \in Nat /\ MaxAge(want[p]) \in Nat
    BY <1>2, <1>3, Times DEF Records, MaxAge
<1>5. CASE st.prs[n].settled
    BY <1>1, <1>5 DEF Sound, Recent, Reaches
<1>6. CASE at - st.prs[n].polledAt < age
  <2>1. st.prs[n].polledAt > asked[p] - MaxAge(want[p])
      BY <1>2, <1>4, <1>6
  <2> QED BY <1>1, <2>1 DEF Recent, Reaches
<1> QED BY <1>1, <1>5, <1>6

(* What is fresh for the read answers it. *)
LEMMA FreshGives ==
    ASSUME TypeInv, ReadsInv, NEW p \in Process, NEW st \in Files, Sound(st.prs)
    PROVE  /\ \A n : PRFresh(st, n, want[p].maxAge, want[p].after, asked[p]) => Recent(st.prs, p, n)
           /\ \A n \in Wanted(p) \ Unanswered(st, want[p], asked[p]) : Recent(st.prs, p, n)
           /\ Unanswered(st, want[p], asked[p]) = {} =>
                Gives(p, st) /\ Verdict(st, want[p], asked[p]) # "missing"
           /\ Fresh(st, want[p], asked[p]) => Gives(p, st)
<1>1. asked[p] \in Nat /\ want[p].maxAge \in Nat /\ Interval \in Nat
    BY Times DEF TypeInv, ProcessType, WantsRead, ReadsInv, HeldTypes
<1>2. want[p].maxAge <= MaxAge(want[p]) /\ asked[p] <= asked[p]
    BY <1>1 DEF MaxAge
<1>3. ASSUME NEW n, PRFresh(st, n, want[p].maxAge, want[p].after, asked[p])
      PROVE  Recent(st.prs, p, n)
    BY <1>1, <1>2, <1>3, FreshRecent
<1>4. ASSUME NEW n \in want[p].prs, n \notin Unanswered(st, want[p], asked[p])
      PROVE  Recent(st.prs, p, n)
    BY <1>3, <1>4 DEF Unanswered
<1>5. Wanted(p) \subseteq want[p].prs
    BY DEF Wanted
<1>6. ASSUME Unanswered(st, want[p], asked[p]) = {}
      PROVE  Gives(p, st) /\ Verdict(st, want[p], asked[p]) # "missing"
  <2>1. \A n \in want[p].prs : Recent(st.prs, p, n)
      BY <1>4, <1>6
  <2> QED BY <1>5, <2>1 DEF Gives, Verdict, Recent, Reaches
<1>7. Fresh(st, want[p], asked[p]) => Gives(p, st)
    BY <1>3, <1>5 DEF Fresh, Gives, Recent
<1> QED BY <1>3, <1>4, <1>5, <1>6, <1>7

LEMMA DegradeResult ==
    ASSUME TypeInv, ReadsInv, NEW p \in Process, NEW st \in Files, Sound(st.prs), NEW t, NEW late,
           pc[p] # "done", NEW cause \in Causes, cause # "ok", cause = "missing" => Lacked(p),
           Degrade(p, st, t, late, cause)
    PROVE  Result(p, st.prs)
<1> DEFINE prs == Unanswered(st, want[p], asked[p])
           rest == [prs |-> prs, lanes |-> {}, kind |-> "rest", cause |-> cause]
           verdict == Verdict(st, want[p], asked[p])
<1>1. verdict \in Causes
    BY VerdictType
<1>2. rest \in Jobs
    BY UnansweredType DEF TypeInv, ProcessType, Jobs, Files
<1>3. \/ Return(p, cause, st, late)
      \/ prs = {} /\ Return(p, verdict, st, late)
      \/ Send(p, rest)
    BY DEF Degrade
<1>4. \A n \in Wanted(p) \ prs : Recent(st.prs, p, n)
    BY FreshGives
<1>5. rest.prs = prs /\ rest.cause = cause
    OBVIOUS
<1>6. prs = {} => Gives(p, st) /\ verdict # "missing"
    BY FreshGives
<1> HIDE DEF prs, rest, verdict
<1>7. CASE Return(p, cause, st, late)
    BY <1>7, ReturnResult
<1>8. CASE prs = {} /\ Return(p, verdict, st, late)
    BY <1>1, <1>6, <1>8, ReturnResult
<1>9. CASE Send(p, rest)
    BY <1>2, <1>4, <1>5, <1>9, SendResult
<1> QED BY <1>3, <1>7, <1>8, <1>9

LEMMA DecideResult ==
    ASSUME TypeInv, ReadsInv, NEW p \in Process, NEW st \in Files, Sound(st.prs), NEW t, NEW late,
           NEW slept, pc[p] # "done", Decide(p, st, t, late, slept)
    PROVE  Result(p, st.prs)
<1> DEFINE unpolled == IF st.failure = Never THEN Unpolled(st, want[p], asked[p]) ELSE {}
           own == [prs |-> unpolled, lanes |-> {}, kind |-> "own", cause |-> "ok"]
<1>1. own \in Jobs
  <2>1. Unpolled(st, want[p], asked[p]) \subseteq PR
      BY DEF Unpolled, TypeInv, ProcessType, WantsRead
  <2> QED BY <2>1 DEF Jobs, Causes
<1>2. own.prs = unpolled /\ own.cause = "ok" /\ own.kind = "own"
    OBVIOUS
<1>3. unpolled # {} => \A n \in Wanted(p) \ unpolled : Recent(st.prs, p, n)
  <2> SUFFICES ASSUME unpolled # {}, NEW n \in Wanted(p) \ unpolled PROVE Recent(st.prs, p, n)
      OBVIOUS
  <2>1. n \in want[p].prs
      BY DEF Wanted
  <2>2. PRFresh(st, n, want[p].maxAge, want[p].after, asked[p])
      BY <2>1 DEF Unpolled
  <2> QED BY <2>2, FreshGives
<1>4. ~want[p].patient /\ Covers(st, want[p]) => Gives(p, st)
    BY DEF Covers, Gives, Reaches, Wanted
<1>5. \/ unpolled # {} /\ Send(p, own)
      \/ Degrade(p, st, t, late, "failed")
      \/ ~want[p].patient /\ Covers(st, want[p]) /\ Return(p, "ok", st, FALSE)
      \/ \E s \in {"sleep", "watch", "claim"} : Go(p, s) /\ UNCHANGED <<job, answer>>
    BY DEF Decide
<1> HIDE DEF own, unpolled
<1>6. CASE unpolled # {} /\ Send(p, own)
    BY <1>1, <1>2, <1>3, <1>6, SendResult
<1>7. CASE Degrade(p, st, t, late, "failed")
    BY <1>7, DegradeResult DEF Causes
<1>8. CASE ~want[p].patient /\ Covers(st, want[p]) /\ Return(p, "ok", st, FALSE)
    BY <1>4, <1>8, ReturnResult DEF Causes
<1>9. CASE \E s \in {"sleep", "watch", "claim"} : Go(p, s) /\ UNCHANGED <<job, answer>>
    BY <1>9, GoResult
<1> QED BY <1>5, <1>6, <1>7, <1>8, <1>9

-----------------------------------------------------------------------------
(* The steps of a read.                                                    *)

Reads(p) == \/ Look(p) \/ Cut(p) \/ Claim(p) \/ Over(p) \/ Land(p) \/ LandRest(p) \/ Miss(p)
            \/ \E o \in Outcomes : Probe(p, o)

LEMMA OnFile ==
    ASSUME TypeInv, ReadsInv, NEW p \in Process
    PROVE  /\ file \in Files /\ Sound(file.prs) /\ file.prs \in PRRecords
           /\ job[p] \in Jobs /\ job[p].cause \in Causes
           /\ asked[p] \in Nat /\ now[p] \in Nat /\ clock \in Nat
BY Times DEF TypeInv, StoreType, Files, ProcessType, Jobs, NowType, ReadsInv, Shared, HeldTypes

LEMMA LookResult ==
    ASSUME TypeInv, ReadsInv, NEW p \in Process, Look(p) PROVE Result(p, file'.prs)
<1>1. file' = file /\ pc[p] # "done"
    BY DEF Look
<1>2. \/ Fresh(file, want[p], asked[p]) /\ Return(p, "ok", file, FALSE)
      \/ Degrade(p, file, clock', Late(p, clock'), "limited")
      \/ Go(p, "probe") /\ UNCHANGED <<job, answer>>
      \/ Decide(p, file, clock', Late(p, clock'), waited'[p])
    BY DEF Look
<1>3. CASE Fresh(file, want[p], asked[p]) /\ Return(p, "ok", file, FALSE)
    BY <1>1, <1>3, OnFile, FreshGives, ReturnResult DEF Causes
<1>4. CASE Degrade(p, file, clock', Late(p, clock'), "limited")
    BY <1>1, <1>4, OnFile, DegradeResult DEF Causes
<1>5. CASE Go(p, "probe") /\ UNCHANGED <<job, answer>>
    BY <1>1, <1>5, GoResult
<1>6. CASE Decide(p, file, clock', Late(p, clock'), waited'[p])
    BY <1>1, <1>6, OnFile, DecideResult
<1> QED BY <1>2, <1>3, <1>4, <1>5, <1>6

LEMMA ProbeResult ==
    ASSUME TypeInv, ReadsInv, NEW p \in Process, NEW o \in Outcomes, Probe(p, o)
    PROVE  Result(p, file'.prs)
<1> DEFINE st == [file EXCEPT !.backoff =
                    IF o = "ok" THEN NoBackoff
                    ELSE IF o = "low" THEN Refused(now[p], clock)
                    ELSE Refused(IF Limited(file) THEN file.backoff.since ELSE now[p], now[p])]
<1>1. pc[p] # "done" /\ TypeInv'
    BY ProbeType DEF Probe
<1>2. file' \in Files /\ file'.prs = file.prs
  <2>1. file' = file \/ file' = st
      BY DEF Probe
  <2> QED BY <1>1, <2>1, OnFile DEF TypeInv, StoreType, Files
<1>3. \/ Return(p, "failed", file, Late(p, clock))
      \/ file' = st /\ Degrade(p, st, now[p], Late(p, clock), "limited")
      \/ file' = st /\ Decide(p, st, now[p], Late(p, clock), waited[p])
    BY DEF Probe
<1> HIDE DEF st
<1>4. CASE Return(p, "failed", file, Late(p, clock))
  <2>1. Result(p, file.prs)
      BY <1>1, <1>4, OnFile, ReturnResult DEF Causes
  <2> QED BY <1>2, <2>1
<1>5. CASE file' = st /\ Degrade(p, st, now[p], Late(p, clock), "limited")
  <2>1. st \in Files /\ Sound(st.prs) /\ "limited" \in Causes
      BY <1>2, <1>5, OnFile DEF Causes
  <2>2. Result(p, st.prs)
      BY <1>1, <1>5, <2>1, DegradeResult
  <2> QED BY <1>5, <2>2
<1>6. CASE file' = st /\ Decide(p, st, now[p], Late(p, clock), waited[p])
  <2>1. st \in Files /\ Sound(st.prs)
      BY <1>2, <1>6, OnFile
  <2>2. Result(p, st.prs)
      BY <1>1, <1>6, <2>1, DecideResult
  <2> QED BY <1>6, <2>2
<1> QED BY <1>3, <1>4, <1>5, <1>6

LEMMA CutResult ==
    ASSUME TypeInv, ReadsInv, NEW p \in Process, Cut(p) PROVE Result(p, file'.prs)
<1>1. /\ pc' = [pc EXCEPT ![p] = "over"] /\ answer' = answer /\ pc[p] = "sleep"
      /\ job' = [job EXCEPT ![p] = [job[p] EXCEPT !.cause = "failed"]]
    BY SetsUp DEF Cut, Go
<1>2. [job[p] EXCEPT !.cause = "failed"] \in Jobs
    BY OnFile DEF Jobs, Causes
<1>3. Goes(p)
  <2>1. answer[p] \in Answers /\ answer' = [answer EXCEPT ![p] = answer[p]]
      BY <1>1, SetsUp
  <2>2. "over" \in Places \ {"idle", "land", "pushed", "mark"}
      BY DEF Places
  <2> QED BY <1>1, <1>2, <2>1, <2>2 DEF Goes
<1>4. pc'[p] = "over" /\ job'[p].cause = "failed" /\ answer'[p] = answer[p]
    BY <1>1, SetsUp DEF Jobs
<1> QED BY <1>1, <1>3, <1>4, SetsUp DEF Result, Says, Sends, Reasons

LEMMA ClaimResult ==
    ASSUME TypeInv, ReadsInv, NEW p \in Process, Claim(p) PROVE Result(p, file'.prs)
<1> DEFINE req == Claimed(file, want[p], now[p])
           j == [prs |-> req.prs, lanes |-> req.lanes, kind |-> "claim", cause |-> "ok"]
<1>1. pc[p] = "claim" /\ file'.prs = file.prs /\ asked[p] <= now[p]
    BY OnFile DEF Claim, Files, ReadsInv, Held, Timed
<1>2. \/ Send(p, j)
      \/ Go(p, "look") /\ UNCHANGED <<job, answer>>
    BY DEF Claim
<1>3. j \in Jobs
  <2>1. req.prs \subseteq PR /\ req.lanes \subseteq Lane
    <3>1. \A ls : Members(file, ls) \subseteq PR
        BY MembersType, OnFile DEF Files
    <3>2. want[p].prs \subseteq PR /\ want[p].lanes \subseteq Lane
        BY DEF TypeInv, ProcessType, WantsRead
    <3> QED BY <3>1, <3>2 DEF Claimed
  <2> HIDE DEF req
  <2> QED BY <2>1 DEF Jobs, Causes
<1>4. \A n \in Wanted(p) \ j.prs : Recent(file.prs, p, n)
  <2> SUFFICES ASSUME NEW n \in Wanted(p) \ j.prs PROVE Recent(file.prs, p, n)
      OBVIOUS
  <2>1. n \in want[p].prs
      BY DEF Wanted
  <2>2. PRFresh(file, n, Interval, want[p].after, now[p])
      BY <2>1 DEF Claimed
  <2>3. Interval \in Nat /\ Interval <= MaxAge(want[p])
      BY Times DEF MaxAge, TypeInv, ProcessType, WantsRead
  <2> QED BY <1>1, <2>2, <2>3, OnFile, FreshRecent
<1>5. j.cause = "ok" /\ j.kind = "claim"
    OBVIOUS
<1> HIDE DEF j
<1>6. CASE Send(p, j)
    BY <1>1, <1>3, <1>4, <1>5, <1>6, SendResult
<1>7. CASE Go(p, "look") /\ UNCHANGED <<job, answer>>
    BY <1>1, <1>7, GoResult
<1> QED BY <1>2, <1>6, <1>7

LEMMA OverResult ==
    ASSUME TypeInv, ReadsInv, NEW p \in Process, Over(p) PROVE Result(p, file'.prs)
<1> DEFINE prs == Unanswered(file, want[p], asked[p])
           j == [prs |-> prs, lanes |-> {}, kind |-> "over", cause |-> job[p].cause]
<1>1. file' = file /\ pc[p] = "over"
    BY DEF Over
<1>2. Send(p, j) \/ Degrade(p, file, clock', FALSE, job[p].cause)
    BY DEF Over
<1>3. j \in Jobs
    BY OnFile, UnansweredType DEF TypeInv, ProcessType, Jobs, Files
<1>4. \A n \in Wanted(p) \ prs : Recent(file.prs, p, n)
    BY OnFile, FreshGives
<1>5. j.cause = job[p].cause /\ j.kind = "over" /\ j.prs = prs
    OBVIOUS
<1> HIDE DEF j, prs
<1>6. job[p].cause # "ok" /\ (job[p].cause = "missing" => Lacked(p))
    BY <1>1, SetsUp
<1>7. CASE Send(p, j)
    BY <1>1, <1>3, <1>4, <1>5, <1>6, <1>7, SendResult
<1>8. CASE Degrade(p, file, clock', FALSE, job[p].cause)
    BY <1>1, <1>6, <1>8, OnFile, DegradeResult
<1> QED BY <1>2, <1>7, <1>8

LEMMA CauseWhy ==
    ASSUME TypeInv, ReadsInv, NEW p \in Process
    PROVE  Cause(p) \in Causes /\ Cause(p) # "ok" /\ (Cause(p) = "missing" => Lacked(p))
BY OnFile, SetsUp DEF Cause, Causes

(* A poll that lands leaves on file a record of all that the read wants.   *)
LEMMA LandRecent ==
    ASSUME TypeInv, ReadsInv, [Next]_vars, NEW p \in Process, Land(p) \/ LandRest(p),
           reply[p].outcome \in {"ok", "low"}, Prompt(p), NEW n \in Wanted(p)
    PROVE  Recent(file'.prs, p, n)
<1>1. pc[p] = "land"
    BY DEF Land, LandRest
<1>2. /\ asked[p] \in Nat /\ asked[p] <= clock /\ asked[p] # 0 /\ asked[p] <= now[p]
      /\ now[p] \in Nat /\ want[p].after <= asked[p] /\ want[p].after \in Nat
      /\ n \in want[p].prs /\ n \in PR
    BY <1>1, OnFile, SetsUp, Times DEF ReadsInv, Held, Timed, Wanted, WantsRead
<1>3. Found(n) /\ lease.prs[n] >= asked[p] /\ clock < asked[p] + LeaseTTL
    BY DEF ReadsInv, Held, Leased, Prompt
<1>4. /\ n \in DOMAIN file.prs => n \in DOMAIN file'.prs
      /\ n \in DOMAIN reply[p].prs =>
           n \in DOMAIN file'.prs /\ file'.prs[n].polledAt >= now[p]
    BY <1>2, <1>3, LandKeeps
<1>5. MaxAge(want[p]) \in Nat \ {0}
  <2>1. want[p].maxAge \in Nat /\ Interval \in Nat \ {0}
      BY SetsUp, Times DEF WantsRead
  <2> QED BY <2>1 DEF MaxAge
<1>6. ASSUME NEW m \in DOMAIN file'.prs PROVE file'.prs[m].polledAt \in Nat
  <2>1. file'.prs \in PRRecords
      BY TypeStep DEF TypeInv, StoreType, Files
  <2>2. file'.prs[m] \in Records
      BY <1>6, <2>1, RecordsPartial
  <2> QED BY <2>2, Times DEF Records
<1>7. CASE n \in job[p].prs
  <2>1. n \in DOMAIN reply[p].prs
      BY <1>1, <1>3, <1>7 DEF ReadsInv, Held, Told, Found
  <2> QED BY <1>2, <1>4, <1>5, <1>6, <2>1 DEF Recent, Reaches
<1>8. CASE n \notin job[p].prs
  <2>1. Recent(file.prs, p, n)
      BY <1>1, <1>8 DEF ReadsInv, Held, Covered
  <2>2. n \in DOMAIN file.prs /\ n \in DOMAIN file'.prs
      BY <1>4, <2>1 DEF Recent, Reaches
  <2>3. file'.prs[n].polledAt >= file.prs[n].polledAt /\ file.prs[n].polledAt \in Nat
    <3>1. file.prs[n] \in Records
        BY <2>2, OnFile, RecordsPartial
    <3> QED BY <2>2, <3>1, AgeStep, Times DEF Records
  <2> QED BY <1>2, <1>5, <1>6, <2>1, <2>2, <2>3 DEF Recent, Reaches
<1> QED BY <1>7, <1>8

(* What a read whose poll has landed returns. *)
LEMMA LandVerdict ==
    ASSUME TypeInv, ReadsInv, [Next]_vars, NEW p \in Process, Land(p) \/ LandRest(p),
           reply[p].outcome \in {"ok", "low"}
    PROVE  /\ Gives(p, file')
           /\ Verdict(file', want[p], asked[p]) = "missing" => Lacked(p)
<1>1. Prompt(p) => \A n \in Wanted(p) : Recent(file'.prs, p, n)
    BY LandRecent
<1>2. ASSUME Verdict(file', want[p], asked[p]) = "missing", Prompt(p)
      PROVE  lacked[p] \cap want[p].prs # {}
  <2>1. PICK n \in want[p].prs : n \notin DOMAIN file'.prs
      BY <1>2 DEF Verdict
  <2>2. n \notin Wanted(p)
      BY <1>1, <1>2, <2>1 DEF Recent, Reaches
  <2> QED BY <2>1, <2>2 DEF Wanted
<1> QED BY <1>1, <1>2 DEF Gives, Lacked, Recent

LEMMA LandResult ==
    ASSUME TypeInv, ReadsInv, [Next]_vars, NEW p \in Process, Land(p) PROVE Result(p, file'.prs)
<1> DEFINE t == now[p]
           unread == IF job[p].kind = "claim" /\ ~Limited(file')
                     THEN Unread(file', job[p].lanes, t) ELSE {}
           more == [prs |-> unread, lanes |-> {}, kind |-> "more", cause |-> "ok"]
           verdict == Verdict(file', want[p], asked[p])
<1>1. pc[p] = "land" /\ file' = Landed(p, t)
    BY DEF Land
<1>2. file' \in Files /\ Sound(file'.prs)
    BY TypeStep, LandKeeps DEF TypeInv, StoreType
<1>3. more \in Jobs
  <2>1. unread \subseteq PR
      BY <1>2, MembersType DEF Unread, Files
  <2> HIDE DEF unread
  <2> QED BY <2>1 DEF Jobs, Causes
<1>4. \/ Degrade(p, file', t, Late(p, clock), Cause(p))
      \/ reply[p].outcome \in {"ok", "low"} /\ Send(p, more)
      \/ reply[p].outcome \in {"ok", "low"} /\ Return(p, verdict, file', Late(p, clock))
    BY <1>1 DEF Land
<1>5. more.cause = "ok" /\ more.kind = "more"
    OBVIOUS
<1>6. verdict \in Causes
    BY VerdictType
<1>7. reply[p].outcome \in {"ok", "low"} => Gives(p, file') /\ (verdict = "missing" => Lacked(p))
    BY LandVerdict
<1> HIDE DEF more, verdict, t
<1>8. CASE Degrade(p, file', t, Late(p, clock), Cause(p))
    BY <1>1, <1>2, <1>8, CauseWhy, DegradeResult
<1>9. CASE reply[p].outcome \in {"ok", "low"} /\ Send(p, more)
  <2>1. Prompt(p) => \A n \in Wanted(p) \ more.prs : Recent(file'.prs, p, n)
      BY <1>9, LandRecent
  <2> QED BY <1>1, <1>3, <1>5, <1>9, <2>1, SendResult
<1>10. CASE reply[p].outcome \in {"ok", "low"} /\ Return(p, verdict, file', Late(p, clock))
    BY <1>1, <1>2, <1>6, <1>7, <1>10, ReturnResult
<1> QED BY <1>4, <1>8, <1>9, <1>10

LEMMA LandRestResult ==
    ASSUME TypeInv, ReadsInv, [Next]_vars, NEW p \in Process, LandRest(p)
    PROVE  Result(p, file'.prs)
<1>1. pc[p] = "land" /\ job[p].kind = "rest"
    BY DEF LandRest
<1>2. file' \in Files
    BY TypeStep DEF TypeInv, StoreType
<1>3. \/ /\ reply[p].outcome \in {"ok", "low"}
         /\ Return(p, Verdict(file', want[p], asked[p]), file', Late(p, clock))
      \/ /\ Return(p, job[p].cause, file, Late(p, clock))
         /\ file' = file \/ file' = [file EXCEPT !.rest = Refused(now[p], now[p])]
    BY DEF LandRest
<1>4. CASE /\ reply[p].outcome \in {"ok", "low"}
           /\ Return(p, Verdict(file', want[p], asked[p]), file', Late(p, clock))
    BY <1>1, <1>2, <1>4, VerdictType, LandVerdict, ReturnResult
<1>5. CASE /\ Return(p, job[p].cause, file, Late(p, clock))
           /\ file' = file \/ file' = [file EXCEPT !.rest = Refused(now[p], now[p])]
  <2>1. file'.prs = file.prs
      BY <1>5, OnFile DEF Files
  <2>2. job[p].cause # "ok" /\ (job[p].cause = "missing" => Lacked(p))
      BY <1>1, SetsUp
  <2>3. Result(p, file.prs)
      BY <1>1, <1>5, <2>2, OnFile, ReturnResult
  <2> QED BY <2>1, <2>3
<1> QED BY <1>3, <1>4, <1>5

LEMMA EmptyFits == EmptyFile \in Files /\ Sound(EmptyFile.prs) /\ DOMAIN EmptyFile.prs = {}
<1>1. EmptyFile \in Files
    BY Times, EmptyPartial, NoBackoffType DEF Files, EmptyFile
<1>2. DOMAIN EmptyFile.prs = {}
    BY DEF EmptyFile
<1> QED BY <1>1, <1>2 DEF Sound

LEMMA MissResult ==
    ASSUME TypeInv, ReadsInv, NEW p \in Process, Miss(p) PROVE Result(p, file'.prs)
<1>1. pc[p] = "land"
    BY DEF Miss
<1>2. Result(p, EmptyFile.prs)
  <2>1. CASE Return(p, "failed", EmptyFile, Late(p, clock))
      BY <1>1, <2>1, EmptyFits, ReturnResult DEF Causes
  <2>2. CASE Degrade(p, EmptyFile, now[p], Late(p, clock), Cause(p))
      BY <1>1, <2>2, EmptyFits, CauseWhy, DegradeResult
  <2> QED BY <2>1, <2>2 DEF Miss
<1>3. \A n : ~Reaches(EmptyFile.prs, p, n) /\ ~Recent(EmptyFile.prs, p, n)
    BY EmptyFits DEF Reaches, Recent
<1> QED BY <1>2, <1>3, EmptyFits DEF Result, Says, Sends

LEMMA ReadResult ==
    ASSUME TypeInv, ReadsInv, [Next]_vars, NEW p \in Process, Reads(p) PROVE Result(p, file'.prs)
BY LookResult, ProbeResult, CutResult, ClaimResult, OverResult, LandResult, LandRestResult,
   MissResult DEF Reads

(* What a step of a read leaves alone, and when it is taken.               *)
LEMMA ReadFrame ==
    ASSUME TypeInv, ReadsInv, [Next]_vars, NEW p \in Process, Reads(p)
    PROVE  /\ want' = want /\ asked' = asked /\ lacked' = lacked /\ squashed' = squashed
           /\ \A q \in Process \ {p} : now'[q] = now[q] /\ reply'[q] = reply[q]
           /\ now'[p] <= clock'
           /\ pc'[p] \in {"probe", "claim", "poll"} => asked[p] <= now'[p]
<1>1. /\ now \in [Process -> Instant] /\ reply \in [Process -> Replies]
      /\ asked[p] \in Nat /\ now[p] \in Nat /\ clock \in Nat /\ Never = 0
      /\ asked[p] <= clock /\ now[p] <= clock
      /\ pc[p] \in {"probe", "claim", "poll", "land"} => asked[p] <= now[p]
    BY OnFile, Times DEF TypeInv, NowType, ReplyType, ReadsInv, Held, Timed
<1>2. /\ want' = want /\ asked' = asked /\ lacked' = lacked /\ squashed' = squashed
      /\ reply' = reply \/ reply' = [reply EXCEPT ![p] = NoReply]
    BY DEF Reads, Look, Cut, Claim, Over, Land, LandRest, Miss, Probe, read, github, past
<1>3. CASE Look(p) \/ Over(p)
  <2>1. Tick /\ Stamp(p)
      BY <1>3 DEF Look, Over
  <2>2. now'[p] = (IF pc'[p] \in {"probe", "claim", "poll", "mark"} THEN clock' ELSE Never)
        /\ \A q \in Process \ {p} : now'[q] = now[q]
      BY <1>1, <2>1 DEF Stamp
  <2>3. clock' = clock + 1
      BY <2>1 DEF Tick
  <2> QED BY <1>1, <1>2, <2>2, <2>3
<1>4. CASE \/ Cut(p) \/ Claim(p) \/ Land(p) \/ LandRest(p) \/ Miss(p)
           \/ \E o \in Outcomes : Probe(p, o)
  <2>1. now' = now /\ clock' = clock
      BY <1>4 DEF Cut, Claim, Land, LandRest, Miss, Probe, read
  <2>2. Cut(p) \/ pc[p] \in {"probe", "claim", "poll", "land"}
      BY <1>4 DEF Claim, Land, LandRest, Miss, Probe
  <2>3. Cut(p) => pc'[p] = "over"
      BY SetsUp DEF Cut, Go
  <2> QED BY <1>1, <1>2, <2>1, <2>2, <2>3
<1> QED BY <1>3, <1>4 DEF Reads

LEMMA ReadHeld ==
    ASSUME TypeInv, ReadsInv, [Next]_vars, NEW p \in Process, Reads(p) PROVE Held(p)'
<1>1. /\ Result(p, file'.prs) /\ Grows /\ Lasts /\ Held(p)
    BY ReadResult, GrowsStep, LastsStep DEF ReadsInv
<1>2. /\ want' = want /\ asked' = asked /\ lacked' = lacked /\ squashed' = squashed
      /\ now'[p] <= clock'
      /\ pc'[p] \in {"probe", "claim", "poll"} => asked[p] <= now'[p]
    BY ReadFrame
<1>3. pc'[p] \notin {"idle", "land", "pushed", "mark"}
    BY <1>1, SetsUp DEF Result, Goes
<1>4. /\ clock \in Nat /\ clock' \in Nat /\ clock <= clock' /\ asked[p] \in Nat
      /\ LeaseTTL \in Nat /\ asked[p] <= clock /\ want[p].after <= asked[p]
      /\ want[p].prs # {} => asked[p] # Never
    BY <1>1, OnFile, Times DEF Grows, Held, Timed
<1>5. Prompt(p)' => Prompt(p)
    BY <1>2, <1>4 DEF Prompt
<1>6. Wanted(p)' = Wanted(p) /\ Wanted(p) \subseteq PR
    BY <1>2, SetsUp DEF Wanted, WantsRead
<1>7. Timed(p)'
    BY <1>2, <1>3, <1>4 DEF Timed
<1>8. Asks(p)'
  <2>1. Lacked(p) => Lacked(p)'
      BY <1>2, <1>5 DEF Lacked
  <2> QED BY <1>1, <1>3, <2>1 DEF Result, Reasons, Asks
<1>9. Told(p)'
    BY <1>3 DEF Told
<1>10. Leased(p)'
  <2>1. \A n \in Wanted(p)' : Found(n)'
      BY <1>1, <1>6 DEF Held, Leased, Grows
  <2>2. ASSUME Prompt(p)', NEW n \in Wanted(p)' PROVE lease'.prs[n] >= asked'[p]
    <3>1. /\ n \in PR /\ Found(n) /\ lease.prs[n] >= asked[p] /\ asked[p] # 0
          /\ clock' < asked[p] + LeaseTTL
        BY <1>1, <1>2, <1>4, <1>5, <1>6, <2>2, Times DEF Held, Leased, Wanted, Prompt
    <3> QED BY <1>1, <1>2, <1>4, <3>1 DEF Lasts
  <2> QED BY <1>3, <2>1, <2>2 DEF Leased
<1>11. Covered(p)'
  <2> SUFFICES ASSUME pc'[p] = "poll", Prompt(p)', NEW n \in Wanted(p) \ job'[p].prs
               PROVE  Recent(file.prs, p, n)'
      BY <1>3, <1>6 DEF Covered
  <2>1. Recent(file'.prs, p, n)
      BY <1>1, <1>5 DEF Result, Sends
  <2> QED BY <1>2, <2>1 DEF Recent, Reaches, MaxAge
<1> QED BY <1>7, <1>8, <1>9, <1>10, <1>11 DEF Held

-----------------------------------------------------------------------------
(* The other steps of a process.                                           *)

LEMMA LeaveHeld ==
    ASSUME TypeInv, ReadsInv, NEW p \in Process, Leave(p) PROVE Held(p)'
<1>1. /\ pc'[p] = "idle" /\ want'[p] = NoWant /\ asked'[p] = Never /\ now'[p] = Never
      /\ job'[p] = NoJob /\ answer'[p] = NoAnswer /\ lacked'[p] = {} /\ clock' = clock
    BY DEF Leave, Go, TypeInv, ProcessType, NowType, ReadsInv, HeldTypes
<1>2. clock \in Nat /\ Never \in Nat /\ Never = 0
    BY OnFile, Times
<1>3. NoWant.prs = {} /\ NoWant.after = Never
    BY DEF NoWant
<1>4. NoJob.prs = {} /\ NoJob.cause = "ok" /\ NoJob.kind = "none"
    BY DEF NoJob
<1>5. NoAnswer.kind = "none"
    BY DEF NoAnswer
<1>6. Timed(p)'
    BY <1>1, <1>2, <1>3 DEF Timed
<1>7. Asks(p)'
    BY <1>1, <1>3, <1>4, <1>5 DEF Asks
<1>8. Told(p)' /\ Covered(p)'
    BY <1>1 DEF Told, Covered
<1>9. Leased(p)'
    BY <1>1, <1>3 DEF Leased, Wanted
<1> QED BY <1>6, <1>7, <1>8, <1>9 DEF Held

LEMMA BeginHeld ==
    ASSUME TypeInv, ReadsInv, NEW p \in Process, NEW w \in Wants, Begin(p, w) PROVE Held(p)'
<1>1. /\ pc[p] = "idle" /\ pc'[p] = "look" /\ asked'[p] = clock' /\ now'[p] = now[p]
      /\ job'[p] = job[p] /\ answer'[p] = answer[p] /\ heads' = heads /\ reply' = reply
      /\ clock' = clock + 1 /\ lease' = Renewed(w.prs, w.lanes, clock')
    BY DEF Begin, Go, Tick, github, sent, TypeInv, ProcessType, ReadsInv, HeldTypes
<1>2. want'[p] = [w EXCEPT !.after = IF w.after THEN clock' ELSE Never]
      /\ lacked'[p] = {n \in w.prs \cup UNION {Under[l] : l \in w.lanes} : Lacking(n)}
    BY DEF Begin, TypeInv, ProcessType, ReadsInv, HeldTypes
<1>3. want'[p].prs = w.prs /\ want'[p].after \in {clock', Never} /\ w.prs \subseteq PR
    BY <1>2, WantAssumption DEF WantAssumption
<1>4. /\ clock \in Nat /\ Never = 0 /\ now[p] \in Nat /\ now[p] <= clock /\ Held(p)
    BY OnFile, Times DEF ReadsInv, Held, Timed
<1>5. \A n \in Wanted(p)' : n \in w.prs /\ Found(n)'
    BY <1>1, <1>2, <1>3 DEF Wanted, Lacking, Found
<1>6. Timed(p)'
    BY <1>1, <1>3, <1>4 DEF Timed
<1>7. Asks(p)'
    BY <1>1, <1>4 DEF Held, Asks
<1>8. Told(p)' /\ Covered(p)'
    BY <1>1 DEF Told, Covered
<1>9. Leased(p)'
  <2>1. \A n \in w.prs : lease'.prs[n] = clock'
      BY <1>1, <1>3 DEF Renewed
  <2> QED BY <1>1, <1>4, <1>5, <2>1 DEF Leased
<1> QED BY <1>6, <1>7, <1>8, <1>9 DEF Held

(* The read is as it was, but for where it is. *)
LEMMA SameRead ==
    ASSUME TypeInv, ReadsInv, [Next]_vars, NEW p \in Process,
           want'[p] = want[p], asked'[p] = asked[p], lacked'[p] = lacked[p]
    PROVE  /\ Wanted(p)' = Wanted(p) /\ Wanted(p) \subseteq PR
           /\ Prompt(p)' => Prompt(p)
           /\ Lacked(p) => Lacked(p)'
           /\ \A n \in Wanted(p)' : Found(n)'
           /\ Prompt(p)' => \A n \in Wanted(p)' : lease'.prs[n] >= asked'[p]
           /\ asked'[p] <= clock' /\ want'[p].after <= asked'[p]
           /\ want'[p].prs # {} => asked'[p] # Never
<1>1. Grows /\ Lasts /\ Held(p)
    BY GrowsStep, LastsStep DEF ReadsInv
<1>2. /\ clock \in Nat /\ clock' \in Nat /\ clock <= clock' /\ asked[p] \in Nat
      /\ LeaseTTL \in Nat /\ asked[p] <= clock /\ want[p].after <= asked[p]
      /\ want[p].prs # {} => asked[p] # Never
    BY <1>1, OnFile, Times DEF Grows, Held, Timed
<1>3. Prompt(p)' => Prompt(p)
    BY <1>2 DEF Prompt
<1>4. Wanted(p)' = Wanted(p) /\ Wanted(p) \subseteq PR
    BY SetsUp DEF Wanted, WantsRead
<1>5. Lacked(p) => Lacked(p)'
    BY <1>3 DEF Lacked
<1>6. \A n \in Wanted(p)' : Found(n)'
    BY <1>1, <1>4 DEF Held, Leased, Grows
<1>7. ASSUME Prompt(p)', NEW n \in Wanted(p)' PROVE lease'.prs[n] >= asked'[p]
  <2>1. /\ n \in PR /\ Found(n) /\ lease.prs[n] >= asked[p] /\ asked[p] # 0
        /\ clock' < asked[p] + LeaseTTL
      BY <1>1, <1>2, <1>3, <1>4, <1>7, Times DEF Held, Leased, Wanted, Prompt
  <2> QED BY <1>1, <1>2, <2>1 DEF Lasts
<1> QED BY <1>2, <1>3, <1>4, <1>5, <1>6, <1>7

LEMMA ServeHeld ==
    ASSUME TypeInv, ReadsInv, [Next]_vars, NEW p \in Process, NEW o \in Outcomes, NEW g \in Graphite,
           Serve(p, o, g)
    PROVE  Held(p)'
<1> DEFINE there == {n \in job[p].prs : shown[n] # 0}
           ok    == o \in {"ok", "low"}
<1>1. /\ pc[p] = "poll" /\ pc'[p] = "land" /\ want' = want /\ asked' = asked /\ lacked' = lacked
      /\ now' = now /\ job' = job /\ answer' = answer /\ clock' = clock /\ squashed' = squashed
      /\ file' = file
    BY SetsUp DEF Serve, Go, read, github, past
<1>2. Held(p)
    BY DEF ReadsInv
<1>3. PICK kept \in SUBSET there :
        /\ ok => kept = there
        /\ reply'[p].outcome = o
        /\ reply'[p].prs = [n \in kept |-> Shown(n, ~g)]
        /\ reply'[p].missing = IF ok THEN job[p].prs \ there ELSE {}
  <2>1. reply \in [Process -> Replies]
      BY DEF TypeInv, ReplyType
  <2> QED BY <2>1 DEF Serve
<1>4. Timed(p)'
    BY <1>1, <1>2 DEF Held, Timed
<1>5. Asks(p)'
    BY <1>1, <1>2, SameRead DEF Held, Asks
<1>6. Told(p)'
  <2>1. ASSUME NEW n \in DOMAIN reply'[p].prs
        PROVE  reply'[p].prs[n].seen >= now'[p] /\ (reply'[p].prs[n].settled => n \in squashed')
    <3>1. reply'[p].prs[n] = Shown(n, ~g)
        BY <1>3, <2>1
    <3>2. Shown(n, ~g).seen = clock /\ (Shown(n, ~g).settled => n \in squashed)
        BY DEF Shown, NoRecord
    <3>3. now[p] <= clock
        BY <1>2 DEF Held, Timed
    <3> QED BY <1>1, <3>1, <3>2, <3>3
  <2>2. reply'[p].outcome \in {"ok", "low"} =>
          job'[p].prs \subseteq DOMAIN reply'[p].prs \cup reply'[p].missing
      BY <1>1, <1>3
  <2> QED BY <2>1, <2>2 DEF Told
<1>7. Leased(p)'
    BY <1>1, SameRead DEF Leased
<1>8. Covered(p)'
    BY <1>1, <1>2, SameRead DEF Held, Covered, Recent, Reaches, MaxAge
<1> QED BY <1>4, <1>5, <1>6, <1>7, <1>8 DEF Held

LEMMA GitPushHeld ==
    ASSUME TypeInv, ReadsInv, [Next]_vars, NEW p \in Process, NEW n \in PR, GitPush(p, n)
    PROVE  Held(p)'
<1>1. /\ pc[p] = "idle" /\ pc'[p] = "pushed" /\ want' = want /\ asked' = asked /\ now' = now
      /\ answer' = answer /\ clock' = clock /\ reply' = reply /\ heads[n] # 0
    BY SetsUp DEF GitPush, Go, read
<1>2. /\ job'[p] = [NoJob EXCEPT !.prs = {n}] /\ lacked'[p] = {m \in {n} : Lacking(m)}
    BY SetsUp DEF GitPush, ReadsInv, HeldTypes
<1>3. job'[p].prs = {n} /\ job'[p].cause = "ok" /\ job'[p].kind = "none"
    BY <1>2 DEF NoJob
<1>4. Held(p) /\ Grows
    BY GrowsStep DEF ReadsInv
<1>5. Wanted(p)' = {} /\ want'[p].prs = {}
    BY <1>1, <1>4 DEF Held, Asks, Wanted
<1>6. \A m \in job'[p].prs \ lacked'[p] : Found(m)'
  <2>1. \A m \in job'[p].prs \ lacked'[p] : m = n /\ Found(m)
      BY <1>2, <1>3 DEF Lacking, Found
  <2> QED BY <1>4, <2>1 DEF Grows
<1>7. Timed(p)'
    BY <1>1, <1>4 DEF Held, Timed
<1>8. Asks(p)'
    BY <1>1, <1>3, <1>4 DEF Held, Asks
<1> QED BY <1>1, <1>5, <1>6, <1>7, <1>8 DEF Held, Told, Leased, Covered

LEMMA RenewHeld ==
    ASSUME TypeInv, ReadsInv, [Next]_vars, NEW p \in Process, Renew(p) PROVE Held(p)'
<1>1. /\ pc[p] = "pushed" /\ pc'[p] = "mark" /\ want' = want /\ asked' = asked /\ lacked' = lacked
      /\ answer' = answer /\ job' = job /\ reply' = reply /\ clock' = clock + 1
      /\ lease' = Renewed(job[p].prs, {}, clock')
    BY SetsUp DEF Renew, Go, Tick, sent, past
<1>2. now'[p] = clock'
    BY <1>1 DEF Renew, Stamp, TypeInv, NowType
<1>3. Held(p) /\ Grows /\ job[p].prs \subseteq PR
    BY GrowsStep, OnFile DEF ReadsInv, Jobs
<1>4. Timed(p)'
    BY <1>1, <1>2, <1>3, SameRead DEF Timed, Grows
<1>5. Asks(p)'
    BY <1>1, <1>3, SameRead DEF Held, Asks
<1>6. Told(p)' /\ Covered(p)'
    BY <1>1 DEF Told, Covered
<1>7. Leased(p)'
  <2>1. \A n \in job[p].prs : lease'.prs[n] = clock'
      BY <1>1, <1>3 DEF Renewed
  <2>2. \A n \in job[p].prs \ lacked[p] : Found(n)'
      BY <1>1, <1>3 DEF Held, Leased, Grows
  <2> QED BY <1>1, <1>2, <1>3, <2>1, <2>2, SameRead DEF Leased, Grows
<1> QED BY <1>4, <1>5, <1>6, <1>7 DEF Held

LEMMA MarkHeld ==
    ASSUME TypeInv, ReadsInv, [Next]_vars, NEW p \in Process, Mark(p) PROVE Held(p)'
<1>1. /\ pc[p] = "mark" /\ pc'[p] = "done" /\ want' = want /\ asked' = asked /\ lacked' = lacked
      /\ now' = now /\ job'[p] = NoJob /\ clock' = clock
    BY SetsUp DEF Mark, Go, read
<1>2. NoJob.cause = "ok" /\ NoJob.kind = "none"
    BY DEF NoJob
<1>3. Held(p)
    BY DEF ReadsInv
<1>4. Timed(p)'
    BY <1>1, <1>3 DEF Held, Timed
<1>5. Asks(p)'
    BY <1>1, <1>2 DEF Asks
<1>6. Told(p)' /\ Covered(p)'
    BY <1>1 DEF Told, Covered
<1>7. Leased(p)'
    BY <1>1, SameRead DEF Leased
<1> QED BY <1>4, <1>5, <1>6, <1>7 DEF Held

(* A step is one process's: the others wait.                               *)
LEMMA OthersIdle ==
    ASSUME TypeInv, ReadsInv, [Next]_vars, NEW p \in Process, Step(p) \/ Leave(p),
           NEW q \in Process, q # p
    PROVE  Idles(q)
<1>1. /\ pc \in [Process -> Places] /\ want \in [Process -> WantsRead] /\ job \in [Process -> Jobs]
      /\ now \in [Process -> Instant] /\ reply \in [Process -> Replies]
      /\ asked \in [Process -> Instant] /\ answer \in [Process -> Answers]
      /\ lacked \in [Process -> SUBSET PR]
    BY DEF TypeInv, ProcessType, NowType, ReplyType, ReadsInv, HeldTypes
<1>2. CASE Reads(p)
  <2>1. Goes(p)
      BY <1>2, ReadResult DEF Result
  <2>2. pc'[q] = pc[q] /\ job'[q] = job[q] /\ answer'[q] = answer[q]
      BY <1>1, <2>1 DEF Goes
  <2> QED BY <1>2, <2>2, ReadFrame DEF Idles
<1>3. ASSUME NEW w \in Wants, Begin(p, w) PROVE Idles(q)
    BY <1>1, <1>3 DEF Begin, Go, sent, Idles
<1>4. ASSUME NEW o \in Outcomes, NEW g \in Graphite, Serve(p, o, g) PROVE Idles(q)
  <2>1. /\ \E m : reply' = [reply EXCEPT ![p] = m]
        /\ UNCHANGED <<want, asked, now, job, answer, lacked>> /\ pc' = [pc EXCEPT ![p] = "land"]
      BY <1>4 DEF Serve, Go, read, past
  <2> QED BY <1>1, <2>1 DEF Idles
<1>5. ASSUME NEW n \in PR, GitPush(p, n) PROVE Idles(q)
    BY <1>1, <1>5 DEF GitPush, Go, read, Idles
<1>6. CASE Renew(p)
    BY <1>1, <1>6 DEF Renew, Go, Stamp, sent, past, Idles
<1>7. CASE Mark(p)
    BY <1>1, <1>7 DEF Mark, Go, read, Idles
<1>8. CASE Leave(p)
    BY <1>1, <1>8 DEF Leave, Go, Idles
<1> QED BY <1>2, <1>3, <1>4, <1>5, <1>6, <1>7, <1>8 DEF Step, Reads

LEMMA HeldStep ==
    ASSUME TypeInv, ReadsInv, [Next]_vars, NEW q \in Process PROVE Held(q)'
<1>1. CASE World \/ UNCHANGED vars
  <2>1. Idles(q)
      BY <1>1 DEF World, Show, OpenPR, Squash, TimePasses, vars, read, sent, past, Idles
  <2> QED BY <2>1, HeldKept
<1>2. ASSUME NEW p \in Process, Step(p) \/ Leave(p), q # p PROVE Held(q)'
    BY <1>2, OthersIdle, HeldKept
<1>3. CASE Step(q) \/ Leave(q)
    BY <1>3, ReadHeld, LeaveHeld, BeginHeld, ServeHeld, GitPushHeld, RenewHeld, MarkHeld
    DEF Step, Reads
<1> QED BY <1>1, <1>2, <1>3 DEF Next

-----------------------------------------------------------------------------
(* What all processes share.                                               *)

LEMMA StandKept ==
    ASSUME TypeInv, ReadsInv, [Next]_vars, NEW n \in PR,
           pushes'[n].stamp = pushes[n].stamp, pushes'[n].lacked = pushes[n].lacked, Standing(n)'
    PROVE  /\ Standing(n) /\ Found(n)' /\ lease'.prs[n] >= pushes'[n].stamp
           /\ clock' < pushes[n].stamp + PushLag /\ clock < pushes[n].stamp + PushLag
           /\ n \in DOMAIN file.prs => n \in DOMAIN file'.prs
<1>1. Grows /\ Lasts /\ Shared
    BY GrowsStep, LastsStep DEF ReadsInv
<1>2. /\ clock \in Nat /\ clock' \in Nat /\ clock <= clock' /\ clock >= Epoch /\ Epoch \in Nat
    BY <1>1, OnFile, Times DEF Grows, TypeInv, Stamps
<1>3. pushes[n].stamp \in Nat /\ pushes[n].stamp <= clock
  <2>1. pushes[n] \in PushesNoted
      BY <1>1 DEF Shared
  <2>2. pushes[n].stamp \in Instant
      BY <2>1 DEF PushesNoted
  <2> QED BY <1>1, <2>2, Times DEF Shared
<1>4. clock' < pushes[n].stamp + PushLag /\ ~pushes[n].lacked
    BY DEF Standing
<1>5. clock < pushes[n].stamp + PushLag
    BY <1>2, <1>3, <1>4, Spans
<1>6. Standing(n)
    BY <1>4, <1>5 DEF Standing
<1>7. Found(n) /\ lease.prs[n] >= pushes[n].stamp
    BY <1>1, <1>6 DEF Shared
<1>8. pushes[n].stamp # 0 /\ clock' < pushes[n].stamp + LeaseTTL
    BY <1>2, <1>3, <1>4, <1>5, Spans, Times
<1>9. /\ lease'.prs[n] >= pushes[n].stamp
      /\ n \in DOMAIN file.prs => n \in DOMAIN file'.prs
    BY <1>1, <1>3, <1>7, <1>8 DEF Lasts
<1> QED BY <1>1, <1>4, <1>5, <1>6, <1>7, <1>9 DEF Grows

LEMMA SharedKept ==
    ASSUME TypeInv, ReadsInv, [Next]_vars, pushes' \in [PR -> PushesNoted], Sound(file.prs)',
           \A n \in PR :
             /\ pushes'[n].head = pushes[n].head /\ pushes'[n].stamp = pushes[n].stamp
             /\ pushes'[n].lacked = pushes[n].lacked /\ (~pushes'[n].shown => ~pushes[n].shown)
             /\ /\ Recorded(file.prs, n) /\ clock < pushes[n].stamp + PushLag
                /\ n \in DOMAIN file'.prs /\ ~pushes'[n].shown
                => /\ file'.prs[n].pushedHead = pushes[n].head
                   /\ file'.prs[n].pushedAt = pushes[n].stamp
    PROVE  Shared'
<1>1. Grows /\ Shared
    BY GrowsStep DEF ReadsInv
<1>2. ASSUME NEW n \in PR PROVE pushes'[n].stamp <= clock'
  <2>1. pushes[n].stamp \in Instant
    <3>1. pushes[n] \in PushesNoted
        BY <1>1 DEF Shared
    <3> QED BY <3>1 DEF PushesNoted
  <2>2. pushes'[n].stamp = pushes[n].stamp /\ pushes[n].stamp <= clock
      BY <1>1 DEF Shared
  <2>3. pushes[n].stamp \in Nat
      BY <2>1, Times
  <2> QED BY <1>1, <2>2, <2>3 DEF Grows
<1>3. ASSUME NEW n \in PR, Standing(n)'
      PROVE  /\ Found(n)' /\ lease'.prs[n] >= pushes'[n].stamp
             /\ ~pushes'[n].shown => Recorded(file.prs, n)'
  <2>1. /\ Standing(n) /\ Found(n)' /\ lease'.prs[n] >= pushes'[n].stamp
        /\ clock < pushes[n].stamp + PushLag
        /\ n \in DOMAIN file.prs => n \in DOMAIN file'.prs
      BY <1>3, StandKept
  <2>2. ASSUME ~pushes'[n].shown PROVE Recorded(file.prs, n)'
    <3>1. Recorded(file.prs, n)
        BY <1>1, <2>1, <2>2 DEF Shared
    <3>2. n \in DOMAIN file'.prs
        BY <2>1, <3>1 DEF Recorded
    <3>3. file'.prs[n].pushedHead = pushes[n].head /\ file'.prs[n].pushedAt = pushes[n].stamp
        BY <2>1, <2>2, <3>1, <3>2
    <3> QED BY <3>1, <3>2, <3>3 DEF Recorded
  <2> QED BY <2>1, <2>2
<1> QED BY <1>1, <1>2, <1>3 DEF Shared, Grows

LEMMA MarkShared ==
    ASSUME TypeInv, ReadsInv, [Next]_vars, NEW p \in Process, Mark(p) PROVE Shared'
<1> DEFINE t == now[p]
           taken == {n \in job[p].prs : Was(file.prs, n).pushedAt <= t}
           D == DOMAIN file.prs \cup taken
           mark(n) == [Was(file.prs, n) EXCEPT !.pushedHead = heads[n], !.pushedAt = t]
           val(n) == IF n \in taken THEN mark(n) ELSE file.prs[n]
           push(n) == [head |-> heads[n], stamp |-> t, shown |-> FALSE, lacked |-> n \in lacked[p]]
<1>1. /\ file' = [file EXCEPT !.prs = [n \in D |-> val(n)]]
      /\ pushes' = [n \in PR |-> IF n \in taken THEN push(n) ELSE pushes[n]]
      /\ pc[p] = "mark" /\ lease' = lease /\ clock' = clock /\ heads' = heads /\ squashed' = squashed
      /\ reply' = reply
    BY DEF Mark, github
<1>2. /\ Grows /\ Shared /\ Held(p) /\ t \in Instant /\ t \in Nat /\ t <= clock
      /\ job[p].prs \subseteq PR /\ heads \in [PR -> 0 .. MaxHead]
    BY GrowsStep, OnFile
    DEF ReadsInv, Held, Timed, Jobs, TypeInv, NowType, GitHubType
<1>3. taken \subseteq PR /\ taken \subseteq job[p].prs
    BY <1>2
<1>4. ASSUME NEW n \in taken
      PROVE  /\ mark(n).pushedHead = heads[n] /\ mark(n).pushedAt = t
             /\ mark(n).seen = Was(file.prs, n).seen
             /\ mark(n).polledAt = Was(file.prs, n).polledAt
             /\ mark(n).settled = Was(file.prs, n).settled
  <2>1. Was(file.prs, n) \in Records
      BY OnFile, WasType
  <2> QED BY <2>1 DEF Records
<1>5. ASSUME NEW n \in taken PROVE push(n) \in PushesNoted
    BY <1>2, <1>3, <1>5 DEF PushesNoted
<1>6. file'.prs = [n \in D |-> val(n)]
    BY <1>1, OnFile DEF Files
<1> HIDE DEF taken, t, mark, push
<1>7. pushes' \in [PR -> PushesNoted]
    BY <1>1, <1>2, <1>5 DEF Shared
<1>8. Sound(file.prs)'
  <2> SUFFICES ASSUME NEW n \in D
               PROVE  val(n).seen >= val(n).polledAt /\ (val(n).settled => n \in squashed)
      BY <1>1, <1>6 DEF Sound
  <2>1. CASE n \in taken
    <3>1. /\ Was(file.prs, n).seen >= Was(file.prs, n).polledAt
          /\ Was(file.prs, n).settled => n \in squashed
        BY <1>2, Times DEF Was, NoRecord, Shared, Sound
    <3> QED BY <1>4, <2>1, <3>1
  <2>2. CASE n \notin taken
      BY <1>2, <2>2 DEF Shared, Sound
  <2> QED BY <2>1, <2>2
<1>9. ASSUME NEW n \in PR PROVE pushes'[n].stamp <= clock'
  <2>1. CASE n \in taken
    <3>1. pushes'[n] = push(n) /\ push(n).stamp = t
        BY <1>1, <2>1 DEF push
    <3> QED BY <1>1, <1>2, <3>1 DEF t
  <2>2. CASE n \notin taken
      BY <1>1, <1>2, <2>2 DEF Shared
  <2> QED BY <2>1, <2>2
<1>10. ASSUME NEW n \in PR, Standing(n)'
       PROVE  /\ Found(n)' /\ lease'.prs[n] >= pushes'[n].stamp
              /\ ~pushes'[n].shown => Recorded(file.prs, n)'
  <2>1. CASE n \in taken
    <3>1. /\ pushes'[n] = push(n) /\ push(n).stamp = t /\ push(n).head = heads[n]
          /\ push(n).lacked = (n \in lacked[p])
        BY <1>1, <2>1 DEF push
    <3>2. clock < t + PushLag /\ n \in job[p].prs \ lacked[p]
        BY <1>1, <1>3, <1>10, <2>1, <3>1 DEF Standing
    <3>3. Found(n) /\ lease.prs[n] >= t
        BY <1>1, <1>2, <3>2 DEF Held, Leased, t
    <3>4. Recorded(file.prs, n)'
        BY <1>4, <1>6, <2>1, <3>1, <3>3 DEF Recorded, Found
    <3> QED BY <1>1, <1>2, <3>1, <3>3, <3>4 DEF Grows
  <2>2. CASE n \notin taken
    <3>1. pushes'[n] = pushes[n]
        BY <1>1, <2>2
    <3>2. Standing(n) /\ Found(n)' /\ lease'.prs[n] >= pushes'[n].stamp
        BY <1>10, <3>1, StandKept
    <3>3. ASSUME ~pushes'[n].shown PROVE Recorded(file.prs, n)'
      <4>1. Recorded(file.prs, n)
          BY <1>2, <3>1, <3>2, <3>3 DEF Shared
      <4>2. n \in DOMAIN file'.prs /\ file'.prs[n] = file.prs[n]
          BY <1>6, <2>2, <4>1 DEF Recorded
      <4> QED BY <3>1, <4>1, <4>2 DEF Recorded
    <3> QED BY <3>2, <3>3
  <2> QED BY <2>1, <2>2
<1> QED BY <1>2, <1>7, <1>8, <1>9, <1>10 DEF Shared, Grows

LEMMA SharedStep == ASSUME TypeInv, ReadsInv, [Next]_vars PROVE Shared'
<1>1. Grows /\ Shared
    BY GrowsStep DEF ReadsInv
<1>2. ASSUME pushes' = pushes, file'.prs = file.prs PROVE Shared'
  <2>1. Sound(file.prs)'
      BY <1>1, <1>2 DEF Shared, Sound, Grows
  <2>2. pushes' \in [PR -> PushesNoted]
      BY <1>1, <1>2 DEF Shared
  <2>3. \A n \in PR : Recorded(file.prs, n) => /\ file'.prs[n].pushedHead = pushes[n].head
                                              /\ file'.prs[n].pushedAt = pushes[n].stamp
      BY <1>2 DEF Recorded
  <2> QED BY <1>2, <2>1, <2>2, <2>3, SharedKept
<1>3. ASSUME NEW p \in Process, Land(p) \/ LandRest(p) PROVE Shared'
  <2>1. squashed' = squashed
      BY <1>3 DEF Land, LandRest, github
  <2>2. Sound(file.prs)'
    <3>1. Sound(file'.prs)
        BY <1>3, LandKeeps
    <3> QED BY <2>1, <3>1 DEF Sound
  <2>3. pushes' \in [PR -> PushesNoted]
    <3>1. \A n \in PR : pushes'[n] \in PushesNoted
        BY <1>3, LandPushes
    <3>2. Noted(file'.prs)
        BY <1>3 DEF Land, LandRest
    <3> QED BY <3>1, <3>2 DEF Noted
  <2> QED BY <1>3, <2>2, <2>3, LandPushes, SharedKept
<1>4. ASSUME NEW p \in Process, \/ \E w \in Wants : Begin(p, w)
                                \/ \E o \in Outcomes : Probe(p, o)
                                \/ \E o \in Outcomes, g \in Graphite : Serve(p, o, g)
                                \/ \E n \in PR : GitPush(p, n)
                                \/ Look(p) \/ Cut(p) \/ Claim(p) \/ Over(p) \/ Miss(p) \/ Renew(p)
                                \/ Leave(p)
      PROVE  Shared'
  <2>1. pushes' = pushes
      BY <1>4 DEF Begin, Look, Cut, Claim, Over, Probe, Serve, Miss, GitPush, Renew, Leave, past
  <2>2. file'.prs = file.prs
    <3>1. file \in Files
        BY OnFile, <1>4
    <3>2. \/ file' = file
          \/ file' = [file EXCEPT !.attemptedAt = now[p], !.failure = Never]
          \/ \E b : file' = [file EXCEPT !.backoff = b]
        BY <1>4 DEF Begin, Look, Cut, Claim, Over, Probe, Serve, Miss, GitPush, Renew, Leave
    <3> QED BY <3>1, <3>2 DEF Files
  <2> QED BY <1>2, <2>1, <2>2
<1>5. ASSUME World \/ UNCHANGED vars PROVE Shared'
    BY <1>2, <1>5 DEF World, Show, OpenPR, Squash, TimePasses, vars, past
<1> QED BY <1>3, <1>4, <1>5, MarkShared DEF Next, Step

LEMMA HeldTypesStep == ASSUME TypeInv, ReadsInv, [Next]_vars PROVE HeldTypes'
<1>1. HeldTypes /\ clock' \in Instant
    BY TypeStep, Times DEF ReadsInv, TypeInv
<1>2. ASSUME NEW p \in Process, Reads(p) PROVE HeldTypes'
  <2>1. Goes(p)
      BY <1>2, ReadResult DEF Result
  <2> QED BY <1>1, <1>2, <2>1, ReadFrame DEF HeldTypes, Goes
<1>3. ASSUME NEW p \in Process, NEW w \in Wants, Begin(p, w) PROVE HeldTypes'
  <2> DEFINE found == {n \in w.prs \cup UNION {Under[l] : l \in w.lanes} : Lacking(n)}
  <2>1. found \subseteq PR
      BY WantAssumption, SetAssumption DEF WantAssumption, SetAssumption
  <2>2. lacked' = [lacked EXCEPT ![p] = found] /\ asked' = [asked EXCEPT ![p] = clock']
        /\ answer' = answer
      BY <1>3 DEF Begin
  <2> HIDE DEF found
  <2> QED BY <1>1, <2>1, <2>2 DEF HeldTypes
<1>4. ASSUME NEW p \in Process, NEW n \in PR, GitPush(p, n) PROVE HeldTypes'
    BY <1>1, <1>4 DEF GitPush, read, HeldTypes
<1>5. ASSUME NEW p \in Process, Leave(p) PROVE HeldTypes'
  <2>1. NoAnswer \in Answers /\ Never \in Instant
      BY EmptyPartial, Times DEF NoAnswer, Answers
  <2> QED BY <1>1, <1>5, <2>1 DEF Leave, HeldTypes
<1>6. ASSUME World \/ UNCHANGED vars
               \/ \E p \in Process : \/ Renew(p) \/ Mark(p)
                                     \/ \E o \in Outcomes, g \in Graphite : Serve(p, o, g)
      PROVE  HeldTypes'
  <2>1. asked' = asked /\ answer' = answer /\ lacked' = lacked
      BY <1>6 DEF World, Show, OpenPR, Squash, TimePasses, vars, read, past, Renew, Mark, Serve
  <2> QED BY <1>1, <2>1 DEF HeldTypes
<1> QED BY <1>2, <1>3, <1>4, <1>5, <1>6 DEF Next, Step, Reads

-----------------------------------------------------------------------------
LEMMA ReadsInit == Init => ReadsInv
<1> SUFFICES ASSUME Init PROVE ReadsInv
    OBVIOUS
<1>1. HeldTypes
  <2>1. NoAnswer \in Answers /\ Never \in Instant
      BY EmptyPartial, Times DEF NoAnswer, Answers
  <2> QED BY <2>1 DEF Init, HeldTypes
<1>2. Shared
  <2> DEFINE none == [head |-> 0, stamp |-> Never, shown |-> FALSE, lacked |-> FALSE]
  <2>1. none \in PushesNoted
      BY Times DEF PushesNoted
  <2>2. clock = Epoch /\ shown = heads /\ DOMAIN file.prs = {}
      BY DEF Init, EmptyFile
  <2>3. \A n \in PR : pushes[n] = none
      BY DEF Init
  <2>4. pushes \in [PR -> PushesNoted]
    <3> HIDE DEF none
    <3> QED BY <2>1, <2>3 DEF Init, none
  <2>5. \A n \in PR : pushes[n].stamp = 0 /\ ~Standing(n)
      BY <2>2, <2>3, Spans, Times DEF Standing
  <2> QED BY <2>2, <2>4, <2>5, Times DEF Shared, Sound
<1>3. ASSUME NEW p \in Process PROVE Held(p)
  <2>1. /\ clock = Epoch /\ pc[p] = "idle" /\ want[p] = NoWant /\ asked[p] = Never
        /\ now[p] = Never /\ job[p] = NoJob /\ answer[p] = NoAnswer /\ lacked[p] = {}
      BY DEF Init
  <2>2. NoWant.prs = {} /\ NoWant.after = Never
      BY DEF NoWant
  <2>3. NoJob.cause = "ok" /\ NoJob.kind = "none"
      BY DEF NoJob
  <2>4. NoAnswer.kind = "none"
      BY DEF NoAnswer
  <2>5. Timed(p)
      BY <2>1, <2>2, Times DEF Timed
  <2>6. Asks(p)
      BY <2>1, <2>2, <2>3, <2>4 DEF Asks
  <2>7. Told(p) /\ Leased(p) /\ Covered(p)
      BY <2>1, <2>2 DEF Told, Leased, Covered, Wanted
  <2> QED BY <2>5, <2>6, <2>7 DEF Held
<1> QED BY <1>1, <1>2, <1>3 DEF ReadsInv

LEMMA ReadsStep == TypeInv /\ ReadsInv /\ [Next]_vars => ReadsInv'
BY SharedStep, HeldTypesStep, HeldStep DEF ReadsInv

(* What each read was told, each push a read is told of, and the leases,   *)
(* requests and records it rests on.                                       *)
THEOREM ReadsInvariance == Spec => [](TypeInv /\ ReadsInv)
BY TypeInit, TypeStep, ReadsInit, ReadsStep, PTL DEF Spec

(* No caller is told anything but in the step that ends its read; while it *)
(* has its answer the store stands still.                                  *)
LEMMA Answering ==
    ASSUME TypeInv, ReadsInv, [Next]_vars, NEW p \in Process, pc'[p] = "done", answer'[p].kind # "none"
    PROVE  \/ Reads(p)
           \/ /\ Idles(p) /\ pc[p] = "done" /\ UNCHANGED <<clock, squashed, pushes>>
<1>1. CASE UNCHANGED vars
    BY <1>1 DEF vars, github, read, sent, past, Idles
<1>2. ASSUME NEW q \in Process, Leave(q)
      PROVE  Idles(p) /\ pc[p] = "done" /\ UNCHANGED <<clock, squashed, pushes>>
  <2>1. p # q
      BY <1>2, SetsUp DEF Leave, Go
  <2> QED BY <1>2, <2>1, OthersIdle DEF Leave, github, Idles
<1>3. ASSUME World, pc[p] # "done" PROVE FALSE
    BY <1>3 DEF World, Show, OpenPR, Squash, TimePasses
<1>4. ASSUME NEW q \in Process, Step(q), pc[p] # "done" PROVE Reads(p)
  <2>1. q = p
      BY <1>4, OthersIdle DEF Idles
  <2>2. ~Mark(p)
    <3>1. Mark(p) => answer'[p].kind = "none"
        BY <1>4, SetsUp DEF Mark
    <3> QED BY <3>1
  <2>3. ASSUME \/ \E w \in Wants : Begin(p, w)
               \/ \E o \in Outcomes, g \in Graphite : Serve(p, o, g)
               \/ \E n \in PR : GitPush(p, n)
               \/ Renew(p)
        PROVE  FALSE
      BY <2>3, SetsUp DEF Begin, Serve, GitPush, Renew, Go
  <2> QED BY <1>4, <2>1, <2>2, <2>3 DEF Step, Reads
<1> QED BY <1>1, <1>2, <1>3, <1>4 DEF Next

Recents == AnswersAreRecent /\ MissingIsTrue /\ PushesStand

LEMMA RecentsInit == Init => Recents
BY DEF Init, Recents, AnswersAreRecent, MissingIsTrue, PushesStand, Answered

LEMMA RecentStep ==
    ASSUME TypeInv, ReadsInv, AnswersAreRecent, [Next]_vars PROVE AnswersAreRecent'
<1> SUFFICES ASSUME NEW p \in Process, pc'[p] = "done", answer'[p].kind = "ok", Prompt(p)',
                    NEW n \in want'[p].prs \ lacked'[p]
             PROVE  /\ n \in DOMAIN answer'[p].prs
                    /\ answer'[p].prs[n].seen >= want'[p].after
                    /\ want'[p].patient /\ n \notin squashed' =>
                         answer'[p].prs[n].seen > asked'[p] - MaxAge(want[p])'
    BY DEF AnswersAreRecent, Answered
<1>1. CASE Reads(p)
  <2>1. Says(p, file'.prs) /\ ReadsInv' /\ TypeInv'
      BY <1>1, ReadResult, ReadsStep, TypeStep DEF Result
  <2>2. /\ want' = want /\ asked' = asked /\ lacked' = lacked /\ squashed' = squashed
      BY <1>1, ReadFrame
  <2>3. Prompt(p) /\ n \in Wanted(p)
      BY <2>2, SameRead DEF Wanted
  <2>4. /\ n \in DOMAIN answer'[p].prs /\ Reaches(file'.prs, p, n)
        /\ want[p].patient => Recent(file'.prs, p, n)
        /\ n \in DOMAIN file'.prs /\ answer'[p].prs[n] = file'.prs[n]
      BY <2>1, <2>3 DEF Says
  <2>5. file'.prs[n].seen >= file'.prs[n].polledAt
      BY <2>1, <2>4 DEF ReadsInv, Shared, Sound
  <2>6. /\ file'.prs[n].seen \in Nat /\ file'.prs[n].polledAt \in Nat
        /\ want[p].after \in Nat /\ asked[p] \in Nat /\ MaxAge(want[p]) \in Nat
    <3>1. file'.prs \in PRRecords
        BY <2>1 DEF TypeInv, StoreType, Files
    <3>2. file'.prs[n] \in Records
        BY <2>4, <3>1, RecordsPartial
    <3>3. want[p].after \in Instant /\ want[p].maxAge \in Nat
        BY SetsUp DEF WantsRead
    <3> QED BY <3>2, <3>3, OnFile, Times DEF Records, MaxAge
  <2>7. MaxAge(want[p])' = MaxAge(want[p])
      BY <2>2 DEF MaxAge
  <2> QED BY <2>2, <2>4, <2>5, <2>6, <2>7 DEF Reaches, Recent
<1>2. CASE Idles(p) /\ pc[p] = "done" /\ UNCHANGED <<clock, squashed, pushes>>
    BY <1>2 DEF Idles, AnswersAreRecent, Answered, Prompt, MaxAge
<1> QED BY <1>1, <1>2, Answering

LEMMA MissingStep ==
    ASSUME TypeInv, ReadsInv, MissingIsTrue, [Next]_vars PROVE MissingIsTrue'
<1> SUFFICES ASSUME NEW p \in Process, pc'[p] = "done", answer'[p].kind = "missing", Prompt(p)'
             PROVE  lacked'[p] \cap want'[p].prs # {}
    BY DEF MissingIsTrue, Answered
<1>1. CASE Reads(p)
  <2>1. Lacked(p)
      BY <1>1, ReadResult DEF Result, Reasons
  <2> QED BY <1>1, <2>1, ReadFrame, SameRead DEF Lacked
<1>2. CASE Idles(p) /\ pc[p] = "done" /\ UNCHANGED <<clock, squashed, pushes>>
    BY <1>2 DEF Idles, MissingIsTrue, Answered, Prompt
<1> QED BY <1>1, <1>2, Answering

LEMMA PushStep ==
    ASSUME TypeInv, ReadsInv, PushesStand, [Next]_vars PROVE PushesStand'
<1> SUFFICES ASSUME NEW p \in Process, pc'[p] = "done", answer'[p].kind = "ok",
                    NEW n \in DOMAIN answer'[p].prs,
                    clock' < pushes'[n].stamp + PushLag, ~pushes'[n].shown, ~pushes'[n].lacked
             PROVE  Head(answer'[p].prs[n]) >= pushes'[n].head
    BY DEF PushesStand, Answered, Head
<1>1. CASE Reads(p)
  <2>1. Says(p, file'.prs) /\ ReadsInv' /\ TypeInv'
      BY <1>1, ReadResult, ReadsStep, TypeStep DEF Result
  <2>2. n \in DOMAIN file'.prs /\ answer'[p].prs[n] = file'.prs[n]
      BY <2>1 DEF Says
  <2>3. n \in PR /\ file'.prs[n] \in Records
    <3>1. file'.prs \in PRRecords
        BY <2>1 DEF TypeInv, StoreType, Files
    <3> QED BY <2>2, <3>1, RecordsPartial
  <2>4. Standing(n)'
      BY DEF Standing
  <2>5. Recorded(file.prs, n)'
      BY <2>1, <2>3, <2>4 DEF ReadsInv, Shared
  <2>6. file'.prs[n].pushedHead = pushes'[n].head /\ pushes'[n].head # 0
      BY <2>5 DEF Recorded
  <2>7. file'.prs[n].pushedHead \in 0 .. MaxHead
      BY <2>3 DEF Records
  <2> QED BY <2>2, <2>6, <2>7 DEF Head
<1>2. CASE Idles(p) /\ pc[p] = "done" /\ UNCHANGED <<clock, squashed, pushes>>
    BY <1>2 DEF Idles, PushesStand, Answered, Head
<1> QED BY <1>1, <1>2, Answering

(* A read that is answered while its leases hold was told of every pull    *)
(* request it names, as GitHub showed it no earlier than After and, if it  *)
(* is patient, within its MaxAge or MinInterval: whichever process polled  *)
(* it, though polls overlap, fail, land late and in any order, and though  *)
(* the read is answered by a poll that did not ask for what it names.      *)
THEOREM AnswersRecent == Spec => []AnswersAreRecent
<1>1. Init => AnswersAreRecent
    BY RecentsInit DEF Recents
<1>2. (TypeInv /\ ReadsInv) /\ AnswersAreRecent /\ [Next]_vars => AnswersAreRecent'
    BY RecentStep
<1> QED BY <1>1, <1>2, ReadsInvariance, PTL DEF Spec

(* A read that is told that a pull request is missing names one that       *)
(* GitHub lacked when it asked, or had just told another process it        *)
(* lacked: a lease keeps every other record from being pruned under it.    *)
THEOREM MissingTrue == Spec => []MissingIsTrue
<1>1. Init => MissingIsTrue
    BY RecentsInit DEF Recents
<1>2. (TypeInv /\ ReadsInv) /\ MissingIsTrue /\ [Next]_vars => MissingIsTrue'
    BY MissingStep
<1> QED BY <1>1, <1>2, ReadsInvariance, PTL DEF Spec

(* A push is told of, from when it is recorded until a poll that shows it  *)
(* has landed or PushLag has passed, whatever polls that began before it   *)
(* or were answered by a lagging API land in between.                      *)
THEOREM PushesTold == Spec => []PushesStand
<1>1. Init => PushesStand
    BY RecentsInit DEF Recents
<1>2. (TypeInv /\ ReadsInv) /\ PushesStand /\ [Next]_vars => PushesStand'
    BY PushStep
<1> QED BY <1>1, <1>2, ReadsInvariance, PTL DEF Spec
===============================================================================
