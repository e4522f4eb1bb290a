------------------------- MODULE HlsDownloader_proofs -------------------------
(***************************************************************************)
(* Theorems about HlsDownloader, for any number of segments, workers and   *)
(* places in the queue, and any playlists.                                 *)
(***************************************************************************)
EXTENDS HlsDownloader, SequenceTheorems, TLAPS

(* Between two runs nothing is known of a playlist; a run that has read    *)
(* one keeps it, and has the part open when it writes.                     *)
RunTells ==
    /\ stage \in {"keys", "writing", "persist", "leaving", "publish"}
       => layout \in Layouts
    /\ stage \in {"writing", "persist", "leaving"} => there
    /\ stage \in {"persist", "leaving"} /\ outcome = "done" => done = NumSegments
    /\ stage = "publish" => done = NumSegments

(* What is on the disk, unless a crash left a sidecar that does not        *)
(* describe the part: before the keys are there, and after the loop, the   *)
(* sidecar is the part; while the segments come, the part holds those that *)
(* are counted as written.                                                 *)
DiskTells ==
    ~stale =>
        /\ stage \in {"idle", "manifest", "keys", "leaving"}
           => Describes(sidecar, there, part)
        /\ stage \in {"keys", "writing", "persist", "leaving", "publish"}
           => part = Prefix(layout, done)

HlsInv == HlsTypeOK /\ RunTells /\ DiskTells

----------------------------------------------------------------------------
(* Lemmas about the operators.                                             *)

Sigs == Layouts \X Segments

(* The first segments of a playlist.                                       *)
LEMMA PrefixSeq ==
  ASSUME NEW l \in Layouts, NEW n \in 0 .. NumSegments
  PROVE  /\ Prefix(l, n) \in Seq(Sigs)
         /\ Len(Prefix(l, n)) = n
         /\ \A i \in 1 .. n : Prefix(l, n)[i] = Signature(l, i)
  <1>1. NumSegments \in Nat /\ n \in Nat /\ n <= NumSegments
    BY HlsAssumption
  <1>2. \A i \in 1 .. n : Signature(l, i) \in Sigs
    BY <1>1 DEF Signature, Sigs, Segments
  <1>3. Prefix(l, n) \in [1 .. n -> Sigs]
    BY <1>2 DEF Prefix
  <1>4. Prefix(l, n) \in Seq(Sigs)
    BY <1>1, <1>3, SeqDef
  <1>5. Len(Prefix(l, n)) = n
    <2>1. DOMAIN Prefix(l, n) = 1 .. n
      BY DEF Prefix
    <2>2. /\ Len(Prefix(l, n)) \in Nat
          /\ DOMAIN Prefix(l, n) = 1 .. Len(Prefix(l, n))
      BY <1>4, LenProperties
    <2> QED BY <1>1, <2>1, <2>2
  <1> QED BY <1>4, <1>5 DEF Prefix

(* Nothing, and one segment more.                                          *)
LEMMA PrefixNone ==
  ASSUME NEW l \in Layouts
  PROVE  Prefix(l, 0) = <<>>
  <1>1. 0 \in 0 .. NumSegments
    BY HlsAssumption
  <1>2. Prefix(l, 0) \in Seq(Sigs) /\ Len(Prefix(l, 0)) = 0
    BY <1>1, PrefixSeq
  <1> QED BY <1>2, EmptySeq

LEMMA PrefixNext ==
  ASSUME NEW l \in Layouts, NEW n \in 0 .. NumSegments, n + 1 \in Segments
  PROVE  Append(Prefix(l, n), Signature(l, n + 1)) = Prefix(l, n + 1)
  <1>1. n + 1 \in 0 .. NumSegments /\ n \in Nat
    BY DEF Segments
  <1>2. Signature(l, n + 1) \in Sigs
    BY DEF Signature, Sigs
  <1>3. PICK s \in Seq(Sigs) :
           /\ s = Append(Prefix(l, n), Signature(l, n + 1))
           /\ Len(s) = n + 1
           /\ \A i \in 1 .. n : s[i] = Signature(l, i)
           /\ s[n + 1] = Signature(l, n + 1)
    <2>1. PICK p \in Seq(Sigs) :
             /\ p = Prefix(l, n) /\ Len(p) = n
             /\ \A i \in 1 .. n : p[i] = Signature(l, i)
      BY PrefixSeq
    <2>2. PICK e \in Sigs : e = Signature(l, n + 1)
      BY <1>2
    <2>3. /\ Append(p, e) \in Seq(Sigs)
          /\ Len(Append(p, e)) = Len(p) + 1
          /\ \A i \in 1 .. Len(p) : Append(p, e)[i] = p[i]
          /\ Append(p, e)[Len(p) + 1] = e
      BY AppendProperties
    <2> QED BY <2>1, <2>2, <2>3
  <1>4. PICK t \in Seq(Sigs) :
           /\ t = Prefix(l, n + 1) /\ Len(t) = n + 1
           /\ \A i \in 1 .. n + 1 : t[i] = Signature(l, i)
    BY <1>1, PrefixSeq
  <1>5. \A i \in 1 .. Len(s) : s[i] = t[i]
    BY <1>1, <1>3, <1>4
  <1>6. s = t
    BY <1>3, <1>4, <1>5, SeqEqual
  <1> QED BY <1>3, <1>4, <1>6

(* The segments that are left for the workers.                             *)
LEMMA JobsSeq ==
  ASSUME NEW n \in 0 .. NumSegments
  PROVE  JobsFrom(n) \in Seq(Segments)
  <1>1. NumSegments \in Nat /\ NumSegments - n \in Nat
    BY HlsAssumption
  <1>2. \A i \in 1 .. NumSegments - n : n + i \in Segments
    BY <1>1 DEF Segments
  <1>3. JobsFrom(n) \in [1 .. NumSegments - n -> Segments]
    BY <1>2 DEF JobsFrom
  <1> QED BY <1>1, <1>3, SeqDef

(* What a crash leaves of the part.                                        *)
LEMMA CutSeq ==
  ASSUME NEW S, NEW s \in Seq(S), NEW n \in 0 .. Len(s)
  PROVE  SubSeq(s, 1, n) \in Seq(S) /\ Len(SubSeq(s, 1, n)) = n
  <1>1. Len(s) \in Nat /\ n \in Int /\ 1 \in Int
    BY LenProperties
  <1>2. \A i \in 1 .. n : s[i] \in S
    BY <1>1, ElementOfSeq
  <1> QED BY <1>1, <1>2, SubSeqProperties

(* A worker that goes on.                                                  *)
LEMMA WorkerOff ==
  /\ NoResult \in Result /\ Off \in WorkerState
  /\ [Off EXCEPT !.at = "get"] \in WorkerState
  <1>1. 1 \in Segments
    BY HlsAssumption DEF Segments
  <1> QED BY <1>1 DEF NoResult, Result, Off, WorkerState

LEMMA TurnsType ==
  ASSUME worker \in [Workers -> WorkerState], NEW w \in Workers,
         NEW at \in {"off", "get", "fetch", "put", "dead"}, Turns(w, at)
  PROVE  worker' \in [Workers -> WorkerState]
  BY DEF Turns, WorkerState

----------------------------------------------------------------------------
(* The types, by the groups of variables that the actions change or leave. *)

Stages == {"idle", "manifest", "keys", "writing", "persist", "leaving",
           "publish", "tidy"}
DiskType == /\ there \in BOOLEAN /\ part \in Seq(Sigs)
            /\ flushed \in 0 .. Len(part)
            /\ sidecar \in Seq(Sigs) /\ stale \in BOOLEAN
RunType  == /\ layout \in Layouts \union {0}
            /\ outcome \in {"none", "done", "cancelled", "failed"}
            /\ held \subseteq Segments /\ done \in 0 .. NumSegments
            /\ step \in {"check", "get", "write"}
TeamType == /\ jobs \in Seq(Segments) /\ results \in Seq(Result)
            /\ worker \in [Workers -> WorkerState] /\ abort \in BOOLEAN
TheRest  == stage \in Stages /\ cancel \in BOOLEAN

LEMMA TypesTogether == HlsTypeOK <=> DiskType /\ RunType /\ TeamType /\ TheRest
  BY DEF HlsTypeOK, DiskType, RunType, TeamType, TheRest, Stages, Sigs

LEMMA TypesKept ==
  ASSUME HlsTypeOK
  PROVE  /\ UNCHANGED disk => DiskType'
         /\ UNCHANGED run => RunType'
         /\ UNCHANGED team => TeamType'
  BY TypesTogether DEF DiskType, RunType, TeamType, disk, run, team

(* A run that ends, with and without what it has on the disk.              *)
LEMMA EndsType == Ends => RunType' /\ stage' = "idle"
  BY HlsAssumption DEF Ends, RunType

LEMMA DiscardType ==
  there' = FALSE /\ part' = <<>> /\ flushed' = 0 /\ sidecar' = <<>> /\ stale' = FALSE
  => DiskType'
  <1>1. <<>> \in Seq(Sigs) /\ 0 \in 0 .. Len(<<>>)
    BY EmptySeq
  <1> QED BY <1>1 DEF DiskType

(* A run that ends leaves a sidecar that describes the part, or none.      *)
LEMMA EndsKeepingKeeps ==
  ASSUME HlsInv, stage \in {"manifest", "keys", "leaving"}, EndsKeeping
  PROVE  HlsInv'
  <1>1. DiskType' /\ RunType' /\ TeamType' /\ TheRest'
    BY TypesKept, TypesTogether, EndsType
       DEF HlsInv, EndsKeeping, TheRest, Stages
  <1>2. HlsTypeOK'
    BY <1>1, TypesTogether, PTL
  <1>3. RunTells' /\ DiskTells'
    BY DEF HlsInv, DiskTells, RunTells, EndsKeeping, Ends, disk, Describes
  <1> QED BY <1>2, <1>3 DEF HlsInv

LEMMA EndsDiscardingKeeps ==
  ASSUME HlsInv, EndsDiscarding
  PROVE  HlsInv'
  <1>1. DiskType' /\ RunType' /\ TeamType' /\ TheRest'
    BY TypesKept, TypesTogether, EndsType, DiscardType
       DEF HlsInv, EndsDiscarding, TheRest, Stages
  <1>2. HlsTypeOK'
    BY <1>1, TypesTogether, PTL
  <1>3. RunTells' /\ DiskTells'
    BY DEF DiskTells, RunTells, EndsDiscarding, Ends, Describes
  <1> QED BY <1>2, <1>3 DEF HlsInv

----------------------------------------------------------------------------
(* The steps before the segments, of the team, and of the writer.          *)

LEMMA ReadKeeps ==
  ASSUME HlsInv, Read
  PROVE  HlsInv'
  <1>1. /\ HlsTypeOK /\ DiskType /\ RunType /\ layout' \in Layouts
        /\ UNCHANGED <<outcome, held, step, team, cancel>>
        /\ stage = "manifest" /\ stage' = "keys"
    BY TypesTogether DEF HlsInv, Read
  <1>2. CASE there /\ Resumes(layout')
    <2>1. done' = Len(sidecar) /\ UNCHANGED disk
      BY <1>2 DEF Read
    <2>2. Len(sidecar) \in 0 .. NumSegments
      BY <1>1, <1>2, LenProperties, HlsAssumption DEF Resumes, DiskType
    <2>3. DiskType' /\ RunType' /\ TeamType' /\ TheRest'
      BY <1>1, <2>1, <2>2, TypesKept, TypesTogether DEF RunType, TheRest, Stages
    <2>4. HlsTypeOK'
      BY <2>3, TypesTogether, PTL
    <2>5. RunTells'
      BY <1>1 DEF RunTells
    <2>6. DiskTells'
      BY <1>1, <1>2, <2>1 DEF HlsInv, DiskTells, Describes, Resumes, disk
    <2> QED BY <2>4, <2>5, <2>6 DEF HlsInv
  <1>3. CASE ~(there /\ Resumes(layout'))
    <2>1. /\ done' = 0 /\ there' = FALSE /\ part' = <<>> /\ flushed' = 0
          /\ sidecar' = IF there THEN <<>> ELSE sidecar
          /\ stale' = (stale /\ ~there)
      BY <1>3 DEF Read
    <2>2. DiskType'
      <3>1. stale' \in BOOLEAN
        BY <2>1, Zenon
      <3>2. sidecar' \in Seq(Sigs)
        BY <1>1, <2>1, EmptySeq DEF DiskType
      <3>3. <<>> \in Seq(Sigs) /\ 0 \in 0 .. Len(<<>>)
        BY EmptySeq
      <3> QED BY <2>1, <3>1, <3>2, <3>3 DEF DiskType
    <2>3. RunType' /\ TeamType' /\ TheRest'
      BY <1>1, <2>1, TypesKept, TypesTogether, HlsAssumption
         DEF RunType, TheRest, Stages
    <2>4. HlsTypeOK'
      BY <2>2, <2>3, TypesTogether, PTL
    <2>5. RunTells'
      BY <1>1 DEF RunTells
    <2>6. ~stale' => Describes(sidecar', there', part')
      <3>1. CASE there
        BY <2>1, <3>1 DEF Describes
      <3>2. CASE ~there
        BY <1>1, <2>1, <3>2 DEF HlsInv, DiskTells, Describes
      <3> QED BY <3>1, <3>2
    <2>7. part' = Prefix(layout', done')
      BY <1>1, <2>1, PrefixNone
    <2>8. DiskTells'
      BY <1>1, <2>6, <2>7 DEF DiskTells
    <2> QED BY <2>4, <2>5, <2>8 DEF HlsInv
  <1> QED BY <1>2, <1>3

LEMMA StartKeeps ==
  ASSUME HlsInv, Start
  PROVE  HlsInv'
  <1>1. /\ HlsTypeOK /\ DiskType /\ RunType /\ TeamType /\ stage = "keys"
        /\ UNCHANGED <<run, results, abort, cancel>>
    BY TypesTogether DEF HlsInv, Start
  <1>2. layout \in Layouts /\ UNCHANGED <<layout, outcome, held, done, step>>
    BY <1>1 DEF HlsInv, RunTells, run
  <1>3. CASE done = NumSegments
    <2>1. stage' = "publish" /\ UNCHANGED <<disk, jobs, worker>>
      BY <1>3 DEF Start
    <2>2. DiskType' /\ RunType' /\ TeamType' /\ TheRest'
      BY <1>1, <2>1, TypesKept, TypesTogether DEF TeamType, TheRest, Stages
    <2>3. HlsTypeOK'
      BY <2>2, TypesTogether, PTL
    <2> QED BY <1>1, <1>2, <1>3, <2>1, <2>3 DEF HlsInv, RunTells, DiskTells, disk
  <1>4. CASE done # NumSegments
    <2>1. /\ stage' = "writing" /\ jobs' = JobsFrom(done)
          /\ worker' = [w \in Workers |->
                          IF w <= NumSegments - done
                          THEN [Off EXCEPT !.at = "get"] ELSE Off]
          /\ there' = TRUE /\ UNCHANGED <<part, flushed, sidecar, stale>>
      BY <1>4 DEF Start
    <2>2. worker' \in [Workers -> WorkerState]
      BY <2>1, WorkerOff
    <2>3. jobs' \in Seq(Segments)
      BY <1>1, <2>1, JobsSeq DEF RunType
    <2>4. DiskType' /\ RunType' /\ TeamType' /\ TheRest'
      BY <1>1, <2>1, <2>2, <2>3, TypesKept, TypesTogether
         DEF DiskType, TeamType, TheRest, Stages
    <2>5. HlsTypeOK'
      BY <2>4, TypesTogether, PTL
    <2> QED BY <1>1, <1>2, <2>1, <2>5 DEF HlsInv, RunTells, DiskTells
  <1> QED BY <1>3, <1>4

(* What only the team does, or the user.                                   *)
LEMMA TeamKeeps ==
  ASSUME HlsInv, UNCHANGED <<stage, disk, run>>, TeamType', cancel' \in BOOLEAN
  PROVE  HlsInv'
  <1>1. DiskType' /\ RunType' /\ TheRest'
    BY TypesKept, TypesTogether DEF HlsInv, TheRest
  <1>2. HlsTypeOK'
    BY <1>1, TypesTogether, PTL
  <1>3. RunTells' /\ DiskTells'
    BY DEF HlsInv, RunTells, DiskTells, disk, run
  <1> QED BY <1>2, <1>3 DEF HlsInv

LEMMA WorkerKeeps ==
  ASSUME HlsInv, NEW w \in Workers, WorkerStep(w)
  PROVE  HlsInv'
  <1>1. TeamType /\ TheRest /\ worker[w] \in WorkerState
    BY TypesTogether DEF HlsInv, TeamType
  <1>2. UNCHANGED <<stage, disk, run, cancel>>
    BY DEF WorkerStep, Take, Quits, Fetched, FetchFails, Dies, Puts
  <1>3. CASE Take(w)
    <2>1. Head(jobs) \in Segments /\ Tail(jobs) \in Seq(Segments)
      BY <1>1, <1>3, HeadTailProperties DEF Take, TeamType
    <2>2. worker' \in [Workers -> WorkerState]
      BY <1>1, <1>3, <2>1 DEF Take, TeamType, WorkerState, Result
    <2>3. TeamType'
      BY <1>1, <1>3, <2>1, <2>2 DEF Take, TeamType
    <2> QED BY <1>1, <1>2, <2>3, TeamKeeps DEF TheRest
  <1>4. CASE Quits(w) \/ Fetched(w) \/ Dies(w)
    <2>1. /\ Turns(w, "off") \/ Turns(w, "put") \/ Turns(w, "dead")
          /\ UNCHANGED <<jobs, results, abort>>
      BY <1>4 DEF Quits, Fetched, Dies
    <2>2. worker' \in [Workers -> WorkerState]
      BY <1>1, <2>1, TurnsType DEF TeamType
    <2>3. TeamType'
      BY <1>1, <2>1, <2>2 DEF TeamType
    <2> QED BY <1>1, <1>2, <2>3, TeamKeeps DEF TheRest
  <1>5. CASE FetchFails(w)
    <2>1. PICK kind \in {"error", "cancelled"} :
             /\ worker' = [worker EXCEPT ![w].at = "put", ![w].has.kind = kind]
             /\ abort' = TRUE /\ UNCHANGED <<jobs, results>>
      BY <1>5 DEF FetchFails, Reports
    <2>2. worker' \in [Workers -> WorkerState]
      BY <1>1, <2>1 DEF TeamType, WorkerState, Result
    <2>3. TeamType'
      BY <1>1, <2>1, <2>2 DEF TeamType
    <2> QED BY <1>1, <1>2, <2>3, TeamKeeps DEF TheRest
  <1>6. CASE Puts(w)
    <2>1. worker[w].has \in Result /\ results \in Seq(Result)
      BY <1>1 DEF TeamType, WorkerState
    <2>2. results' \in Seq(Result)
      BY <1>6, <2>1, AppendProperties DEF Puts
    <2>3. worker' \in [Workers -> WorkerState]
      BY <1>1, <1>6, TurnsType DEF Puts, TeamType
    <2>4. TeamType'
      BY <1>1, <1>6, <2>2, <2>3 DEF Puts, TeamType
    <2> QED BY <1>1, <1>2, <2>4, TeamKeeps DEF TheRest
  <1> QED BY <1>3, <1>4, <1>5, <1>6 DEF WorkerStep

LEMMA CheckKeeps ==
  ASSUME HlsInv, Check
  PROVE  HlsInv'
  <1>1. /\ RunType /\ stage = "writing"
        /\ UNCHANGED <<layout, held, done, disk, team, cancel>>
    BY TypesTogether DEF HlsInv, Check, At
  <1>2. \/ done = NumSegments /\ stage' = "persist" /\ outcome' = "done" /\ step' = step
        \/ stage' = "persist" /\ outcome' = "cancelled" /\ step' = step
        \/ step' = "get" /\ stage' = stage /\ outcome' = outcome
    BY DEF Check, Leaves
  <1>3. DiskType' /\ RunType' /\ TeamType' /\ TheRest'
    BY <1>1, <1>2, TypesKept, TypesTogether DEF HlsInv, RunType, TheRest, Stages
  <1>4. HlsTypeOK'
    BY <1>3, TypesTogether, PTL
  <1>5. RunTells' /\ DiskTells'
    BY <1>1, <1>2 DEF HlsInv, RunTells, DiskTells, disk
  <1> QED BY <1>4, <1>5 DEF HlsInv

LEMMA ReceiveKeeps ==
  ASSUME HlsInv, Receive
  PROVE  HlsInv'
  <1>1. /\ RunType /\ TeamType /\ stage = "writing" /\ results # <<>>
        /\ results' = Tail(results)
        /\ UNCHANGED <<layout, done, disk, jobs, worker, abort, cancel>>
    BY TypesTogether DEF HlsInv, Receive, At
  <1>2. Head(results) \in Result /\ Tail(results) \in Seq(Result)
    BY <1>1, HeadTailProperties DEF TeamType
  <1>3. \/ /\ held' = held \union {Head(results).index} /\ step' = "write"
           /\ UNCHANGED <<stage, outcome>>
        \/ /\ stage' = "persist" /\ outcome' \in {"failed", "cancelled"}
           /\ UNCHANGED <<held, step>>
    BY DEF Receive, Leaves
  <1>4. Head(results).index \in Segments
    BY <1>2 DEF Result
  <1>5. RunType' /\ TeamType'
    BY <1>1, <1>2, <1>3, <1>4 DEF RunType, TeamType
  <1>6. DiskType' /\ TheRest'
    BY <1>1, <1>3, TypesKept, TypesTogether DEF HlsInv, TheRest, Stages
  <1>7. HlsTypeOK'
    BY <1>5, <1>6, TypesTogether, PTL
  <1>8. RunTells' /\ DiskTells'
    BY <1>1, <1>3 DEF HlsInv, RunTells, DiskTells, disk
  <1> QED BY <1>7, <1>8 DEF HlsInv

LEMMA WriteKeeps ==
  ASSUME HlsInv, Write
  PROVE  HlsInv'
  <1>1. /\ RunType /\ DiskType /\ stage = "writing" /\ layout \in Layouts
        /\ part' = Append(part, Signature(layout, done + 1))
        /\ held' = held \ {done + 1} /\ done' = done + 1 /\ done + 1 \in held
        /\ UNCHANGED <<stage, layout, outcome, step, there, flushed, sidecar,
                       stale, team, cancel>>
    BY TypesTogether DEF HlsInv, RunTells, Write, At, Ready
  <1>2. done + 1 \in Segments /\ done + 1 \in 0 .. NumSegments /\ done \in 0 .. NumSegments
    BY <1>1 DEF RunType, Segments
  <1>3. Signature(layout, done + 1) \in Sigs
    BY <1>1, <1>2 DEF Signature, Sigs
  <1>4. part' \in Seq(Sigs) /\ Len(part') = Len(part) + 1
    BY <1>1, <1>3, AppendProperties DEF DiskType
  <1>5. Len(part) \in Nat
    BY <1>1, LenProperties DEF DiskType
  <1>6. DiskType' /\ RunType'
    BY <1>1, <1>2, <1>4, <1>5 DEF DiskType, RunType
  <1>7. TeamType' /\ TheRest'
    BY <1>1, TypesKept, TypesTogether DEF HlsInv, TheRest
  <1>8. HlsTypeOK'
    BY <1>6, <1>7, TypesTogether, PTL
  <1>9. ~stale => part' = Prefix(layout, done')
    BY <1>1, <1>2, PrefixNext DEF HlsInv, DiskTells
  <1>10. RunTells' /\ DiskTells'
    BY <1>1, <1>9 DEF HlsInv, RunTells, DiskTells
  <1> QED BY <1>8, <1>10 DEF HlsInv

LEMMA FlushKeeps ==
  ASSUME HlsInv, Flush \/ WriteFails
  PROVE  HlsInv'
  <1>1. /\ RunType /\ DiskType /\ stage = "writing"
        /\ UNCHANGED <<layout, held, done, there, part, sidecar, stale, team, cancel>>
        /\ \/ /\ flushed' = Len(part) /\ step' = "check"
              /\ UNCHANGED <<stage, outcome>>
           \/ /\ stage' = "persist" /\ outcome' = "failed"
              /\ UNCHANGED <<flushed, step>>
    BY TypesTogether DEF HlsInv, Flush, WriteFails, At, Leaves, disk
  <1>2. Len(part) \in 0 .. Len(part)
    BY <1>1, LenProperties DEF DiskType
  <1>3. DiskType' /\ RunType' /\ TeamType' /\ TheRest'
    BY <1>1, <1>2, TypesKept, TypesTogether
       DEF HlsInv, DiskType, RunType, TheRest, Stages
  <1>4. HlsTypeOK'
    BY <1>3, TypesTogether, PTL
  <1>5. RunTells' /\ DiskTells'
    BY <1>1 DEF HlsInv, RunTells, DiskTells
  <1> QED BY <1>4, <1>5 DEF HlsInv

LEMMA PersistKeeps ==
  ASSUME HlsInv, Persist
  PROVE  HlsInv'
  <1>1. /\ RunType /\ DiskType /\ TeamType /\ layout \in Layouts /\ there
        /\ stage = "persist" /\ stage' = "leaving"
        /\ sidecar' = Prefix(layout, done) /\ flushed' = Len(part)
        /\ stale' = (stale /\ part # Prefix(layout, done)) /\ abort' = TRUE
        /\ UNCHANGED <<run, there, part, jobs, results, worker, cancel>>
    BY TypesTogether DEF HlsInv, RunTells, Persist, Recorded
  <1>2. UNCHANGED <<layout, outcome, held, done, step>>
    BY <1>1 DEF run
  <1>3. DiskType'
    <2>1. stale' \in BOOLEAN
      BY <1>1, Zenon
    <2>2. sidecar' \in Seq(Sigs)
      BY <1>1, PrefixSeq DEF RunType
    <2>3. Len(part) \in 0 .. Len(part)
      BY <1>1, LenProperties DEF DiskType
    <2> QED BY <1>1, <2>1, <2>2, <2>3 DEF DiskType
  <1>4. RunType' /\ TeamType' /\ TheRest'
    BY <1>1, TypesKept, TypesTogether DEF HlsInv, TeamType, TheRest, Stages
  <1>5. HlsTypeOK'
    BY <1>3, <1>4, TypesTogether, PTL
  <1>6. RunTells'
    BY <1>1, <1>2 DEF HlsInv, RunTells
  <1>7. ~stale' => part = Prefix(layout, done)
    BY <1>1 DEF HlsInv, DiskTells
  <1>8. DiskTells'
    BY <1>1, <1>2, <1>7 DEF DiskTells, Describes
  <1> QED BY <1>5, <1>6, <1>8 DEF HlsInv

LEMMA LeaveKeeps ==
  ASSUME HlsInv, Leave
  PROVE  HlsInv'
  <1>1. CASE outcome = "done"
    <2>1. stage = "leaving" /\ stage' = "publish" /\ UNCHANGED <<disk, run, team, cancel>>
      BY <1>1 DEF Leave
    <2>2. DiskType' /\ RunType' /\ TeamType' /\ TheRest'
      BY <2>1, TypesKept, TypesTogether DEF HlsInv, TheRest, Stages
    <2>3. HlsTypeOK'
      BY <2>2, TypesTogether, PTL
    <2>4. RunTells' /\ DiskTells'
      BY <1>1, <2>1 DEF HlsInv, RunTells, DiskTells, disk, run
    <2> QED BY <2>3, <2>4 DEF HlsInv
  <1>2. CASE outcome # "done"
    BY <1>2, EndsKeepingKeeps, EndsDiscardingKeeps DEF Leave
  <1> QED BY <1>1, <1>2

LEMMA PublishKeeps ==
  ASSUME HlsInv, Publish
  PROVE  HlsInv'
  <1>1. /\ DiskType /\ stage = "publish" /\ stage' = "tidy"
        /\ there' \in BOOLEAN /\ part' = (IF there' THEN part ELSE <<>>)
        /\ flushed' = Len(part') /\ UNCHANGED <<sidecar, stale, run, team, cancel>>
    BY TypesTogether DEF HlsInv, Publish
  <1>2. part' \in Seq(Sigs)
    BY <1>1, EmptySeq DEF DiskType
  <1>3. flushed' \in 0 .. Len(part')
    BY <1>1, <1>2, LenProperties
  <1>4. DiskType' /\ RunType' /\ TeamType' /\ TheRest'
    BY <1>1, <1>2, <1>3, TypesKept, TypesTogether
       DEF HlsInv, DiskType, TheRest, Stages
  <1>5. HlsTypeOK'
    BY <1>4, TypesTogether, PTL
  <1>6. RunTells' /\ DiskTells'
    BY <1>1 DEF RunTells, DiskTells
  <1> QED BY <1>5, <1>6 DEF HlsInv

----------------------------------------------------------------------------
(* The steps between two runs.                                             *)

LEMMA BeginKeeps ==
  ASSUME HlsInv, Begin
  PROVE  HlsInv'
  <1>1. TeamType'
    BY WorkerOff, EmptySeq DEF Begin, TeamType
  <1>2. DiskType' /\ RunType' /\ TheRest'
    BY TypesKept, TypesTogether DEF HlsInv, Begin, TheRest, Stages
  <1>3. HlsTypeOK'
    BY <1>1, <1>2, TypesTogether, PTL
  <1>4. RunTells' /\ DiskTells'
    BY DEF HlsInv, Begin, RunTells, DiskTells, disk, run
  <1> QED BY <1>3, <1>4 DEF HlsInv

(* What a crash leaves describes itself, or is marked as stale.            *)
LEMMA CrashKeeps ==
  ASSUME HlsInv, Crash
  PROVE  HlsInv'
  <1>1. DiskType /\ TheRest
    BY TypesTogether DEF HlsInv
  <1>2. PICK n \in flushed .. Len(part) : part' = SubSeq(part, 1, n) /\ flushed' = n
    BY DEF Crash
  <1>3. n \in 0 .. Len(part)
    BY <1>1, <1>2 DEF DiskType
  <1>4. part' \in Seq(Sigs) /\ Len(part') = n
    BY <1>1, <1>2, <1>3, CutSeq DEF DiskType
  <1>5. DiskType'
    <2>1. sidecar' \in Seq(Sigs)
      BY <1>1, EmptySeq DEF Crash, DiskType
    <2>2. stale' \in BOOLEAN
      <3>1. stale' = ~Describes(sidecar', there, part')
        BY DEF Crash
      <3> QED BY <3>1, Zenon
    <2> QED BY <1>1, <1>2, <1>3, <1>4, <2>1, <2>2 DEF Crash, DiskType
  <1>6. RunType' /\ stage' = "idle"
    BY EndsType DEF Crash
  <1>7. TeamType' /\ TheRest'
    BY <1>6, WorkerOff, EmptySeq DEF Crash, TeamType, TheRest, Stages
  <1>8. HlsTypeOK'
    BY <1>5, <1>6, <1>7, TypesTogether, PTL
  <1>9. RunTells' /\ DiskTells'
    BY <1>6 DEF Crash, RunTells, DiskTells
  <1> QED BY <1>8, <1>9 DEF HlsInv

LEMMA InitHls == Init => HlsInv
  <1> SUFFICES ASSUME Init PROVE HlsInv
    OBVIOUS
  <1>1. <<>> \in Seq(Sigs) /\ 0 \in 0 .. Len(<<>>) /\ <<>> \in Seq(Segments)
        /\ <<>> \in Seq(Result)
    BY EmptySeq
  <1>2. DiskType /\ RunType /\ TeamType /\ TheRest
    <2>1. DiskType
      BY <1>1 DEF Init, DiskType
    <2>2. RunType
      BY HlsAssumption DEF Init, RunType
    <2>3. TeamType
      BY <1>1, WorkerOff DEF Init, TeamType
    <2> QED BY <2>1, <2>2, <2>3 DEF Init, TheRest, Stages
  <1>3. HlsTypeOK
    BY <1>2, TypesTogether
  <1> QED BY <1>3 DEF Init, HlsInv, RunTells, DiskTells, Describes

LEMMA NextHls == HlsInv /\ [Next]_vars => HlsInv'
  <1> SUFFICES ASSUME HlsInv, [Next]_vars PROVE HlsInv'
    OBVIOUS
  <1>1. CASE Begin
    BY <1>1, BeginKeeps
  <1>2. CASE Cancel \/ UNCHANGED vars
    <2>1. /\ UNCHANGED <<stage, disk, run, team>> /\ cancel' \in {TRUE, cancel}
      BY <1>2 DEF Cancel, vars
    <2>2. TeamType' /\ cancel' \in BOOLEAN
      BY <2>1, TypesKept, TypesTogether DEF HlsInv, TheRest
    <2> QED BY <2>1, <2>2, TeamKeeps
  <1>3. CASE RunStep
    <2>1. CASE ManifestFails \/ KeysFail
      BY <2>1, EndsKeepingKeeps, EndsDiscardingKeeps DEF ManifestFails, KeysFail
    <2>2. CASE Read \/ Start
      BY <2>2, ReadKeeps, StartKeeps
    <2>3. CASE Check \/ Receive \/ Write \/ Flush \/ WriteFails
      BY <2>3, CheckKeeps, ReceiveKeeps, WriteKeeps, FlushKeeps
    <2>4. CASE Persist \/ Leave \/ Publish
      BY <2>4, PersistKeeps, LeaveKeeps, PublishKeeps
    <2>5. CASE PublishFails \/ Tidy
      BY <2>5, EndsDiscardingKeeps DEF PublishFails, Tidy
    <2> QED BY <1>3, <2>1, <2>2, <2>3, <2>4, <2>5 DEF RunStep
  <1>4. CASE Crash
    BY <1>4, CrashKeeps
  <1>5. ASSUME NEW w \in Workers, WorkerStep(w)
        PROVE  HlsInv'
    BY <1>5, WorkerKeeps
  <1> QED BY <1>1, <1>2, <1>3, <1>4, <1>5 DEF Next

----------------------------------------------------------------------------
(* The theorems.                                                           *)

(* The invariant holds in every behaviour of the engine.                   *)
THEOREM HlsInvariant == Spec => []HlsInv
  <1> QED BY InitHls, NextHls, PTL DEF Spec

(* The queue carries the segments of the playlist and nothing else, the    *)
(* part and the sidecar name segments only, and what was flushed is never  *)
(* more than what was written.                                             *)
THEOREM HlsType == Spec => []HlsTypeOK
  <1>1. HlsInv => HlsTypeOK
    BY DEF HlsInv
  <1> QED BY <1>1, HlsInvariant, PTL

(* Between two runs the sidecar names exactly the segments of the part,    *)
(* however the runs ended, unless the process died in one.                 *)
THEOREM SidecarAlwaysDescribes == Spec => []SidecarDescribes
  <1>1. HlsInv => SidecarDescribes
    BY DEF HlsInv, DiskTells, SidecarDescribes
  <1> QED BY <1>1, HlsInvariant, PTL

(* The file a run publishes is the whole stream, each segment once and in  *)
(* order, whatever the order the workers deliver in and whatever was paused*)
(* and resumed before; unless a crash had left a sidecar that does not     *)
(* describe the part.                                                      *)
THEOREM PublishedWhole == Spec => FinishedWhole
  <1>1. HlsInv /\ Publish => part = Whole(layout) \/ stale
    BY DEF HlsInv, RunTells, DiskTells, Publish, Whole
  <1>2. HlsInv => [Publish => part = Whole(layout) \/ stale]_vars
    BY <1>1
  <1> QED BY <1>2, HlsInvariant, PTL DEF FinishedWhole

=============================================================================
