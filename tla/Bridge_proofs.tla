---------------------------- MODULE Bridge_proofs ----------------------------
(***************************************************************************)
(* Theorems about the three parts of the browser bridge, for any number of *)
(* hosts, requests, chunks, captures and files.                            *)
(***************************************************************************)
EXTENDS MCBridge, FiniteSetTheorems, SequenceTheorems, TLAPS

-----------------------------------------------------------------------------
(* The requests                                                            *)

Statuses == {"none", "queued", "sent", "ready", "error", "expired"}
Outcomes == {"none", "waiting", "giving up", "got", "failed"}
Sending  == [how : Sends, next : Chunks]
Progress == {"none", "sending", "done", "refused"}

RequestsTyped ==
    /\ row \in [Requests -> Statuses] /\ whole \in [Requests -> SUBSET Chunks]
    /\ fetch \in [Requests -> Outcomes] /\ seenRow \in [Requests -> Statuses]
    /\ claim \in [Hosts -> Requests \cup {NoRow}]
    /\ job \in [Hosts -> [Keys -> Sending]]
    /\ assembly \in [Hosts -> [Keys -> SUBSET Chunks]]
    /\ stalled \in [Hosts -> SUBSET Keys] /\ capture \in [CaptureKeys -> Progress]

\* The assemblies a host has, and that there are never too many of them
Assembled(h) == {k \in Keys : assembly[h][k] # {}}
Bounded == \A h \in Hosts : Cardinality(Assembled(h)) <= MaxAssemblies
\* A row says it is ready once it has every chunk, and is not taken back
ReadyWhole == \A r \in Requests : row[r] = "ready" \/ fetch[r] = "got" => whole[r] = Chunks

Answering == RequestsTyped /\ Bounded /\ ReadyWhole

LEMMA KeysFinite == IsFiniteSet(Keys) /\ 1 \in Chunks /\ NumChunks \in Nat \ {0}
<1>1. IsFiniteSet(Requests)
  BY RequestsAssumption, FS_Interval DEF Requests
<1>2. IsFiniteSet(Keys)
  BY <1>1, RequestsAssumption, FS_Union DEF Keys
<1> QED
  BY <1>2, RequestsAssumption DEF Chunks

LEMMA AnsweringInit == RequestsInit => Answering
<1> SUFFICES ASSUME RequestsInit PROVE Answering
  OBVIOUS
<1>1. NoJob \in Sending
  BY KeysFinite DEF NoJob, Sending, Sends
<1>2. RequestsTyped
  BY <1>1 DEF RequestsInit, RequestsTyped, Statuses, Outcomes, Progress
<1>3. \A h \in Hosts : Assembled(h) = {}
  BY DEF RequestsInit, Assembled
<1>4. Bounded
  BY <1>3, FS_EmptySet, RequestsAssumption DEF Bounded
<1>5. ReadyWhole
  BY DEF RequestsInit, ReadyWhole
<1> QED
  BY <1>2, <1>4, <1>5 DEF Answering

\* The steps that leave the assemblies as they are
LEMMA BoundStays ==
  ASSUME Answering, UNCHANGED assembly PROVE Bounded'
  BY DEF Answering, Bounded, Assembled

LEMMA FetcherSteps ==
  ASSUME Answering, NEW r \in Requests, Ask(r) \/ Poll(r) \/ GivesUp(r) \/ Expires(r)
  PROVE  Answering'
<1>1. RequestsTyped /\ ReadyWhole
  BY DEF Answering
<1>2. /\ Bounded'
      /\ UNCHANGED <<whole, claim, job, assembly, stalled, capture>>
  BY BoundStays DEF Ask, Poll, GivesUp, Expires
<1>3. CASE Ask(r)
  <2>1. /\ row' = [row EXCEPT ![r] = "queued"] /\ fetch' = [fetch EXCEPT ![r] = "waiting"]
        /\ UNCHANGED seenRow
    BY <1>3 DEF Ask
  <2>2. RequestsTyped' /\ ReadyWhole'
    BY <1>1, <1>2, <2>1 DEF RequestsTyped, ReadyWhole, Statuses, Outcomes
  <2> QED
    BY <1>2, <2>2 DEF Answering
<1>4. CASE Poll(r)
  <2>1. /\ fetch' = [fetch EXCEPT ![r] = IF row[r] = "ready" THEN "got" ELSE "failed"]
        /\ UNCHANGED <<row, seenRow>>
    BY <1>4 DEF Poll
  <2>2. RequestsTyped' /\ ReadyWhole'
    BY <1>1, <1>2, <2>1 DEF RequestsTyped, ReadyWhole, Outcomes
  <2> QED
    BY <1>2, <2>2 DEF Answering
<1>5. CASE GivesUp(r)
  <2>1. /\ fetch' = [fetch EXCEPT ![r] = "giving up"]
        /\ seenRow' = [seenRow EXCEPT ![r] = row[r]] /\ UNCHANGED row
    BY <1>5 DEF GivesUp
  <2>2. RequestsTyped' /\ ReadyWhole'
    BY <1>1, <1>2, <2>1 DEF RequestsTyped, ReadyWhole, Outcomes
  <2> QED
    BY <1>2, <2>2 DEF Answering
<1>6. CASE Expires(r)
  <2>1. /\ fetch' = [fetch EXCEPT ![r] = "failed"]
        /\ row' = [row EXCEPT ![r] = "expired"] \/ row' = row
        /\ UNCHANGED seenRow
    BY <1>6 DEF Expires
  <2>2. RequestsTyped' /\ ReadyWhole'
    BY <1>1, <1>2, <2>1 DEF RequestsTyped, ReadyWhole, Statuses, Outcomes
  <2> QED
    BY <1>2, <2>2 DEF Answering
<1> QED
  BY <1>3, <1>4, <1>5, <1>6

LEMMA ClaimSteps ==
  ASSUME Answering, NEW h \in Hosts, ClaimReads(h) \/ ClaimWrites(h)
  PROVE  Answering'
<1>1. RequestsTyped /\ ReadyWhole
  BY DEF Answering
<1>2. Bounded' /\ UNCHANGED <<whole, fetch, seenRow, assembly, stalled, capture>>
  BY BoundStays DEF ClaimReads, ClaimWrites
<1>3. CASE ClaimReads(h)
  <2>1. PICK r \in Requests : claim' = [claim EXCEPT ![h] = r]
    BY <1>3 DEF ClaimReads, Queued
  <2>2. UNCHANGED <<row, job>>
    BY <1>3 DEF ClaimReads
  <2>3. RequestsTyped' /\ ReadyWhole'
    BY <1>1, <1>2, <2>1, <2>2 DEF RequestsTyped, ReadyWhole
  <2> QED
    BY <1>2, <2>3 DEF Answering
<1>4. CASE ClaimWrites(h)
  <2>1. PICK r \in Requests, how \in {"page", "worker"} :
          /\ r = claim[h] /\ claim' = [claim EXCEPT ![h] = NoRow]
          /\ row' = [row EXCEPT ![r] = "sent"]
          /\ job' = [job EXCEPT ![h][r] = [how |-> how, next |-> 1]]
    BY <1>1, <1>4 DEF ClaimWrites, RequestsTyped
  <2>2. [how |-> how, next |-> 1] \in Sending /\ r \in Keys
    BY KeysFinite DEF Sending, Sends, Keys
  <2>3. job' \in [Hosts -> [Keys -> Sending]]
    BY <1>1, <2>1, <2>2 DEF RequestsTyped
  <2>4. claim' \in [Hosts -> Requests \cup {NoRow}] /\ row' \in [Requests -> Statuses]
    BY <1>1, <2>1 DEF RequestsTyped, Statuses
  <2>5. RequestsTyped'
    BY <1>1, <1>2, <2>3, <2>4 DEF RequestsTyped
  <2>6. ReadyWhole'
    BY <1>1, <1>2, <2>1 DEF RequestsTyped, ReadyWhole
  <2> QED
    BY <1>2, <2>5, <2>6 DEF Answering
<1> QED
  BY <1>3, <1>4

\* What a chunk leaves of the assemblies of a host
LEMMA Purging ==
  ASSUME Answering, NEW h \in Hosts
  PROVE  /\ Purged(h) \in [Keys -> SUBSET Chunks]
         /\ Kept(h) = {k \in Keys : Purged(h)[k] # {}}
         /\ IsFiniteSet(Kept(h)) /\ Cardinality(Kept(h)) \in Nat
         /\ Cardinality(Kept(h)) <= MaxAssemblies
         /\ RowsAfterPurge(h) \in [Requests -> Statuses]
         /\ \A r \in Requests : RowsAfterPurge(h)[r] = "ready" => row[r] = "ready"
<1>1. Purged(h) \in [Keys -> SUBSET Chunks] /\ RowsAfterPurge(h) \in [Requests -> Statuses]
  BY DEF Answering, RequestsTyped, Purged, RowsAfterPurge, Statuses
<1>2. Kept(h) = {k \in Keys : Purged(h)[k] # {}} /\ Kept(h) \subseteq Assembled(h)
  BY DEF Kept, Purged, Assembled
<1>3. IsFiniteSet(Assembled(h))
  BY KeysFinite, FS_Subset DEF Assembled
<1>4. IsFiniteSet(Kept(h)) /\ Cardinality(Kept(h)) <= Cardinality(Assembled(h))
  BY <1>2, <1>3, FS_Subset
<1>5. Cardinality(Kept(h)) \in Nat /\ Cardinality(Assembled(h)) \in Nat
  BY <1>3, <1>4, FS_CardinalityType
<1>6. Cardinality(Assembled(h)) <= MaxAssemblies
  BY DEF Answering, Bounded
<1>7. Cardinality(Kept(h)) <= MaxAssemblies
  BY <1>4, <1>5, <1>6, RequestsAssumption
<1> QED
  BY <1>1, <1>2, <1>4, <1>5, <1>7 DEF RowsAfterPurge

LEMMA NextIs ==
  ASSUME Answering, NEW h \in Hosts, NEW k \in Keys
  PROVE  job[h][k] \in Sending /\ NextChunk(h, k) \in Sending
         /\ Received(h, k) \in SUBSET Chunks
<1>1. job[h][k] \in Sending
  BY DEF Answering, RequestsTyped
<1>2. job[h][k].next \in Chunks
  BY <1>1 DEF Sending
<1>3. NoJob \in Sending
  BY KeysFinite DEF NoJob, Sending, Sends
<1>4. NextChunk(h, k) \in Sending
  <2>1. CASE job[h][k].next = NumChunks
    BY <1>3, <2>1 DEF NextChunk
  <2>2. CASE job[h][k].next # NumChunks
    <3>1. job[h][k].next + 1 \in Chunks
      BY <1>2, <2>2, KeysFinite DEF Chunks
    <3>2. [job[h][k] EXCEPT !.next = @ + 1] \in Sending
      BY <1>1, <3>1 DEF Sending
    <3> QED
      BY <2>2, <3>2 DEF NextChunk
  <2> QED
    BY <2>1, <2>2
<1>5. Received(h, k) \in SUBSET Chunks
  BY <1>2, Purging DEF Received
<1> QED
  BY <1>1, <1>4, <1>5

\* One host's assemblies change
LEMMA BoundKept ==
  ASSUME Answering, NEW h \in Hosts, NEW a \in [Keys -> SUBSET Chunks],
         assembly' = [assembly EXCEPT ![h] = a],
         Cardinality({k \in Keys : a[k] # {}}) <= MaxAssemblies
  PROVE  Bounded' /\ assembly' \in [Hosts -> [Keys -> SUBSET Chunks]]
<1>1. assembly \in [Hosts -> [Keys -> SUBSET Chunks]]
  BY DEF Answering, RequestsTyped
<1>2. \A g \in Hosts : assembly'[g] = IF g = h THEN a ELSE assembly[g]
  BY <1>1
<1>3. ASSUME NEW g \in Hosts PROVE Cardinality(Assembled(g)') <= MaxAssemblies
  <2>1. CASE g = h
    BY <1>2, <2>1 DEF Assembled
  <2>2. CASE g # h
    BY <1>2, <2>2 DEF Assembled, Answering, Bounded
  <2> QED
    BY <2>1, <2>2
<1> QED
  BY <1>1, <1>3 DEF Bounded

LEMMA TakingKeeps ==
  ASSUME Answering, NEW h \in Hosts, NEW k \in Keys, ChunkTaken(h, k)
  PROVE  Answering'
<1> DEFINE mine == IF Complete(h, k) THEN {} ELSE Received(h, k)
           a == [Purged(h) EXCEPT ![k] = mine]
<1>1. RequestsTyped /\ ReadyWhole
  BY DEF Answering
<1>2. /\ ~TableFull(h) /\ assembly' = [assembly EXCEPT ![h] = a]
      /\ stalled' = [stalled EXCEPT ![h] = {}]
      /\ job' = [job EXCEPT ![h][k] = NextChunk(h, k)]
      /\ row' = IF k \in Requests /\ Complete(h, k)
                THEN [RowsAfterPurge(h) EXCEPT ![k] = "ready"] ELSE RowsAfterPurge(h)
      /\ whole' = IF k \in Requests /\ Complete(h, k)
                  THEN [whole EXCEPT ![k] = Received(h, k)] ELSE whole
      /\ capture' = IF k \in CaptureKeys /\ Complete(h, k)
                    THEN [capture EXCEPT ![k] = "done"] ELSE capture
      /\ UNCHANGED <<fetch, seenRow, claim>>
  BY DEF ChunkTaken
<1>3. /\ Purged(h) \in [Keys -> SUBSET Chunks] /\ Kept(h) = {j \in Keys : Purged(h)[j] # {}}
      /\ IsFiniteSet(Kept(h)) /\ Cardinality(Kept(h)) \in Nat
      /\ RowsAfterPurge(h) \in [Requests -> Statuses]
      /\ \A r \in Requests : RowsAfterPurge(h)[r] = "ready" => row[r] = "ready"
  BY Purging
<1>4. NextChunk(h, k) \in Sending /\ Received(h, k) \in SUBSET Chunks /\ mine \in SUBSET Chunks
  BY NextIs
<1>5. Complete(h, k) => Received(h, k) = Chunks
  BY DEF Complete
<1>6. a \in [Keys -> SUBSET Chunks]
  <2> HIDE DEF mine
  <2> QED
    BY <1>3, <1>4
<1>7. {j \in Keys : a[j] # {}} \in SUBSET (Kept(h) \cup {k})
  <2> HIDE DEF mine
  <2> QED
    BY <1>3
<1> HIDE DEF a, mine
<1>8. Cardinality({j \in Keys : a[j] # {}}) <= MaxAssemblies
  <2>1. Cardinality(Kept(h)) + 1 <= MaxAssemblies
    BY <1>2, <1>3, RequestsAssumption DEF TableFull
  <2>2. IsFiniteSet(Kept(h) \cup {k}) /\ Cardinality(Kept(h) \cup {k}) \in Nat
        /\ Cardinality(Kept(h) \cup {k}) <= Cardinality(Kept(h)) + 1
    <3>1. /\ IsFiniteSet(Kept(h) \cup {k})
          /\ Cardinality(Kept(h) \cup {k}) =
               IF k \in Kept(h) THEN Cardinality(Kept(h)) ELSE Cardinality(Kept(h)) + 1
      BY <1>3, FS_AddElement
    <3>2. Cardinality(Kept(h) \cup {k}) \in Nat
      BY <3>1, FS_CardinalityType
    <3> QED
      BY <1>3, <3>1, <3>2
  <2>3. /\ IsFiniteSet({j \in Keys : a[j] # {}})
        /\ Cardinality({j \in Keys : a[j] # {}}) <= Cardinality(Kept(h) \cup {k})
    BY <1>7, <2>2, FS_Subset
  <2>4. Cardinality({j \in Keys : a[j] # {}}) \in Nat
    BY <2>3, FS_CardinalityType
  <2> QED
    BY <1>3, <2>1, <2>2, <2>3, <2>4, RequestsAssumption
<1>9. Bounded' /\ assembly' \in [Hosts -> [Keys -> SUBSET Chunks]]
  BY <1>2, <1>6, <1>8, BoundKept
<1>10. RequestsTyped'
  <2>1. job' \in [Hosts -> [Keys -> Sending]] /\ stalled' \in [Hosts -> SUBSET Keys]
    BY <1>1, <1>2, <1>4 DEF RequestsTyped
  <2>2. row' \in [Requests -> Statuses] /\ whole' \in [Requests -> SUBSET Chunks]
    BY <1>1, <1>2, <1>3, <1>4 DEF RequestsTyped, Statuses
  <2>3. capture' \in [CaptureKeys -> Progress]
    BY <1>1, <1>2 DEF RequestsTyped, Progress
  <2> QED
    BY <1>1, <1>2, <1>9, <2>1, <2>2, <2>3 DEF RequestsTyped
<1>11. ReadyWhole'
  <2>1. SUFFICES ASSUME NEW r \in Requests, row'[r] = "ready" \/ fetch[r] = "got"
                 PROVE  whole'[r] = Chunks
    BY <1>2 DEF ReadyWhole
  <2>2. CASE r = k /\ Complete(h, k)
    BY <1>1, <1>2, <1>5, <2>2 DEF RequestsTyped
  <2>3. CASE ~(r = k /\ Complete(h, k))
    <3>1. whole'[r] = whole[r] /\ row'[r] = RowsAfterPurge(h)[r]
      BY <1>1, <1>2, <1>3, <2>3 DEF RequestsTyped
    <3> QED
      BY <1>1, <1>3, <2>1, <3>1 DEF ReadyWhole
  <2> QED
    BY <2>2, <2>3
<1> QED
  BY <1>9, <1>10, <1>11 DEF Answering

LEMMA RefusingKeeps ==
  ASSUME Answering, NEW h \in Hosts, NEW k \in Keys, ChunkRefused(h, k)
  PROVE  Answering'
<1> DEFINE n == CASE job[h][k].how = "page" -> [how |-> "worker", next |-> 1]
                  [] job[h][k].how = "worker" -> NextChunk(h, k)
                  [] OTHER -> NoJob
<1>1. RequestsTyped /\ ReadyWhole
  BY DEF Answering
<1>2. /\ assembly' = [assembly EXCEPT ![h] = Purged(h)]
      /\ stalled' = [stalled EXCEPT ![h] = {}] /\ row' = RowsAfterPurge(h)
      /\ job' = [job EXCEPT ![h][k] = n]
      /\ capture' = IF k \in CaptureKeys THEN [capture EXCEPT ![k] = "refused"] ELSE capture
      /\ UNCHANGED <<whole, fetch, seenRow, claim>>
  BY DEF ChunkRefused
<1>3. /\ Purged(h) \in [Keys -> SUBSET Chunks] /\ Kept(h) = {j \in Keys : Purged(h)[j] # {}}
      /\ Cardinality(Kept(h)) <= MaxAssemblies
      /\ RowsAfterPurge(h) \in [Requests -> Statuses]
      /\ \A r \in Requests : RowsAfterPurge(h)[r] = "ready" => row[r] = "ready"
  BY Purging
<1>4. n \in Sending
  <2>1. [how |-> "worker", next |-> 1] \in Sending /\ NoJob \in Sending
    BY KeysFinite DEF NoJob, Sending, Sends
  <2> QED
    BY <2>1, NextIs
<1> HIDE DEF n
<1>5. Bounded' /\ assembly' \in [Hosts -> [Keys -> SUBSET Chunks]]
  BY <1>2, <1>3, BoundKept
<1>6. job' \in [Hosts -> [Keys -> Sending]] /\ stalled' \in [Hosts -> SUBSET Keys]
      /\ capture' \in [CaptureKeys -> Progress]
  BY <1>1, <1>2, <1>4 DEF RequestsTyped, Progress
<1>7. RequestsTyped'
  BY <1>1, <1>2, <1>3, <1>5, <1>6 DEF RequestsTyped
<1>8. ReadyWhole'
  BY <1>1, <1>2, <1>3 DEF ReadyWhole
<1> QED
  BY <1>5, <1>7, <1>8 DEF Answering

LEMMA HostSteps ==
  ASSUME Answering, NEW h \in Hosts,
         \/ \E r \in Requests : FetchFails(h, r)
         \/ \E k \in CaptureKeys : CaptureStarts(h, k)
         \/ \E k \in Keys : Stalls(h, k)
  PROVE  Answering'
<1>1. RequestsTyped /\ ReadyWhole
  BY DEF Answering
<1>2. Bounded' /\ UNCHANGED <<whole, fetch, seenRow, claim, assembly>>
  BY BoundStays DEF FetchFails, CaptureStarts, Stalls
<1>3. /\ [how |-> "worker", next |-> 1] \in Sending /\ NoJob \in Sending
      /\ [how |-> "capture", next |-> 1] \in Sending
      /\ Requests \subseteq Keys /\ CaptureKeys \subseteq Keys
  BY KeysFinite DEF NoJob, Sending, Sends, Keys
<1>4. ASSUME NEW r \in Requests, FetchFails(h, r) PROVE Answering'
  <2>1. PICK j \in Sending : job' = [job EXCEPT ![h][r] = j]
    BY <1>3, <1>4 DEF FetchFails
  <2>2. row' = row \/ row' = [row EXCEPT ![r] = "error"]
    BY <1>4 DEF FetchFails
  <2>3. UNCHANGED <<stalled, capture>>
    BY <1>4 DEF FetchFails
  <2>4. job' \in [Hosts -> [Keys -> Sending]]
    BY <1>1, <1>3, <2>1 DEF RequestsTyped
  <2>5. RequestsTyped' /\ ReadyWhole'
    BY <1>1, <1>2, <2>2, <2>3, <2>4 DEF RequestsTyped, ReadyWhole, Statuses
  <2> QED
    BY <1>2, <2>5 DEF Answering
<1>5. ASSUME NEW k \in CaptureKeys, CaptureStarts(h, k) PROVE Answering'
  <2>1. /\ capture' = [capture EXCEPT ![k] = "sending"]
        /\ job' = [job EXCEPT ![h][k] = [how |-> "capture", next |-> 1]]
        /\ UNCHANGED <<row, stalled>>
    BY <1>5 DEF CaptureStarts
  <2>2. job' \in [Hosts -> [Keys -> Sending]] /\ capture' \in [CaptureKeys -> Progress]
    BY <1>1, <1>3, <2>1 DEF RequestsTyped, Progress
  <2>3. RequestsTyped' /\ ReadyWhole'
    BY <1>1, <1>2, <2>1, <2>2 DEF RequestsTyped, ReadyWhole
  <2> QED
    BY <1>2, <2>3 DEF Answering
<1>6. ASSUME NEW k \in Keys, Stalls(h, k) PROVE Answering'
  <2>1. stalled' = [stalled EXCEPT ![h] = @ \cup {k}] /\ UNCHANGED <<row, job, capture>>
    BY <1>6 DEF Stalls
  <2>2. RequestsTyped' /\ ReadyWhole'
    BY <1>1, <1>2, <2>1 DEF RequestsTyped, ReadyWhole
  <2> QED
    BY <1>2, <2>2 DEF Answering
<1> QED
  BY <1>4, <1>5, <1>6

LEMMA RestartingKeeps ==
  ASSUME Answering, NEW h \in Hosts, HostRestarts(h) PROVE Answering'
<1> DEFINE a == [k \in Keys |-> {}]
           c == [k \in CaptureKeys |-> IF job[h][k] # NoJob THEN "refused" ELSE capture[k]]
<1>1. RequestsTyped /\ ReadyWhole
  BY DEF Answering
<1>2. /\ claim' = [claim EXCEPT ![h] = NoRow]
      /\ job' = [job EXCEPT ![h] = [k \in Keys |-> NoJob]]
      /\ assembly' = [assembly EXCEPT ![h] = a] /\ stalled' = [stalled EXCEPT ![h] = {}]
      /\ capture' = c /\ UNCHANGED <<row, whole, fetch, seenRow>>
  BY DEF HostRestarts
<1>3. a \in [Keys -> SUBSET Chunks] /\ {k \in Keys : a[k] # {}} = {}
  OBVIOUS
<1>4. c \in [CaptureKeys -> Progress]
  BY <1>1 DEF RequestsTyped, Progress
<1> HIDE DEF a, c
<1>5. Bounded' /\ assembly' \in [Hosts -> [Keys -> SUBSET Chunks]]
  <2>1. Cardinality({k \in Keys : a[k] # {}}) <= MaxAssemblies
    BY <1>3, FS_EmptySet, RequestsAssumption
  <2> QED
    BY <1>2, <1>3, <2>1, BoundKept
<1>6. NoJob \in Sending
  BY KeysFinite DEF NoJob, Sending, Sends
<1>7. /\ claim' \in [Hosts -> Requests \cup {NoRow}] /\ job' \in [Hosts -> [Keys -> Sending]]
      /\ stalled' \in [Hosts -> SUBSET Keys]
  BY <1>1, <1>2, <1>6 DEF RequestsTyped
<1>8. RequestsTyped' /\ ReadyWhole'
  BY <1>1, <1>2, <1>4, <1>5, <1>7 DEF RequestsTyped, ReadyWhole
<1> QED
  BY <1>5, <1>8 DEF Answering

LEMMA AnsweringStep == Answering /\ [RequestsNext]_reqVars => Answering'
<1> SUFFICES ASSUME Answering, [RequestsNext]_reqVars PROVE Answering'
  OBVIOUS
<1>1. CASE RequestsNext
  BY <1>1, FetcherSteps, ClaimSteps, TakingKeeps, RefusingKeeps, HostSteps, RestartingKeeps
  DEF RequestsNext
<1>2. CASE UNCHANGED reqVars
  BY <1>2 DEF reqVars, Answering, RequestsTyped, Bounded, Assembled, ReadyWhole
<1> QED
  BY <1>1, <1>2

-----------------------------------------------------------------------------
(* The detections                                                          *)

\* What a merge has read is no less than the page has now, and what a removal has
\* read no more: while the one is under way the other can only take off, and only
\* one of either is under way
Merging ==
    /\ sync = "merging" \/ click.st = "merging" => page \subseteq mergeRead
    /\ ~(sync = "merging" /\ click.st = "merging")
    /\ removing.read \subseteq page

Detecting == DetectionsTypeOK /\ DetectionsKept /\ Merging

LEMMA DetectingInit == DetectionsInit => Detecting
<1> SUFFICES ASSUME DetectionsInit PROVE Detecting
  OBVIOUS
<1>1. acks \in Seq(SUBSET Files)
  BY EmptySeq DEF DetectionsInit
<1> QED
  BY <1>1 DEF DetectionsInit, NotRemoving, NoClick, Detecting, DetectionsTypeOK, DetectionsKept,
              Merging

\* The extension's queue
LEMMA QueueSteps ==
  ASSUME Detecting,
         \/ \E f \in Files : Detect(f)
         \/ LeavesPage \/ SyncStarts \/ MergeReads \/ SyncAccepted \/ SyncFails
  PROVE  Detecting'
<1>1. DetectionsTypeOK /\ DetectionsKept /\ Merging
  BY DEF Detecting
<1>2. ASSUME NEW f \in Files, Detect(f) PROVE Detecting'
  BY <1>1, <1>2 DEF Detect, clickVars, Detecting, DetectionsTypeOK, DetectionsKept, Merging
<1>3. CASE LeavesPage
  BY <1>1, <1>3 DEF LeavesPage, clickVars, Detecting, DetectionsTypeOK, DetectionsKept, Merging
<1>4. CASE SyncStarts
  <2>1. PICK B \in SUBSET queue \ {{}} : batch' = B
    BY <1>4 DEF SyncStarts
  <2>2. /\ sync' = "sent"
        /\ UNCHANGED <<found, queue, mergeRead, page, removing, acks, shown, click, wanted>>
    BY <1>4 DEF SyncStarts, clickVars
  <2>3. DetectionsTypeOK' /\ DetectionsKept' /\ Merging'
    BY <1>1, <2>1, <2>2 DEF DetectionsTypeOK, DetectionsKept, Merging
  <2> QED
    BY <2>3 DEF Detecting
<1>5. CASE MergeReads
  <2>1. UNCHANGED <<found, queue, batch, page, removing, acks, shown, click, wanted>>
    BY <1>5 DEF MergeReads, clickVars
  <2>2. \/ sync' = "refused" /\ UNCHANGED mergeRead /\ click.st # "merging"
        \/ sync' = "merging" /\ mergeRead' = page /\ click.st # "merging"
    BY <1>5 DEF MergeReads
  <2>3. DetectionsTypeOK' /\ DetectionsKept' /\ Merging'
    BY <1>1, <2>1, <2>2 DEF DetectionsTypeOK, DetectionsKept, Merging
  <2> QED
    BY <2>3 DEF Detecting
<1>6. CASE SyncAccepted
  <2>1. /\ queue' = queue \ batch /\ found' = found \ (batch \ page)
        /\ sync' = "idle" /\ batch' = {} /\ sync # "merging"
        /\ UNCHANGED <<mergeRead, page, removing, acks, shown, click, wanted>>
    BY <1>6 DEF SyncAccepted, Drops, clickVars
  <2>2. DetectionsTypeOK' /\ DetectionsKept' /\ Merging'
    BY <1>1, <2>1 DEF DetectionsTypeOK, DetectionsKept, Merging
  <2> QED
    BY <2>2 DEF Detecting
<1>7. CASE SyncFails
  <2>1. /\ sync' = "idle" /\ batch' = {}
        /\ UNCHANGED <<found, queue, mergeRead, page, removing, acks, shown, click, wanted>>
    BY <1>7 DEF SyncFails, clickVars
  <2>2. DetectionsTypeOK' /\ DetectionsKept' /\ Merging'
    BY <1>1, <2>1 DEF DetectionsTypeOK, DetectionsKept, Merging
  <2> QED
    BY <2>2 DEF Detecting
<1> QED
  BY <1>2, <1>3, <1>4, <1>5, <1>6, <1>7

\* A merge writes back the page it read and what it was to add
LEMMA MergesKeep ==
  ASSUME Detecting, MergeWrites \/ \E way \in Ways : ClickWrites(way)
  PROVE  Detecting'
<1>1. DetectionsTypeOK /\ DetectionsKept /\ Merging
  BY DEF Detecting
<1>2. CASE MergeWrites
  <2>1. /\ sync = "merging" /\ mergeRead' = {} /\ sync' \in {"failed", "stored"}
        /\ page' \in {page, mergeRead \cup batch}
        /\ UNCHANGED <<found, queue, batch, removing, acks, shown, click, wanted>>
    BY <1>2 DEF MergeWrites, Merged, clickVars
  <2>2. page \subseteq page' /\ page' \subseteq Files
    BY <1>1, <2>1 DEF DetectionsTypeOK, Merging
  <2>3. DetectionsTypeOK' /\ DetectionsKept' /\ Merging'
    BY <1>1, <2>1, <2>2 DEF DetectionsTypeOK, DetectionsKept, Merging
  <2> QED
    BY <2>3 DEF Detecting
<1>3. ASSUME NEW way \in Ways, ClickWrites(way) PROVE Detecting'
  <2> DEFINE st == IF way = "skipped" THEN "refused" ELSE "accepted"
  <2>1. /\ click.st = "merging" /\ mergeRead' = {}
        /\ page' \in {page, mergeRead \cup click.files}
        /\ click' = [click EXCEPT !.st = st]
        /\ wanted' \in {wanted, wanted \cup click.files}
        /\ UNCHANGED <<found, queue, batch, sync, removing, acks, shown>>
    BY <1>3 DEF ClickWrites, Merged
  <2>2. st \in {"refused", "accepted"}
    OBVIOUS
  <2> HIDE DEF st
  <2>3. /\ click.files \in SUBSET Files /\ click'.st = st
        /\ click' \in [files : SUBSET Files, st : {"none", "sent", "merging", "accepted", "refused"}]
    BY <1>1, <2>1, <2>2 DEF DetectionsTypeOK
  <2>4. page \subseteq page' /\ page' \subseteq Files /\ wanted' \subseteq Files
    BY <1>1, <2>1, <2>3 DEF DetectionsTypeOK, Merging
  <2>5. DetectionsTypeOK' /\ DetectionsKept' /\ Merging'
    BY <1>1, <2>1, <2>2, <2>3, <2>4 DEF DetectionsTypeOK, DetectionsKept, Merging
  <2> QED
    BY <2>5 DEF Detecting
<1> QED
  BY <1>2, <1>3

\* A click on a player's button, but for what it writes
LEMMA ClickSteps ==
  ASSUME Detecting,
         \/ \E f \in Files : ClickButton(f) \/ WantedCancelled(f)
         \/ ClickReads \/ ClickAnswered \/ ClickLost \/ RefreshPage
  PROVE  Detecting'
<1>1. DetectionsTypeOK /\ DetectionsKept /\ Merging
  BY DEF Detecting
<1> DEFINE Clicks == [files : SUBSET Files, st : {"none", "sent", "merging", "accepted", "refused"}]
<1>2. NoClick \in Clicks /\ NoClick.st = "none" /\ click \in Clicks
  BY <1>1 DEF NoClick, DetectionsTypeOK
<1>3. ASSUME NEW f \in Files, ClickButton(f) PROVE Detecting'
  <2>1. /\ click' = [files |-> {f}, st |-> "sent"]
        /\ UNCHANGED <<found, queue, batch, sync, mergeRead, page, removing, acks, shown, wanted>>
    BY <1>3 DEF ClickButton, detVarsButClick
  <2>2. DetectionsTypeOK' /\ DetectionsKept' /\ Merging'
    BY <1>1, <2>1 DEF DetectionsTypeOK, DetectionsKept, Merging
  <2> QED
    BY <2>2 DEF Detecting
<1>4. ASSUME NEW f \in Files, WantedCancelled(f) PROVE Detecting'
  BY <1>1, <1>4 DEF WantedCancelled, detVarsButClick, Detecting, DetectionsTypeOK,
                    DetectionsKept, Merging
<1>5. CASE ClickReads
  <2>1. PICK st \in {"refused", "merging"} :
          /\ click' = [click EXCEPT !.st = st]
          /\ mergeRead' = IF st = "merging" THEN page ELSE mergeRead
    BY <1>5 DEF ClickReads
  <2>2. /\ sync # "merging" /\ click'.st = st /\ click' \in Clicks
        /\ UNCHANGED <<found, queue, batch, sync, page, removing, acks, shown, wanted>>
    BY <1>2, <1>5, <2>1 DEF ClickReads
  <2>3. DetectionsTypeOK' /\ DetectionsKept' /\ Merging'
    BY <1>1, <2>1, <2>2 DEF DetectionsTypeOK, DetectionsKept, Merging
  <2> QED
    BY <2>3 DEF Detecting
<1>6. CASE ClickAnswered
  <2>1. PICK gone \in SUBSET Files : queue' = queue \ gone /\ found' = found \ gone
    BY <1>2, <1>6 DEF ClickAnswered
  <2>2. /\ click' = NoClick
        /\ UNCHANGED <<batch, sync, mergeRead, page, removing, acks, shown, wanted>>
    BY <1>6 DEF ClickAnswered
  <2>3. click.st # "merging"
    BY <1>6 DEF ClickAnswered
  <2>4. DetectionsTypeOK' /\ DetectionsKept' /\ Merging'
    BY <1>1, <1>2, <2>1, <2>2, <2>3 DEF DetectionsTypeOK, DetectionsKept, Merging
  <2> QED
    BY <2>4 DEF Detecting
<1>7. CASE ClickLost
  <2>1. /\ click' = NoClick
        /\ UNCHANGED <<found, queue, batch, sync, mergeRead, page, removing, acks, shown, wanted>>
    BY <1>7 DEF ClickLost, detVarsButClick
  <2>2. DetectionsTypeOK' /\ DetectionsKept' /\ Merging'
    BY <1>1, <1>2, <2>1 DEF DetectionsTypeOK, DetectionsKept, Merging
  <2> QED
    BY <2>2 DEF Detecting
<1>8. CASE RefreshPage
  <2>1. /\ shown' = page
        /\ UNCHANGED <<found, queue, batch, sync, mergeRead, page, removing, acks, click, wanted>>
    BY <1>8 DEF RefreshPage, detVarsButClick
  <2>2. DetectionsTypeOK' /\ DetectionsKept' /\ Merging'
    BY <1>1, <2>1 DEF DetectionsTypeOK, DetectionsKept, Merging
  <2> QED
    BY <2>2 DEF Detecting
<1> QED
  BY <1>3, <1>4, <1>5, <1>6, <1>7, <1>8

\* Files are taken off the page, and the extension told
LEMMA TakingOffKeeps ==
  ASSUME Detecting, NEW F \in SUBSET Files, NEW by \in {"user", "watcher"}, TakeOff(F, by),
         wanted' \in SUBSET wanted
  PROVE  Detecting'
<1>1. DetectionsTypeOK /\ DetectionsKept /\ Merging
  BY DEF Detecting
<1>2. /\ acks' = Append(acks, F) /\ removing' = [files |-> F, read |-> page, by |-> by]
      /\ found' = found \ F
      /\ UNCHANGED <<queue, batch, sync, mergeRead, page, shown, click>>
  BY DEF TakeOff
<1>3. acks' \in Seq(SUBSET Files)
  BY <1>1, <1>2, AppendProperties DEF DetectionsTypeOK
<1>4. removing' \in [files : SUBSET Files, read : SUBSET Files, by : {"user", "watcher", "nobody"}]
      /\ removing'.read = page
  BY <1>1, <1>2 DEF DetectionsTypeOK
<1>5. DetectionsTypeOK' /\ DetectionsKept' /\ Merging'
  BY <1>1, <1>2, <1>3, <1>4 DEF DetectionsTypeOK, DetectionsKept, Merging
<1> QED
  BY <1>5 DEF Detecting

LEMMA RemovalSteps ==
  ASSUME Detecting,
         \/ TakeShown \/ RemoveWrites \/ AckArrives \/ AckLost
         \/ \E f \in Files : StartWanted(f)
  PROVE  Detecting'
<1>1. DetectionsTypeOK /\ DetectionsKept /\ Merging
  BY DEF Detecting
<1>2. CASE TakeShown
  <2>1. PICK F \in SUBSET shown \ {{}} : TakeOff(F, "user")
    BY <1>2 DEF TakeShown
  <2>2. F \in SUBSET Files /\ wanted' \in SUBSET wanted
    BY <1>1, <1>2 DEF TakeShown, DetectionsTypeOK
  <2> QED
    BY <2>1, <2>2, TakingOffKeeps
<1>3. ASSUME NEW f \in Files, StartWanted(f) PROVE Detecting'
  <2>1. TakeOff({f}, "watcher") /\ wanted' \in SUBSET wanted /\ {f} \in SUBSET Files
    BY <1>3 DEF StartWanted
  <2> QED
    BY <2>1, TakingOffKeeps
<1>4. CASE RemoveWrites
  <2>1. /\ page' = IF TakenOff = removing.read THEN page ELSE TakenOff
        /\ found' = found \ ((page \ page') \ queue)
        /\ shown' \in {page', shown} /\ removing' = NotRemoving
        /\ UNCHANGED <<queue, batch, sync, mergeRead, acks, click, wanted>>
    BY <1>4 DEF RemoveWrites
  <2>2. page' \subseteq page
    BY <1>1, <2>1 DEF TakenOff, Merging
  <2>3. /\ NotRemoving.read = {}
        /\ NotRemoving \in [files : SUBSET Files, read : SUBSET Files,
                            by : {"user", "watcher", "nobody"}]
    BY DEF NotRemoving
  <2>4. found' \subseteq queue \cup page'
    BY <1>1, <2>1 DEF DetectionsKept
  <2>5. page' \subseteq Files /\ shown' \subseteq Files /\ found' \subseteq Files
    BY <1>1, <2>1, <2>2 DEF DetectionsTypeOK
  <2>6. DetectionsTypeOK' /\ DetectionsKept' /\ Merging'
    BY <1>1, <2>1, <2>2, <2>3, <2>4, <2>5 DEF DetectionsTypeOK, DetectionsKept, Merging
  <2> QED
    BY <2>6 DEF Detecting
<1>5. CASE AckArrives \/ AckLost
  <2>1. /\ acks # <<>> /\ acks' = Tail(acks)
        /\ UNCHANGED <<batch, sync, mergeRead, page, removing, shown, click, wanted>>
    BY <1>5 DEF AckArrives, AckLost, clickVars
  <2>2. acks' \in Seq(SUBSET Files)
    BY <1>1, <2>1, HeadTailProperties DEF DetectionsTypeOK
  <2>3. found' \subseteq queue' \cup page /\ found' \subseteq found /\ queue' \subseteq queue
    BY <1>1, <1>5 DEF AckArrives, AckLost, DetectionsKept
  <2>4. DetectionsTypeOK' /\ DetectionsKept' /\ Merging'
    BY <1>1, <2>1, <2>2, <2>3 DEF DetectionsTypeOK, DetectionsKept, Merging
  <2> QED
    BY <2>4 DEF Detecting
<1> QED
  BY <1>2, <1>3, <1>4, <1>5

LEMMA DetectingStep == Detecting /\ [DetectionsNext]_detVars => Detecting'
<1> SUFFICES ASSUME Detecting, [DetectionsNext]_detVars PROVE Detecting'
  OBVIOUS
<1>1. CASE DetectionsNext
  BY <1>1, QueueSteps, MergesKeep, ClickSteps, RemovalSteps DEF DetectionsNext
<1>2. CASE UNCHANGED detVars
  BY <1>2 DEF detVars, Detecting, DetectionsTypeOK, DetectionsKept, Merging
<1> QED
  BY <1>1, <1>2

-----------------------------------------------------------------------------
(* The captures                                                            *)

Captures == [url : Urls, st : {"pending", "approved", "rejected", "expired"}]
Clicks   == [type : {"player_download", "navigate"}, claimed : BOOLEAN]
Places   == {"poll", "player", "captures", "dialog", "quality", "park", "reject"}
Ticks    == [by : Watchers \cup {"page"}, at : Places, c : 0..MaxRows]

CapturesTyped == CapturesTypeOK /\ Len(cap) <= MaxRows

\* There is one dialog at most, its capture is still pending, and above it there
\* are only ticks that end without a decision on a capture
OneDialog ==
    /\ dialogOpen <=> \E i \in DOMAIN tick : tick[i].at = "dialog"
    /\ \A i \in DOMAIN tick : tick[i].at = "dialog" =>
         /\ tick[i].c \in PendingRows
         /\ \A j \in DOMAIN tick : j > i =>
              \/ tick[j].at \in {"poll", "player"}
              \/ tick[j].at = "quality" /\ tick[j].c = NoCapture

\* A click on a player waits unclaimed only while its timer is yet to look
Noticed ==
    /\ Waiting("player_download") # {} => ("player" \in unseen \/ WillLook("player"))
    /\ Waiting("navigate") # {} => ("poll" \in unseen \/ WillLook("poll"))

\* A pending capture waits only while a tick is yet to look, or yet to write: a
\* dialog writes when it decides on a row that is pending until then
Attends(t) ==
    \/ t.at \in {"poll", "captures", "park", "reject"}
    \/ t.at \in {"dialog", "quality"} /\ t.c \in PendingRows
Attended == PendingRows # {} => ("poll" \in unseen \/ \E i \in DOMAIN tick : Attends(tick[i]))

\* What "Skip all" saw of the table before it rejects is on the Detected page
Parking ==
    \A i \in DOMAIN tick : tick[i].at = "reject" =>
        /\ tick[i].c <= Len(cap)
        /\ \A c \in PendingRows : c <= tick[i].c => c \in parked

Capturing == CapturesTyped /\ OneDialog /\ Noticed /\ Attended /\ Parking

LEMMA Shapes ==
  ASSUME CapturesTyped
  PROVE  /\ cap \in Seq(Captures) /\ requests \in Seq(Clicks) /\ tick \in Seq(Ticks)
         /\ Len(cap) \in Nat /\ Rows = 1 .. Len(cap) /\ PendingRows \subseteq 1 .. Len(cap)
         /\ Len(requests) \in Nat /\ DOMAIN requests = 1 .. Len(requests)
         /\ Len(tick) \in Nat /\ DOMAIN tick = 1 .. Len(tick)
         /\ MaxRows \in Nat \ {0} /\ Len(cap) <= MaxRows
<1>1. cap \in Seq(Captures) /\ requests \in Seq(Clicks) /\ tick \in Seq(Ticks)
  BY DEF CapturesTyped, CapturesTypeOK, Captures, Clicks, Ticks, Places
<1>2. /\ Len(cap) \in Nat /\ Rows = 1 .. Len(cap)
      /\ Len(requests) \in Nat /\ DOMAIN requests = 1 .. Len(requests)
      /\ Len(tick) \in Nat /\ DOMAIN tick = 1 .. Len(tick)
  BY <1>1, LenProperties DEF Rows
<1> QED
  BY <1>1, <1>2, CaptureAssumption DEF CapturesTyped, PendingRows

\* The oldest of some rows of a table
LEMMA OldestIs ==
  ASSUME NEW n \in Nat, NEW S \in SUBSET (1 .. n), S # {}
  PROVE  Oldest(S) \in S
<1> DEFINE U == {1 .. k : k \in S}
<1>1. U \subseteq FiniteSubsetsOf(Nat) /\ U # {}
  <2>1. \A k \in S : IsFiniteSet(1 .. k) /\ 1 .. k \in SUBSET Nat
    BY FS_Interval
  <2> QED
    BY <2>1 DEF FiniteSubsetsOf
<1>2. IsWellFoundedOn(StrictSubsetOrdering(Nat), FiniteSubsetsOf(Nat))
  BY FS_StrictSubsetOrderingWellFounded
<1>3. \E x \in U : \A y \in U : ~ (<<y, x>> \in StrictSubsetOrdering(Nat))
  <2> HIDE DEF U
  <2> QED
    BY ONLY <1>1, <1>2, WFMin, Zenon
<1>4. PICK k \in S : \A y \in U : ~ (<<y, 1 .. k>> \in StrictSubsetOrdering(Nat))
  BY <1>3
<1>5. ASSUME NEW d \in S, d < k PROVE FALSE
  <2>1. /\ 1 .. d \in U /\ 1 .. d \subseteq 1 .. k /\ 1 .. k \subseteq Nat
        /\ k \in 1 .. k /\ k \notin 1 .. d
    BY <1>5
  <2>2. <<1 .. d, 1 .. k>> \in StrictSubsetOrdering(Nat)
    BY <2>1 DEF StrictSubsetOrdering
  <2> QED
    BY <1>4, <2>1, <2>2
<1>6. \A d \in S : k <= d
  BY <1>5
<1> QED
  BY <1>6 DEF Oldest

\* The ticks on the stack: the one on top changes, ends, or gets one above it
LEMMA TopIs ==
  ASSUME CapturesTyped, Top.at # "idle"
  PROVE  /\ tick # <<>> /\ Len(tick) \in DOMAIN tick /\ Top = tick[Len(tick)]
         /\ Top \in Ticks
<1>1. tick # <<>> /\ Top = tick[Len(tick)]
  BY DEF Top, Idle
<1>2. Len(tick) \in 1 .. Len(tick)
  BY <1>1, Shapes, EmptySeq
<1> QED
  BY <1>1, <1>2, Shapes, ElementOfSeq

LEMMA Ending ==
  ASSUME CapturesTyped, Top.at # "idle", Ends
  PROVE  /\ tick' \in Seq(Ticks) /\ DOMAIN tick' = 1 .. (Len(tick) - 1)
         /\ \A i \in DOMAIN tick' : tick'[i] = tick[i]
<1>1. tick \in Seq(Ticks) /\ Len(tick) \in Nat /\ Len(tick) # 0
  BY TopIs, Shapes
<1> DEFINE m == Len(tick) - 1
<1>2. m \in Nat /\ \A i \in 1 .. m : tick[i] \in Ticks
  BY <1>1, ElementOfSeq
<1>3. tick' = SubSeq(tick, 1, m)
  BY DEF Ends
<1> HIDE DEF m
<1>4. /\ SubSeq(tick, 1, m) \in Seq(Ticks)
      /\ Len(SubSeq(tick, 1, m)) = IF 1 <= m THEN m - 1 + 1 ELSE 0
      /\ \A i \in 1 .. m - 1 + 1 : SubSeq(tick, 1, m)[i] = tick[1 + i - 1]
  BY <1>2, SubSeqProperties
<1>5. m - 1 + 1 = m /\ \A i \in 1 .. m : 1 + i - 1 = i
  BY <1>2
<1>6. Len(SubSeq(tick, 1, m)) = m /\ \A i \in 1 .. m : SubSeq(tick, 1, m)[i] = tick[i]
  BY <1>2, <1>4, <1>5
<1>7. tick' \in Seq(Ticks) /\ DOMAIN tick' = 1 .. m
  BY <1>3, <1>4, <1>6, LenProperties
<1> QED
  BY <1>3, <1>6, <1>7 DEF m

LEMMA Turning ==
  ASSUME CapturesTyped, Top.at # "idle", NEW at \in Places, NEW c \in 0 .. MaxRows,
         Becomes(at, c)
  PROVE  /\ tick' \in Seq(Ticks) /\ DOMAIN tick' = DOMAIN tick
         /\ \A i \in DOMAIN tick : i # Len(tick) => tick'[i] = tick[i]
         /\ tick'[Len(tick)].at = at /\ tick'[Len(tick)].c = c
<1> DEFINE t == [tick[Len(tick)] EXCEPT !.at = at, !.c = c]
<1>1. tick' = [tick EXCEPT ![Len(tick)] = t]
  BY DEF Becomes
<1>2. t \in Ticks /\ t.at = at /\ t.c = c
  BY TopIs DEF Ticks
<1> HIDE DEF t
<1>3. Len(tick) \in 1 .. Len(tick) /\ tick \in Seq(Ticks)
  BY TopIs, Shapes
<1>4. /\ tick' \in Seq(Ticks) /\ Len(tick') = Len(tick)
      /\ \A i \in 1 .. Len(tick) : tick'[i] = IF i = Len(tick) THEN t ELSE tick[i]
  BY <1>1, <1>2, <1>3, ExceptSeq
<1> QED
  BY <1>2, <1>3, <1>4, LenProperties, Shapes

LEMMA Entering ==
  ASSUME CapturesTyped, NEW t \in Ticks, tick' = Append(tick, t)
  PROVE  /\ tick' \in Seq(Ticks) /\ DOMAIN tick' = 1 .. (Len(tick) + 1)
         /\ \A i \in DOMAIN tick : tick'[i] = tick[i]
         /\ tick'[Len(tick) + 1] = t
<1>1. /\ tick' \in Seq(Ticks) /\ Len(tick') = Len(tick) + 1
      /\ \A i \in 1 .. Len(tick) : tick'[i] = tick[i]
      /\ tick'[Len(tick) + 1] = t
  BY Shapes, AppendProperties
<1> QED
  BY <1>1, LenProperties, Shapes

LEMMA CapturingInit == CapturesInit => Capturing
<1> SUFFICES ASSUME CapturesInit PROVE Capturing
  OBVIOUS
<1>1. /\ cap = <<>> /\ requests = <<>> /\ tick = <<>> /\ hostRead = NoUrl
      /\ unseen = Watchers /\ dialogOpen = FALSE /\ parked = {} /\ decided = {}
  BY DEF CapturesInit
<1>2. /\ cap \in Seq(Captures) /\ requests \in Seq(Clicks) /\ tick \in Seq(Ticks)
      /\ Len(cap) = 0 /\ Len(requests) = 0 /\ Len(tick) = 0
  BY <1>1, EmptySeq
<1>3. CapturesTyped
  BY <1>1, <1>2, CaptureAssumption
  DEF CapturesTyped, CapturesTypeOK, Captures, Clicks, Ticks, Places
<1>4. PendingRows = {} /\ DOMAIN tick = {} /\ DOMAIN requests = {}
  BY <1>2, <1>3, Shapes DEF PendingRows
<1> QED
  BY <1>1, <1>3, <1>4 DEF Capturing, OneDialog, Noticed, Waiting, Attended, Parking

\* A row is added to the captures
LEMMA Adding ==
  ASSUME CapturesTyped, NEW e \in Captures, Len(cap) < MaxRows, cap' = Append(cap, e)
  PROVE  /\ cap' \in Seq(Captures) /\ Len(cap)' = Len(cap) + 1 /\ Len(cap)' <= MaxRows
         /\ PendingRows \subseteq PendingRows'
         /\ \A c \in PendingRows' : c \in PendingRows \/ c = Len(cap) + 1
<1>1. /\ cap' \in Seq(Captures) /\ Len(cap') = Len(cap) + 1
      /\ \A i \in 1 .. Len(cap) : cap'[i] = cap[i]
  BY Shapes, AppendProperties
<1>2. Rows' = 1 .. (Len(cap) + 1) /\ Len(cap) + 1 <= MaxRows
  BY <1>1, Shapes, LenProperties DEF Rows
<1> QED
  BY <1>1, <1>2, Shapes DEF PendingRows

\* Every timer is told of a write that leaves the rows that were pending so
LEMMA WritesKeep ==
  ASSUME Capturing, CapturesTyped', Written, UNCHANGED <<tick, dialogOpen, parked>>,
         Len(cap) <= Len(cap)', PendingRows \subseteq PendingRows',
         \A c \in PendingRows' : c \in PendingRows \/ c > Len(cap)
  PROVE  Capturing'
<1>1. CapturesTyped /\ OneDialog /\ Parking
  BY DEF Capturing
<1>2. Noticed' /\ Attended'
  BY DEF Written, Watchers, Noticed, Attended
<1>3. OneDialog'
  BY <1>1 DEF OneDialog
<1>4. Parking'
  <2>1. SUFFICES ASSUME NEW i \in DOMAIN tick, tick[i].at = "reject"
                 PROVE  /\ tick[i].c <= Len(cap)'
                        /\ \A c \in PendingRows' : c <= tick[i].c => c \in parked
    BY DEF Parking
  <2>2. tick[i].c <= Len(cap) /\ \A c \in PendingRows : c <= tick[i].c => c \in parked
    BY <1>1, <2>1 DEF Parking
  <2>3. tick[i].c \in Nat
    <3>1. tick \in Seq(Ticks) /\ i \in 1 .. Len(tick)
      BY <1>1, Shapes
    <3>2. tick[i] \in Ticks
      BY <3>1, ElementOfSeq
    <3> QED
      BY <3>2 DEF Ticks
  <2>4. Len(cap) \in Nat /\ Len(cap)' \in Nat /\ PendingRows \subseteq Nat
        /\ PendingRows' \subseteq Nat
    <3>1. cap' \in Seq(Captures)
      BY DEF CapturesTyped, CapturesTypeOK, Captures
    <3>2. Len(cap)' \in Nat /\ DOMAIN cap' = 1 .. Len(cap)'
      BY <3>1, LenProperties
    <3> QED
      BY <1>1, <3>2, Shapes DEF PendingRows, Rows
  <2>5. tick[i].c <= Len(cap)'
    BY <2>2, <2>3, <2>4
  <2>6. ASSUME NEW c \in PendingRows', c <= tick[i].c PROVE c \in parked
    <3>1. c \in Nat /\ ~(c > Len(cap))
      BY <2>2, <2>3, <2>4, <2>6
    <3> QED
      BY <2>2, <2>6, <3>1
  <2> QED
    BY <2>5, <2>6
<1> QED
  BY <1>2, <1>3, <1>4 DEF Capturing

LEMMA QuietKeep ==
  ASSUME Capturing, CapturesTyped',
         UNCHANGED <<cap, requests, unseen, tick, dialogOpen, parked>>
  PROVE  Capturing'
<1>1. OneDialog /\ Noticed /\ Attended /\ Parking
  BY DEF Capturing
<1>2. OneDialog' /\ Noticed'
  BY <1>1 DEF OneDialog, Noticed, PendingRows, Rows, Waiting, WillLook
<1>3. Attended' /\ Parking'
  BY <1>1 DEF Attended, Attends, Parking, PendingRows, Rows
<1> QED
  BY <1>2, <1>3 DEF Capturing

\* What the hosts and the setting write
LEMMA ArrivalsKeep ==
  ASSUME Capturing,
         \/ \E u \in Urls : CaptureSkipped(u) \/ CaptureReads(u)
         \/ CaptureAdded \/ CaptureStarted \/ PageArchived \/ PlayerClicked \/ SkipAllSwitched
  PROVE  Capturing'
<1>1. CapturesTyped
  BY DEF Capturing
<1>2. /\ cap \in Seq(Captures) /\ requests \in Seq(Clicks) /\ tick \in Seq(Ticks)
      /\ Len(cap) \in Nat /\ Len(cap) <= MaxRows /\ MaxRows \in Nat
      /\ unseen \in SUBSET Watchers /\ parked \in SUBSET (1 .. MaxRows)
      /\ decided \in SUBSET (1 .. MaxRows) /\ hostRead \in Urls \cup {NoUrl}
  BY <1>1, Shapes DEF CapturesTyped, CapturesTypeOK
<1>3. ASSUME NEW u \in Urls, CaptureSkipped(u) PROVE Capturing'
  <2>1. /\ Len(cap) < MaxRows /\ cap' = Append(cap, Row(u, "rejected"))
        /\ decided' = decided \cup {Len(cap) + 1} /\ Written
        /\ UNCHANGED <<hostRead, requests, tick, dialogOpen, parked>>
    BY <1>3 DEF CaptureSkipped
  <2>2. Row(u, "rejected") \in Captures
    BY DEF Row, Captures
  <2>3. /\ cap' \in Seq(Captures) /\ Len(cap)' = Len(cap) + 1 /\ Len(cap)' <= MaxRows
        /\ PendingRows \subseteq PendingRows'
        /\ \A c \in PendingRows' : c \in PendingRows \/ c = Len(cap) + 1
    BY <1>1, <2>1, <2>2, Adding
  <2>4. CapturesTyped'
    <3>1. Len(cap) + 1 \in 1 .. MaxRows
      BY <1>2, <2>1
    <3>2. decided' \in SUBSET (1 .. MaxRows) /\ unseen' \in SUBSET Watchers
      BY <1>2, <2>1, <3>1 DEF Written
    <3> QED
      BY <1>2, <2>1, <2>3, <3>2 DEF CapturesTyped, CapturesTypeOK, Captures, Clicks, Ticks, Places
  <2>5. Len(cap) <= Len(cap)' /\ \A c \in PendingRows' : c \in PendingRows \/ c > Len(cap)
    BY <1>2, <2>3
  <2> QED
    BY <2>1, <2>3, <2>4, <2>5, WritesKeep
<1>4. ASSUME NEW u \in Urls, CaptureReads(u) PROVE Capturing'
  <2>1. /\ hostRead' = u
        /\ UNCHANGED <<cap, requests, unseen, tick, dialogOpen, parked, decided>>
    BY <1>4 DEF CaptureReads
  <2>2. CapturesTyped'
    BY <1>2, <2>1 DEF CapturesTyped, CapturesTypeOK, Captures, Clicks, Ticks, Places
  <2> QED
    BY <2>1, <2>2, QuietKeep
<1>5. CASE CaptureAdded
  <2>1. /\ hostRead # NoUrl /\ hostRead' = NoUrl
        /\ UNCHANGED <<requests, tick, dialogOpen, parked, decided>>
    BY <1>5 DEF CaptureAdded
  <2>2. CASE Len(cap) < MaxRows
    <3>1. cap' = Append(cap, Row(hostRead, "pending")) /\ Written
      BY <1>5, <2>2 DEF CaptureAdded
    <3>2. Row(hostRead, "pending") \in Captures
      BY <1>2, <2>1 DEF Row, Captures
    <3>3. /\ cap' \in Seq(Captures) /\ Len(cap)' = Len(cap) + 1 /\ Len(cap)' <= MaxRows
          /\ PendingRows \subseteq PendingRows'
          /\ \A c \in PendingRows' : c \in PendingRows \/ c = Len(cap) + 1
      BY <1>1, <2>2, <3>1, <3>2, Adding
    <3>4. CapturesTyped'
      BY <1>2, <2>1, <3>1, <3>3
      DEF CapturesTyped, CapturesTypeOK, Captures, Clicks, Ticks, Places, Written
    <3>5. Len(cap) <= Len(cap)' /\ \A c \in PendingRows' : c \in PendingRows \/ c > Len(cap)
      BY <1>2, <3>3
    <3> QED
      BY <2>1, <3>1, <3>3, <3>4, <3>5, WritesKeep
  <2>3. CASE ~(Len(cap) < MaxRows)
    <3>1. UNCHANGED <<cap, unseen>>
      BY <1>5, <2>3 DEF CaptureAdded
    <3>2. CapturesTyped'
      BY <1>2, <2>1, <3>1 DEF CapturesTyped, CapturesTypeOK, Captures, Clicks, Ticks, Places
    <3> QED
      BY <2>1, <3>1, <3>2, QuietKeep
  <2> QED
    BY <2>2, <2>3
<1>6. CASE CaptureStarted \/ PageArchived \/ PlayerClicked \/ SkipAllSwitched
  <2>1. /\ Written /\ UNCHANGED <<cap, hostRead, tick, dialogOpen, parked, decided>>
    BY <1>6 DEF CaptureStarted, PageArchived, PlayerClicked, SkipAllSwitched
  <2>2. requests' \in Seq(Clicks)
    <3>1. CASE PlayerClicked
      <4>1. PICK q \in Clicks : requests' = Append(requests, q)
        BY <3>1 DEF PlayerClicked, Clicks
      <4> QED
        BY <1>2, <4>1, AppendProperties
    <3>2. CASE ~PlayerClicked
      BY <1>2, <1>6, <3>2 DEF CaptureStarted, PageArchived, SkipAllSwitched
    <3> QED
      BY <3>1, <3>2
  <2>3. CapturesTyped'
    BY <1>2, <2>1, <2>2
    DEF CapturesTyped, CapturesTypeOK, Captures, Clicks, Ticks, Places, Written
  <2>4. PendingRows' = PendingRows /\ Len(cap)' = Len(cap)
    BY <2>1 DEF PendingRows, Rows
  <2> QED
    BY <1>2, <2>1, <2>3, <2>4, WritesKeep
<1> QED
  BY <1>3, <1>4, <1>5, <1>6

\* A timer fires, or the opened page polls, and takes note of the last write
LEMMA EntersKeep ==
  ASSUME Capturing, NEW w \in Watchers, NEW by \in Watchers \cup {"page"}, Enters(w, by)
  PROVE  Capturing'
<1> DEFINE n == Len(tick)
           t == [by |-> by, at |-> w, c |-> NoCapture]
<1>1. CapturesTyped /\ OneDialog /\ Noticed /\ Attended /\ Parking
  BY DEF Capturing
<1>2. /\ unseen' = unseen \ {w} /\ tick' = Append(tick, t)
      /\ UNCHANGED <<cap, hostRead, requests, skipAll, dialogOpen, parked, decided>>
  BY DEF Enters, Looked
<1>3. t \in Ticks /\ t.at = w /\ w \in {"poll", "player"}
  BY <1>1, Shapes DEF Ticks, Places, Watchers, NoCapture
<1>4. n \in Nat /\ DOMAIN tick = 1 .. n
  BY <1>1, Shapes
<1> HIDE DEF t
<1>5. /\ tick' \in Seq(Ticks) /\ DOMAIN tick' = 1 .. (n + 1)
      /\ \A i \in 1 .. n : tick'[i] = tick[i] /\ tick'[n + 1] = t
  BY <1>1, <1>2, <1>3, <1>4, Entering
<1>6. tick'[n + 1] = t
  BY <1>1, <1>2, <1>3, Entering
<1>7. /\ PendingRows' = PendingRows /\ Len(cap)' = Len(cap)
      /\ \A type \in {"player_download", "navigate"} : Waiting(type)' = Waiting(type)
  BY <1>2 DEF PendingRows, Rows, Waiting
<1> HIDE DEF n
<1>8. CapturesTyped'
  BY <1>1, <1>2, <1>5 DEF CapturesTyped, CapturesTypeOK, Ticks, Places
<1>9. OneDialog'
  <2>1. \A i \in DOMAIN tick' : tick'[i].at = "dialog" => i \in DOMAIN tick /\ tick'[i] = tick[i]
    BY <1>3, <1>4, <1>5, <1>6
  <2>2. \A j \in DOMAIN tick' : \/ j \in DOMAIN tick /\ tick'[j] = tick[j]
                                \/ tick'[j].at \in {"poll", "player"}
    BY <1>3, <1>4, <1>5, <1>6
  <2>3. dialogOpen <=> \E i \in DOMAIN tick' : tick'[i].at = "dialog"
    BY <1>1, <1>4, <1>5, <2>1 DEF OneDialog
  <2> QED
    BY <1>1, <1>2, <1>7, <2>1, <2>2, <2>3 DEF OneDialog
<1>10. Noticed'
  <2>1. \A at \in {"poll", "player"} :
          (at \in unseen \/ WillLook(at)) => (at \in unseen' \/ WillLook(at)')
    <3>1. n + 1 \in DOMAIN tick' /\ DOMAIN tick \subseteq DOMAIN tick'
      BY <1>4, <1>5
    <3>2. \A i \in DOMAIN tick : tick'[i] = tick[i]
      BY <1>4, <1>5
    <3> QED
      BY <1>2, <1>3, <1>6, <3>1, <3>2 DEF WillLook
  <2> QED
    BY <1>1, <1>7, <2>1 DEF Noticed
<1>11. Attended'
  <2>1. n + 1 \in DOMAIN tick' /\ DOMAIN tick \subseteq DOMAIN tick'
    BY <1>4, <1>5
  <2>2. \A i \in DOMAIN tick : tick'[i] = tick[i]
    BY <1>4, <1>5
  <2> QED
    BY <1>1, <1>2, <1>3, <1>6, <1>7, <2>1, <2>2 DEF Attended, Attends
<1>12. Parking'
  <2>1. \A i \in DOMAIN tick' : tick'[i].at = "reject" => i \in DOMAIN tick /\ tick'[i] = tick[i]
    BY <1>3, <1>4, <1>5, <1>6
  <2> QED
    BY <1>1, <1>2, <1>7, <2>1 DEF Parking
<1> QED
  BY <1>8, <1>9, <1>10, <1>11, <1>12 DEF Capturing

\* A tick that polls or starts a stream ends, or goes on to the captures or to a
\* quality dialog of its own
LEMMA LookingKeeps ==
  ASSUME Capturing, Navigates \/ PlayerStarts
  PROVE  Capturing'
<1> DEFINE n == Len(tick)
<1>1. CapturesTyped /\ OneDialog /\ Noticed /\ Attended /\ Parking
  BY DEF Capturing
<1>2. /\ Top.at = "poll" \/ Top.at = "player"
      /\ UNCHANGED <<cap, hostRead, skipAll, dialogOpen, parked, decided>>
  BY DEF Navigates, PlayerStarts
<1>3. n \in Nat /\ DOMAIN tick = 1 .. n /\ n \in DOMAIN tick /\ Top = tick[n]
  BY <1>1, <1>2, Shapes, TopIs
<1>4. /\ Navigates => Top.at = "poll"
      /\ PlayerStarts => Top.at = "player"
  BY DEF Navigates, PlayerStarts
<1>5. \/ Ends /\ (Navigates => dialogOpen)
      \/ Navigates /\ ~dialogOpen /\ Becomes("captures", NoCapture)
      \/ PlayerStarts /\ Becomes("quality", NoCapture)
  BY DEF Navigates, PlayerStarts
<1>6. /\ requests' \in Seq(Clicks) /\ unseen' \in {unseen, Watchers}
      /\ unseen' = Watchers \/ UNCHANGED <<requests, unseen>>
      /\ unseen' # Watchers => ((Navigates => Waiting("navigate") = {})
                                /\ (PlayerStarts => Waiting("player_download") = {}))
  <2>1. ASSUME NEW type \in {"navigate", "player_download"}, Claim(type)
        PROVE  /\ requests' \in Seq(Clicks)
               /\ \/ unseen' = Watchers
                  \/ UNCHANGED <<requests, unseen>> /\ Waiting(type) = {}
    <3>1. CASE Waiting(type) = {}
      BY <1>1, <2>1, <3>1, Shapes DEF Claim
    <3>2. CASE Waiting(type) # {}
      <4> DEFINE q == Oldest(Waiting(type))
      <4>1. Waiting(type) \in SUBSET (1 .. Len(requests)) /\ Len(requests) \in Nat
        BY <1>1, Shapes DEF Waiting
      <4>2. q \in 1 .. Len(requests)
        BY <3>2, <4>1, OldestIs
      <4>3. requests' = [requests EXCEPT ![q] = [requests[q] EXCEPT !.claimed = TRUE]]
            /\ unseen' = Watchers
        BY <2>1, <3>2 DEF Claim, Written
      <4> HIDE DEF q
      <4>4. requests \in Seq(Clicks) /\ requests[q] \in Clicks
        BY <1>1, <4>2, Shapes, ElementOfSeq
      <4>5. [requests[q] EXCEPT !.claimed = TRUE] \in Clicks
        BY <4>4 DEF Clicks
      <4> QED
        BY <4>2, <4>3, <4>4, <4>5, ExceptSeq
    <3> QED
      BY <3>1, <3>2
  <2>2. CASE Navigates
    <3>1. Claim("navigate") /\ ~PlayerStarts
      BY <2>2 DEF Navigates, PlayerStarts
    <3> QED
      BY <2>1, <3>1
  <2>3. CASE PlayerStarts
    <3>1. Claim("player_download") /\ ~Navigates
      BY <2>3 DEF Navigates, PlayerStarts
    <3> QED
      BY <2>1, <3>1
  <2> QED
    BY <2>2, <2>3
<1>7. PendingRows' = PendingRows /\ Len(cap)' = Len(cap)
  BY <1>2 DEF PendingRows, Rows
\* The ticks below the top stay; the top is gone, or became another
<1>8. /\ tick' \in Seq(Ticks) /\ DOMAIN tick' \in {1 .. n, 1 .. (n - 1)}
      /\ \A i \in 1 .. (n - 1) : tick'[i] = tick[i]
      /\ n \in DOMAIN tick' =>
           /\ tick'[n].c = NoCapture
           /\ \/ Navigates /\ ~dialogOpen /\ tick'[n].at = "captures"
              \/ PlayerStarts /\ tick'[n].at = "quality"
      /\ n \notin DOMAIN tick' => (Navigates => dialogOpen)
  <2>0. CapturesTyped /\ Top.at # "idle" /\ NoCapture \in 0 .. MaxRows
    BY <1>1, <1>2, Shapes DEF NoCapture
  <2>1. CASE Ends /\ (Navigates => dialogOpen)
    BY <1>3, <2>0, <2>1, Ending
  <2>2. CASE Navigates /\ ~dialogOpen /\ Becomes("captures", NoCapture)
    <3>1. /\ tick' \in Seq(Ticks) /\ DOMAIN tick' = DOMAIN tick
          /\ \A i \in DOMAIN tick : i # n => tick'[i] = tick[i]
          /\ tick'[n].at = "captures" /\ tick'[n].c = NoCapture
      BY <2>0, <2>2, Turning DEF Places
    <3> QED
      BY <1>3, <2>2, <3>1
  <2>3. CASE PlayerStarts /\ Becomes("quality", NoCapture)
    <3>1. /\ tick' \in Seq(Ticks) /\ DOMAIN tick' = DOMAIN tick
          /\ \A i \in DOMAIN tick : i # n => tick'[i] = tick[i]
          /\ tick'[n].at = "quality" /\ tick'[n].c = NoCapture
      BY <2>0, <2>3, Turning DEF Places
    <3> QED
      BY <1>3, <2>3, <3>1
  <2> QED
    BY <1>5, <2>1, <2>2, <2>3
<1> HIDE DEF n
<1>9. CapturesTyped'
  BY <1>1, <1>2, <1>6, <1>7, <1>8
  DEF CapturesTyped, CapturesTypeOK, Clicks, Ticks, Places
<1>10. \A i \in DOMAIN tick : i = n \/ (i \in DOMAIN tick' /\ tick'[i] = tick[i])
  BY <1>3, <1>8
<1>11. \A i \in DOMAIN tick' : i \in DOMAIN tick /\ (i = n \/ tick'[i] = tick[i])
  BY <1>3, <1>8
<1>12. OneDialog'
  <2>1. \A i \in DOMAIN tick' : tick'[i].at = "dialog" => (i # n /\ tick'[i] = tick[i])
    BY <1>8, <1>11
  <2>2. \A i \in DOMAIN tick : tick[i].at = "dialog" => (i \in DOMAIN tick' /\ tick'[i] = tick[i])
    BY <1>2, <1>3, <1>10
  <2>3. dialogOpen <=> \E i \in DOMAIN tick' : tick'[i].at = "dialog"
    BY <1>1, <1>11, <2>1, <2>2 DEF OneDialog
  <2>4. ASSUME NEW i \in DOMAIN tick', tick'[i].at = "dialog"
        PROVE  /\ tick[i].c \in PendingRows
               /\ \A j \in DOMAIN tick' : j > i =>
                    \/ tick'[j].at \in {"poll", "player"}
                    \/ tick'[j].at = "quality" /\ tick'[j].c = NoCapture
    <3>1. i \in DOMAIN tick /\ tick[i].at = "dialog"
      BY <1>11, <2>1, <2>4
    <3>2. dialogOpen
      BY <1>1, <3>1 DEF OneDialog
    <3> QED
      BY <1>1, <1>8, <1>11, <3>1, <3>2 DEF OneDialog
  <2> QED
    BY <1>2, <1>7, <2>1, <2>3, <2>4 DEF OneDialog
<1>13. Noticed'
  <2>1. CASE unseen' = Watchers
    BY <2>1 DEF Noticed, Watchers
  <2>2. CASE unseen' # Watchers
    <3>1. UNCHANGED <<requests, unseen>>
          /\ \A type \in {"player_download", "navigate"} : Waiting(type)' = Waiting(type)
      BY <1>6, <2>2 DEF Waiting
    <3>2. \A at \in {"poll", "player"} : at # Top.at => (WillLook(at) => WillLook(at)')
      BY <1>3, <1>10 DEF WillLook
    <3> QED
      BY <1>1, <1>4, <1>6, <2>2, <3>1, <3>2 DEF Noticed
  <2> QED
    BY <2>1, <2>2
<1>14. Attended'
  <2>1. SUFFICES ASSUME PendingRows # {}, "poll" \notin unseen'
                 PROVE  \E i \in DOMAIN tick' : Attends(tick[i])'
    BY <1>7 DEF Attended
  <2>2. PICK i \in DOMAIN tick : Attends(tick[i])
    BY <1>1, <1>6, <2>1 DEF Attended, Watchers
  <2>3. CASE i # n
    BY <1>7, <1>10, <2>2, <2>3 DEF Attends
  <2>4. CASE i = n
    <3>1. Top.at = "poll" /\ Navigates
      BY <1>2, <1>3, <1>4, <2>2, <2>4 DEF Attends
    <3>2. CASE n \in DOMAIN tick'
      <4>1. tick'[n].at = "captures"
        BY <1>4, <1>8, <3>1, <3>2
      <4> QED
        BY <3>2, <4>1 DEF Attends
    <3>3. CASE n \notin DOMAIN tick'
      <4>1. PICK d \in DOMAIN tick : tick[d].at = "dialog" /\ tick[d].c \in PendingRows
        BY <1>1, <1>8, <3>1, <3>3 DEF OneDialog
      <4>2. d # n
        BY <1>3, <3>1, <4>1
      <4> QED
        BY <1>7, <1>10, <4>1, <4>2 DEF Attends
    <3> QED
      BY <3>2, <3>3
  <2> QED
    BY <2>3, <2>4
<1>15. Parking'
  <2>1. \A i \in DOMAIN tick' : tick'[i].at = "reject" => (i \in DOMAIN tick /\ tick'[i] = tick[i])
    BY <1>8, <1>11
  <2> QED
    BY <1>1, <1>2, <1>7, <2>1 DEF Parking
<1> QED
  BY <1>9, <1>12, <1>13, <1>14, <1>15 DEF Capturing

\* Rows that are marked, all together or one by one, and only those, stop waiting
LEMMA Marking ==
  ASSUME CapturesTyped, NEW S, NEW st \in {"approved", "rejected", "expired"},
         cap' = [c \in Rows |-> IF c \in S THEN Row(cap[c].url, st) ELSE cap[c]]
  PROVE  /\ cap' \in Seq(Captures) /\ Len(cap)' = Len(cap) /\ PendingRows' = PendingRows \ S
         /\ Rows' = Rows
<1>1. cap \in Seq(Captures) /\ Len(cap) \in Nat /\ Rows = 1 .. Len(cap)
  BY Shapes
<1>2. \A c \in Rows : cap[c] \in Captures
  BY <1>1, ElementOfSeq
<1>3. cap' \in [1 .. Len(cap) -> Captures]
  BY <1>1, <1>2 DEF Row, Captures
<1>4. cap' \in Seq(Captures) /\ Len(cap') = Len(cap)
  BY <1>1, <1>3, SeqDef, LenProperties
<1>5. Rows' = Rows
  BY <1>1, <1>3 DEF Rows
<1>6. \A c \in Rows : cap'[c].st = "pending" <=> (cap[c].st = "pending" /\ c \notin S)
  BY <1>1 DEF Row
<1> QED
  BY <1>4, <1>5, <1>6 DEF PendingRows

LEMMA Resolving ==
  ASSUME CapturesTyped, NEW c \in 1 .. MaxRows, NEW st \in {"approved", "rejected", "expired"},
         Resolve(c, st)
  PROVE  /\ cap' \in Seq(Captures) /\ Len(cap)' = Len(cap) /\ PendingRows' = PendingRows \ {c}
         /\ Rows' = Rows /\ decided' = decided \cup {c} /\ decided' \in SUBSET (1 .. MaxRows)
         /\ unseen' \in {unseen, Watchers}
         /\ unseen' = Watchers \/ c \notin PendingRows
<1>1. cap \in Seq(Captures) /\ Len(cap) \in Nat /\ Rows = 1 .. Len(cap)
  BY Shapes
<1>2. \A d \in Rows : cap[d] \in Captures /\ cap[d] = Row(cap[d].url, cap[d].st)
  <2>1. \A d \in Rows : cap[d] \in Captures
    BY <1>1, ElementOfSeq
  <2> QED
    BY <2>1 DEF Row, Captures
<1>3. cap' = [d \in Rows |-> IF d \in {c} THEN Row(cap[d].url, st) ELSE cap[d]]
  <2>1. cap' = [cap EXCEPT ![c].st = st] /\ DOMAIN cap' = Rows
    BY DEF Resolve, Rows
  <2>2. \A d \in Rows : cap'[d] = IF d \in {c} THEN Row(cap[d].url, st) ELSE cap[d]
    BY <1>2, <2>1 DEF Row, Rows, Captures
  <2>3. cap' = [d \in Rows |-> cap'[d]]
    BY <1>1, <2>1
  <2> QED
    BY <2>2, <2>3
<1>4. /\ cap' \in Seq(Captures) /\ Len(cap)' = Len(cap) /\ PendingRows' = PendingRows \ {c}
      /\ Rows' = Rows
  BY <1>3, Marking
<1>5. /\ decided' = decided \cup {c} /\ unseen' \in {unseen, Watchers}
      /\ unseen' = Watchers \/ cap[c].st = st
  BY DEF Resolve, Written
<1>6. cap[c].st = st => c \notin PendingRows
  BY DEF PendingRows
<1> QED
  BY <1>4, <1>5, <1>6 DEF CapturesTyped, CapturesTypeOK

\* A decision under way is on top of every dialog
LEMMA NoneBelow ==
  ASSUME Capturing,
         \/ Top.at \in {"captures", "park", "reject", "dialog"}
         \/ Top.at = "quality" /\ Top.c # NoCapture
  PROVE  /\ \A i \in DOMAIN tick : i # Len(tick) => tick[i].at # "dialog"
         /\ dialogOpen <=> Top.at = "dialog"
         /\ Top.at = "dialog" => Top.c \in PendingRows
<1>1. CapturesTyped /\ OneDialog
  BY DEF Capturing
<1>2. /\ Len(tick) \in Nat /\ DOMAIN tick = 1 .. Len(tick) /\ Len(tick) \in DOMAIN tick
      /\ Top = tick[Len(tick)]
  BY <1>1, Shapes, TopIs
<1>3. ASSUME NEW i \in DOMAIN tick, i # Len(tick), tick[i].at = "dialog" PROVE FALSE
  <2>1. Len(tick) > i
    BY <1>2, <1>3
  <2> QED
    BY <1>1, <1>2, <1>3, <2>1 DEF OneDialog
<1> QED
  BY <1>1, <1>2, <1>3 DEF OneDialog

LEMMA DialogIs ==
  ASSUME Capturing, CapturesTyped', NEW n \in Nat, DOMAIN tick' \subseteq 1 .. n,
         \A i \in DOMAIN tick : i # n => tick[i].at # "dialog",
         \A i \in DOMAIN tick' : i # n => (i \in DOMAIN tick /\ tick'[i] = tick[i]),
         dialogOpen' <=> (n \in DOMAIN tick' /\ tick'[n].at = "dialog"),
         (n \in DOMAIN tick' /\ tick'[n].at = "dialog") => tick'[n].c \in PendingRows'
  PROVE  OneDialog'
<1>1. \A i \in DOMAIN tick' : tick'[i].at = "dialog" => i = n
  OBVIOUS
<1>2. dialogOpen' <=> \E i \in DOMAIN tick' : tick'[i].at = "dialog"
  BY <1>1
<1>3. ASSUME NEW i \in DOMAIN tick', tick'[i].at = "dialog"
      PROVE  tick'[i].c \in PendingRows' /\ \A j \in DOMAIN tick' : ~(j > i)
  <2>1. i = n /\ \A j \in DOMAIN tick' : j \in Nat /\ j <= n
    BY <1>1, <1>3
  <2> QED
    BY <1>3, <2>1
<1> QED
  BY <1>2, <1>3 DEF OneDialog

\* The tick on top decides on some rows, or moves on, or both
LEMMA DecidingKeeps ==
  ASSUME Capturing, CapturesTyped', OneDialog', NEW n \in DOMAIN tick, Top = tick[n],
         Top.at \notin {"poll", "player"},
         \A i \in DOMAIN tick : i # n => (i \in DOMAIN tick' /\ tick'[i] = tick[i]),
         \A i \in DOMAIN tick' : i # n => (i \in DOMAIN tick /\ tick'[i] = tick[i]),
         (n \in DOMAIN tick' /\ tick'[n].at = "reject") =>
            (tick'[n].c <= Len(cap) /\ \A c \in PendingRows' : c <= tick'[n].c => c \in parked'),
         PendingRows' \subseteq PendingRows, Len(cap)' = Len(cap), parked \subseteq parked',
         UNCHANGED requests, unseen' \in {unseen, Watchers},
         \/ unseen' = Watchers
         \/ PendingRows' = {}
         \/ /\ n \in DOMAIN tick'
            /\ \/ tick'[n].at \in {"captures", "park", "reject"}
               \/ tick'[n].at \in {"dialog", "quality"} /\ tick'[n].c \in PendingRows'
         \/ ~Attends(Top) /\ PendingRows' = PendingRows
  PROVE  Capturing'
<1>1. CapturesTyped /\ Noticed /\ Attended /\ Parking
  BY DEF Capturing
<1>2. Noticed'
  <2>1. CASE unseen' = Watchers
    BY <2>1 DEF Noticed, Watchers
  <2>2. CASE unseen' = unseen
    <3>1. \A type \in {"player_download", "navigate"} : Waiting(type)' = Waiting(type)
      BY DEF Waiting
    <3>2. \A at \in {"poll", "player"} : WillLook(at) => WillLook(at)'
      BY DEF WillLook
    <3> QED
      BY <1>1, <2>2, <3>1, <3>2 DEF Noticed
  <2> QED
    BY <2>1, <2>2
<1>3. Attended'
  <2>1. CASE unseen' = Watchers \/ PendingRows' = {}
    BY <2>1 DEF Attended, Watchers
  <2>2. CASE /\ n \in DOMAIN tick'
             /\ \/ tick'[n].at \in {"captures", "park", "reject"}
                \/ tick'[n].at \in {"dialog", "quality"} /\ tick'[n].c \in PendingRows'
    BY <2>2 DEF Attended, Attends
  <2>3. CASE unseen' # Watchers /\ ~Attends(Top) /\ PendingRows' = PendingRows
    <3>1. SUFFICES ASSUME PendingRows # {}, "poll" \notin unseen
                   PROVE  \E i \in DOMAIN tick' : Attends(tick[i])'
      BY <2>3 DEF Attended
    <3>2. PICK i \in DOMAIN tick : Attends(tick[i]) /\ i # n
      BY <1>1, <2>3, <3>1 DEF Attended
    <3> QED
      BY <2>3, <3>2 DEF Attends
  <2> QED
    BY <2>1, <2>2, <2>3
<1>4. Parking'
  <2>1. ASSUME NEW i \in DOMAIN tick', tick'[i].at = "reject"
        PROVE  /\ tick'[i].c <= Len(cap)
               /\ \A c \in PendingRows' : c <= tick'[i].c => c \in parked'
    <3>1. CASE i = n
      BY <2>1, <3>1
    <3>2. CASE i # n
      BY <1>1, <2>1, <3>2 DEF Parking
    <3> QED
      BY <3>1, <3>2
  <2> QED
    BY <2>1 DEF Parking
<1> QED
  BY <1>2, <1>3, <1>4 DEF Capturing

\* What the tick on top leaves of the stack when it ends or turns
LEMMA Stacked ==
  ASSUME CapturesTyped, Top.at # "idle", NEW n, n = Len(tick),
         \/ Ends
         \/ UNCHANGED tick
         \/ \E at \in Places, c \in 0 .. MaxRows : Becomes(at, c)
  PROVE  /\ n \in Nat /\ n \in DOMAIN tick /\ Top = tick[n] /\ tick' \in Seq(Ticks)
         /\ DOMAIN tick' \subseteq 1 .. n
         /\ \A i \in DOMAIN tick : i # n => (i \in DOMAIN tick' /\ tick'[i] = tick[i])
         /\ \A i \in DOMAIN tick' : i # n => (i \in DOMAIN tick /\ tick'[i] = tick[i])
         /\ Ends => n \notin DOMAIN tick'
         /\ UNCHANGED tick => n \in DOMAIN tick'
         /\ \A at \in Places, c \in 0 .. MaxRows : Becomes(at, c) =>
              n \in DOMAIN tick' /\ tick'[n].at = at /\ tick'[n].c = c
<1>1. /\ n \in Nat /\ DOMAIN tick = 1 .. n /\ n \in DOMAIN tick /\ Top = tick[n]
      /\ tick \in Seq(Ticks)
  BY Shapes, TopIs
<1>2. ASSUME Ends
      PROVE  /\ tick' \in Seq(Ticks) /\ DOMAIN tick' = 1 .. (n - 1)
             /\ \A i \in DOMAIN tick' : tick'[i] = tick[i]
  BY <1>2, Ending
<1>3. ASSUME NEW at \in Places, NEW c \in 0 .. MaxRows, Becomes(at, c)
      PROVE  /\ tick' \in Seq(Ticks) /\ DOMAIN tick' = DOMAIN tick
             /\ \A i \in DOMAIN tick : i # n => tick'[i] = tick[i]
             /\ tick'[n].at = at /\ tick'[n].c = c
  BY <1>3, Turning
<1>4. CASE Ends
  <2>1. /\ DOMAIN tick' = 1 .. (n - 1) /\ DOMAIN tick = 1 .. n /\ tick' # tick
    <3>1. n \in 1 .. n /\ n \notin 1 .. (n - 1)
      BY <1>1
    <3> QED
      BY <1>1, <1>2, <1>4, <3>1
  <2>2. n \notin DOMAIN tick'
    BY <1>1, <2>1
  <2>3. \A at \in Places, c \in 0 .. MaxRows : ~Becomes(at, c)
    BY <1>1, <1>3, <2>2
  <2>4. /\ DOMAIN tick' \subseteq 1 .. n
        /\ \A i \in DOMAIN tick : i # n => i \in DOMAIN tick'
        /\ \A i \in DOMAIN tick' : i \in DOMAIN tick
    BY <1>1, <2>1
  <2> QED
    BY <1>1, <1>2, <1>4, <2>1, <2>2, <2>3, <2>4
<1>5. CASE ~Ends
  BY <1>1, <1>3, <1>5
<1> QED
  BY <1>4, <1>5

LEMMA HandlingKeeps ==
  ASSUME Capturing, ExpireStale \/ ShowsCapture
  PROVE  Capturing'
<1> DEFINE n == Len(tick)
<1>1. CapturesTyped /\ Top.at = "captures"
  BY DEF Capturing, ExpireStale, ShowsCapture
<1>2. /\ \A i \in DOMAIN tick : i # n => tick[i].at # "dialog"
      /\ ~dialogOpen
  BY <1>1, NoneBelow
<1>3. /\ cap \in Seq(Captures) /\ tick \in Seq(Ticks) /\ Len(cap) \in Nat
      /\ Rows = 1 .. Len(cap) /\ PendingRows \subseteq 1 .. Len(cap)
      /\ unseen \in SUBSET Watchers /\ decided \in SUBSET (1 .. MaxRows)
      /\ PendingRows \subseteq 1 .. MaxRows /\ MaxRows \in Nat /\ Len(cap) <= MaxRows
  BY <1>1, Shapes DEF CapturesTyped, CapturesTypeOK
<1>4. NoCapture \in 0 .. MaxRows /\ "captures" \in Places /\ "dialog" \in Places
  BY <1>3 DEF NoCapture, Places
<1>5. CASE ExpireStale
  <2>1. PICK S \in SUBSET PendingRows : cap' = Expirable(S) /\ decided' = decided \cup S
    BY <1>5 DEF ExpireStale
  <2>2. /\ unseen' = Watchers
        /\ UNCHANGED <<hostRead, requests, skipAll, tick, dialogOpen, parked>>
    BY <1>5 DEF ExpireStale, Written
  <2>3. /\ cap' \in Seq(Captures) /\ Len(cap)' = Len(cap) /\ PendingRows' = PendingRows \ S
    BY <1>1, <2>1, Marking DEF Expirable
  <2>4. decided' \in SUBSET (1 .. MaxRows)
    BY <1>3, <2>1
  <2>5. CapturesTyped'
    BY <1>1, <1>3, <2>2, <2>3, <2>4 DEF CapturesTyped, CapturesTypeOK, Captures
  <2>6. /\ n \in Nat /\ n \in DOMAIN tick /\ Top = tick[n] /\ DOMAIN tick' \subseteq 1 .. n
        /\ \A i \in DOMAIN tick : i # n => (i \in DOMAIN tick' /\ tick'[i] = tick[i])
        /\ \A i \in DOMAIN tick' : i # n => (i \in DOMAIN tick /\ tick'[i] = tick[i])
        /\ tick'[n].at = "captures"
    BY <1>1, <2>2, Stacked
  <2> HIDE DEF n
  <2>7. OneDialog'
    BY <1>2, <2>2, <2>5, <2>6, DialogIs
  <2>8. PendingRows' \subseteq PendingRows
    BY <2>3
  <2> QED
    BY <1>1, <2>2, <2>3, <2>5, <2>6, <2>7, <2>8, DecidingKeeps
<1>6. CASE ShowsCapture
  <2>1. UNCHANGED <<hostRead, requests, skipAll, parked>>
    BY <1>6 DEF ShowsCapture
  <2>2. CASE /\ PendingRows # {} /\ skipAll
             /\ cap' = RejectsAll(PendingRows)
             /\ decided' = decided \cup PendingRows
             /\ Written /\ Ends
             /\ UNCHANGED dialogOpen
    <3>1. /\ cap' \in Seq(Captures) /\ Len(cap)' = Len(cap)
          /\ PendingRows' = PendingRows \ PendingRows
      BY <1>1, <2>2, Marking DEF RejectsAll
    <3>2. /\ n \in Nat /\ n \in DOMAIN tick /\ Top = tick[n] /\ DOMAIN tick' \subseteq 1 .. n
          /\ \A i \in DOMAIN tick : i # n => (i \in DOMAIN tick' /\ tick'[i] = tick[i])
          /\ \A i \in DOMAIN tick' : i # n => (i \in DOMAIN tick /\ tick'[i] = tick[i])
          /\ n \notin DOMAIN tick' /\ tick' \in Seq(Ticks)
      BY <1>1, <2>2, Stacked
    <3>3. decided' \in SUBSET (1 .. MaxRows) /\ unseen' = Watchers
      BY <1>3, <2>2 DEF Written
    <3>4. CapturesTyped'
      BY <1>1, <1>3, <2>1, <2>2, <3>1, <3>2, <3>3
      DEF CapturesTyped, CapturesTypeOK, Captures, Ticks, Places
    <3> HIDE DEF n
    <3>5. OneDialog'
      BY <1>2, <2>2, <3>2, <3>4, DialogIs
    <3>6. PendingRows' \subseteq PendingRows
      BY <3>1
    <3> QED
      BY <1>1, <2>1, <3>1, <3>2, <3>3, <3>4, <3>5, <3>6, DecidingKeeps
  <2>3. CASE /\ PendingRows # {} /\ ~skipAll
             /\ dialogOpen' = TRUE
             /\ Becomes("dialog", Oldest(PendingRows))
             /\ UNCHANGED <<cap, unseen, decided>>
    <3> DEFINE d == Oldest(PendingRows)
    <3>1. d \in PendingRows /\ d \in 0 .. MaxRows
      <4>1. PendingRows \in SUBSET (1 .. MaxRows) /\ PendingRows # {}
        BY <1>3, <2>3
      <4>2. Oldest(PendingRows) \in PendingRows
        BY <1>3, <4>1, OldestIs
      <4>3. \A m \in PendingRows : m \in 0 .. MaxRows
        BY <1>3
      <4> HIDE DEF d
      <4>4. d \in PendingRows
        BY <4>2 DEF d
      <4> QED
        BY <4>3, <4>4
    <3> HIDE DEF d
    <3>2. Becomes("dialog", d)
      BY <2>3 DEF d
    <3>3. /\ n \in Nat /\ n \in DOMAIN tick /\ Top = tick[n] /\ DOMAIN tick' \subseteq 1 .. n
          /\ \A i \in DOMAIN tick : i # n => (i \in DOMAIN tick' /\ tick'[i] = tick[i])
          /\ \A i \in DOMAIN tick' : i # n => (i \in DOMAIN tick /\ tick'[i] = tick[i])
          /\ n \in DOMAIN tick' /\ tick' \in Seq(Ticks)
          /\ tick'[n].at = "dialog" /\ tick'[n].c = d
      BY <1>1, <1>4, <3>1, <3>2, Stacked
    <3>4. PendingRows' = PendingRows /\ Len(cap)' = Len(cap)
      BY <2>3 DEF PendingRows, Rows
    <3>5. CapturesTyped'
      BY <1>1, <1>3, <2>1, <2>3, <3>3
      DEF CapturesTyped, CapturesTypeOK, Captures, Ticks, Places
    <3> HIDE DEF n
    <3>6. OneDialog'
      BY <1>2, <2>3, <3>1, <3>3, <3>4, <3>5, DialogIs
    <3> QED
      BY <1>1, <2>1, <2>3, <3>1, <3>3, <3>4, <3>5, <3>6, DecidingKeeps
  <2>4. CASE /\ PendingRows = {}
             /\ Ends
             /\ UNCHANGED <<cap, unseen, dialogOpen, decided>>
    <3>1. /\ n \in Nat /\ n \in DOMAIN tick /\ Top = tick[n] /\ DOMAIN tick' \subseteq 1 .. n
          /\ \A i \in DOMAIN tick : i # n => (i \in DOMAIN tick' /\ tick'[i] = tick[i])
          /\ \A i \in DOMAIN tick' : i # n => (i \in DOMAIN tick /\ tick'[i] = tick[i])
          /\ n \notin DOMAIN tick' /\ tick' \in Seq(Ticks)
      BY <1>1, <2>4, Stacked
    <3>2. PendingRows' = PendingRows /\ Len(cap)' = Len(cap)
      BY <2>4 DEF PendingRows, Rows
    <3>3. CapturesTyped'
      BY <1>1, <1>3, <2>1, <2>4, <3>1
      DEF CapturesTyped, CapturesTypeOK, Captures, Ticks, Places
    <3> HIDE DEF n
    <3>4. OneDialog'
      BY <1>2, <2>4, <3>1, <3>3, DialogIs
    <3> QED
      BY <1>1, <2>1, <2>4, <3>1, <3>2, <3>3, <3>4, DecidingKeeps
  <2> QED
    BY <1>6, <2>2, <2>3, <2>4 DEF ShowsCapture
<1> QED
  BY <1>5, <1>6, <1>1

\* "Skip all" in the dialog: the pending rows are written to the Detected page, and
\* then those pending by now are rejected
LEMMA SkippingKeeps ==
  ASSUME Capturing, Parks \/ ParkRejects
  PROVE  Capturing'
<1> DEFINE n == Len(tick)
<1>1. CapturesTyped /\ (Top.at = "park" \/ Top.at = "reject")
  BY DEF Capturing, Parks, ParkRejects
<1>2. /\ \A i \in DOMAIN tick : i # n => tick[i].at # "dialog"
      /\ ~dialogOpen
  BY <1>1, NoneBelow
<1>3. /\ cap \in Seq(Captures) /\ tick \in Seq(Ticks) /\ Len(cap) \in Nat
      /\ PendingRows \subseteq 1 .. Len(cap) /\ PendingRows \subseteq 1 .. MaxRows
      /\ unseen \in SUBSET Watchers /\ parked \in SUBSET (1 .. MaxRows)
      /\ MaxRows \in Nat /\ Len(cap) \in 0 .. MaxRows /\ "reject" \in Places
  BY <1>1, Shapes DEF CapturesTyped, CapturesTypeOK, Places
<1>4. CASE Parks
  <2>1. /\ parked' = parked \cup PendingRows /\ unseen' \in {unseen, Watchers}
        /\ PendingRows = {} \/ unseen' = Watchers
        /\ UNCHANGED <<cap, hostRead, requests, skipAll, dialogOpen, decided>>
    BY <1>4 DEF Parks, ParkAll, Written
  <2>2. Becomes("reject", Len(cap))
    BY <1>4 DEF Parks, Becomes
  <2>3. /\ n \in Nat /\ n \in DOMAIN tick /\ Top = tick[n] /\ DOMAIN tick' \subseteq 1 .. n
        /\ \A i \in DOMAIN tick : i # n => (i \in DOMAIN tick' /\ tick'[i] = tick[i])
        /\ \A i \in DOMAIN tick' : i # n => (i \in DOMAIN tick /\ tick'[i] = tick[i])
        /\ n \in DOMAIN tick' /\ tick' \in Seq(Ticks)
        /\ tick'[n].at = "reject" /\ tick'[n].c = Len(cap)
    BY <1>1, <1>3, <2>2, Stacked
  <2>4. PendingRows' = PendingRows /\ Len(cap)' = Len(cap) /\ parked \subseteq parked'
    BY <2>1 DEF PendingRows, Rows
  <2>5. CapturesTyped'
    <3>1. parked' \in SUBSET (1 .. MaxRows) /\ unseen' \in SUBSET Watchers
      BY <1>3, <2>1
    <3> QED
      BY <1>1, <1>3, <2>1, <2>3, <3>1
      DEF CapturesTyped, CapturesTypeOK, Captures, Ticks, Places
  <2> HIDE DEF n
  <2>6. OneDialog'
    BY <1>2, <2>1, <2>3, <2>5, DialogIs
  <2>7. tick'[n].c <= Len(cap) /\ \A c \in PendingRows' : c <= tick'[n].c => c \in parked'
    BY <1>3, <2>1, <2>3, <2>4
  <2> QED
    BY <1>1, <2>1, <2>3, <2>4, <2>5, <2>6, <2>7, DecidingKeeps
<1>5. CASE ParkRejects
  <2>1. /\ cap' = RejectsAll(PendingRows) /\ unseen' \in {unseen, Watchers} /\ Ends
        /\ UNCHANGED <<hostRead, requests, skipAll, dialogOpen, parked, decided>>
    BY <1>5 DEF ParkRejects, Written
  <2>2. /\ cap' \in Seq(Captures) /\ Len(cap)' = Len(cap)
        /\ PendingRows' = PendingRows \ PendingRows
    BY <1>1, <2>1, Marking DEF RejectsAll
  <2>3. /\ n \in Nat /\ n \in DOMAIN tick /\ Top = tick[n] /\ DOMAIN tick' \subseteq 1 .. n
        /\ \A i \in DOMAIN tick : i # n => (i \in DOMAIN tick' /\ tick'[i] = tick[i])
        /\ \A i \in DOMAIN tick' : i # n => (i \in DOMAIN tick /\ tick'[i] = tick[i])
        /\ n \notin DOMAIN tick' /\ tick' \in Seq(Ticks)
    BY <1>1, <2>1, Stacked
  <2>4. CapturesTyped'
    BY <1>1, <1>3, <2>1, <2>2, <2>3
    DEF CapturesTyped, CapturesTypeOK, Captures, Ticks, Places
  <2> HIDE DEF n
  <2>5. OneDialog'
    BY <1>2, <2>1, <2>3, <2>4, DialogIs
  <2>6. PendingRows' = {} /\ PendingRows' \subseteq PendingRows
    BY <2>2
  <2> QED
    BY <1>1, <2>1, <2>2, <2>3, <2>4, <2>5, <2>6, DecidingKeeps
<1> QED
  BY <1>4, <1>5

\* A dialog closes with a decision on its capture, or goes on to the quality of
\* what it is to download, or to "Skip all"
LEMMA ClosingKeeps ==
  ASSUME Capturing, DialogCloses \/ QualityCloses
  PROVE  Capturing'
<1> DEFINE n == Len(tick)
<1>1. CapturesTyped /\ (Top.at = "dialog" \/ Top.at = "quality")
  BY DEF Capturing, DialogCloses, QualityCloses
<1>2. /\ cap \in Seq(Captures) /\ tick \in Seq(Ticks)
      /\ PendingRows \subseteq 1 .. MaxRows /\ unseen \in SUBSET Watchers
      /\ MaxRows \in Nat /\ Len(cap) \in Nat /\ Len(cap) <= MaxRows
      /\ decided \in SUBSET (1 .. MaxRows)
      /\ Top.c \in 0 .. MaxRows /\ NoCapture \in 0 .. MaxRows /\ NoCapture \notin PendingRows
      /\ "quality" \in Places /\ "park" \in Places
  <2>1. /\ cap \in Seq(Captures) /\ tick \in Seq(Ticks) /\ PendingRows \subseteq 1 .. Len(cap)
        /\ MaxRows \in Nat /\ Len(cap) \in Nat /\ Len(cap) <= MaxRows
    BY <1>1, Shapes
  <2>2. Top \in Ticks
    BY <1>1, TopIs
  <2>3. PendingRows \subseteq 1 .. MaxRows
    BY <2>1
  <2> QED
    BY <1>1, <2>1, <2>2, <2>3 DEF Ticks, NoCapture, Places, CapturesTyped, CapturesTypeOK
<1>3. ASSUME NEW c \in 1 .. MaxRows, NEW st \in {"approved", "rejected", "expired"},
             c = Top.c, Resolve(c, st), Ends, dialogOpen' = FALSE,
             Top.at = "dialog" \/ Top.c # NoCapture,
             UNCHANGED <<hostRead, requests, skipAll, parked>>
      PROVE  Capturing'
  <2>1. /\ cap' \in Seq(Captures) /\ Len(cap)' = Len(cap) /\ PendingRows' = PendingRows \ {c}
        /\ decided' \in SUBSET (1 .. MaxRows) /\ unseen' \in {unseen, Watchers}
        /\ unseen' = Watchers \/ c \notin PendingRows
    BY <1>1, <1>3, Resolving
  <2>2. /\ n \in Nat /\ n \in DOMAIN tick /\ Top = tick[n] /\ DOMAIN tick' \subseteq 1 .. n
        /\ \A i \in DOMAIN tick : i # n => (i \in DOMAIN tick' /\ tick'[i] = tick[i])
        /\ \A i \in DOMAIN tick' : i # n => (i \in DOMAIN tick /\ tick'[i] = tick[i])
        /\ n \notin DOMAIN tick' /\ tick' \in Seq(Ticks)
    BY <1>1, <1>3, Stacked
  <2>3. unseen' \in SUBSET Watchers /\ dialogOpen' \in BOOLEAN
    BY <1>2, <1>3, <2>1
  <2>4. CapturesTyped'
    BY <1>1, <1>2, <1>3, <2>1, <2>2, <2>3
    DEF CapturesTyped, CapturesTypeOK, Captures, Ticks, Places
  <2>5. \A i \in DOMAIN tick : i # n => tick[i].at # "dialog"
    BY <1>1, <1>3, NoneBelow
  <2> HIDE DEF n
  <2>6. OneDialog'
    BY <1>3, <2>2, <2>4, <2>5, DialogIs
  <2>7. unseen' = Watchers \/ (~Attends(Top) /\ PendingRows' = PendingRows)
    <3>1. c \notin PendingRows => (~Attends(Top) /\ PendingRows' = PendingRows)
      BY <1>1, <1>3, <2>1 DEF Attends
    <3> QED
      BY <2>1, <3>1
  <2>8. PendingRows' \subseteq PendingRows /\ Top.at \notin {"poll", "player"}
    BY <1>1, <2>1
  <2> QED
    BY <1>3, <2>1, <2>2, <2>4, <2>6, <2>7, <2>8, DecidingKeeps
<1>4. ASSUME NEW at \in {"quality", "park"}, NEW c \in 0 .. MaxRows, Becomes(at, c),
             Top.at = "dialog", at = "quality" => c = Top.c, dialogOpen' = FALSE,
             UNCHANGED <<cap, unseen, decided, hostRead, requests, skipAll, parked>>
      PROVE  Capturing'
  <2>1. /\ n \in Nat /\ n \in DOMAIN tick /\ Top = tick[n] /\ DOMAIN tick' \subseteq 1 .. n
        /\ \A i \in DOMAIN tick : i # n => (i \in DOMAIN tick' /\ tick'[i] = tick[i])
        /\ \A i \in DOMAIN tick' : i # n => (i \in DOMAIN tick /\ tick'[i] = tick[i])
        /\ n \in DOMAIN tick' /\ tick' \in Seq(Ticks)
        /\ tick'[n].at = at /\ tick'[n].c = c
    BY <1>1, <1>2, <1>4, Stacked
  <2>2. PendingRows' = PendingRows /\ Len(cap)' = Len(cap)
    BY <1>4 DEF PendingRows, Rows
  <2>3. CapturesTyped'
    BY <1>1, <1>2, <1>4, <2>1 DEF CapturesTyped, CapturesTypeOK, Captures, Ticks, Places
  <2>4. /\ \A i \in DOMAIN tick : i # n => tick[i].at # "dialog"
        /\ Top.c \in PendingRows
    BY <1>4, NoneBelow
  <2> HIDE DEF n
  <2>5. OneDialog'
    BY <1>4, <2>1, <2>3, <2>4, DialogIs
  <2>6. \/ tick'[n].at = "park"
        \/ tick'[n].at = "quality" /\ tick'[n].c \in PendingRows'
    BY <1>4, <2>1, <2>2, <2>4
  <2> QED
    BY <1>4, <2>1, <2>2, <2>3, <2>5, <2>6, DecidingKeeps
<1>5. CASE DialogCloses
  <2>1. /\ Top.at = "dialog" /\ dialogOpen' = FALSE
        /\ UNCHANGED <<hostRead, requests, skipAll, parked>>
    BY <1>5 DEF DialogCloses
  <2>2. Top.c \in 1 .. MaxRows
    BY <1>2, <2>1, NoneBelow
  <2>3. ASSUME NEW st \in {"rejected", "approved", "expired"}, Resolve(Top.c, st), Ends
        PROVE  Capturing'
    BY <1>3, <2>1, <2>2, <2>3
  <2>4. CASE Becomes("quality", Top.c) /\ UNCHANGED <<cap, unseen, decided>>
    BY <1>2, <1>4, <2>1, <2>4
  <2>5. CASE Becomes("park", NoCapture) /\ UNCHANGED <<cap, unseen, decided>>
    BY <1>2, <1>4, <2>1, <2>5
  <2> QED
    BY <1>5, <2>3, <2>4, <2>5 DEF DialogCloses
<1>6. CASE QualityCloses /\ Top.c # NoCapture
  <2>1. PICK st \in {"rejected", "approved"} : Resolve(Top.c, st)
    BY <1>6 DEF QualityCloses
  <2>2. /\ Top.at = "quality" /\ Ends
        /\ UNCHANGED <<hostRead, requests, skipAll, dialogOpen, parked>>
    BY <1>6 DEF QualityCloses
  <2>3. Top.c \in 1 .. MaxRows
    BY <1>2, <1>6 DEF NoCapture
  <2>4. ~dialogOpen
    BY <1>6, <2>2, NoneBelow
  <2>5. dialogOpen' = FALSE
    BY <1>1, <2>2, <2>4 DEF CapturesTyped, CapturesTypeOK
  <2> QED
    BY <1>3, <1>6, <2>1, <2>2, <2>3, <2>5
<1>7. CASE QualityCloses /\ Top.c = NoCapture
  <2>1. /\ Top.at = "quality" /\ Ends
        /\ UNCHANGED <<cap, unseen, decided, hostRead, requests, skipAll, dialogOpen, parked>>
    BY <1>7 DEF QualityCloses
  <2>2. /\ n \in Nat /\ n \in DOMAIN tick /\ Top = tick[n] /\ DOMAIN tick' \subseteq 1 .. n
        /\ \A i \in DOMAIN tick : i # n => (i \in DOMAIN tick' /\ tick'[i] = tick[i])
        /\ \A i \in DOMAIN tick' : i # n => (i \in DOMAIN tick /\ tick'[i] = tick[i])
        /\ n \notin DOMAIN tick' /\ tick' \in Seq(Ticks)
    BY <1>1, <2>1, Stacked
  <2>3. PendingRows' = PendingRows /\ Len(cap)' = Len(cap)
    BY <2>1 DEF PendingRows, Rows
  <2>4. CapturesTyped'
    BY <1>1, <1>2, <2>1, <2>2 DEF CapturesTyped, CapturesTypeOK, Captures, Ticks, Places
  <2> HIDE DEF n
  <2>5. OneDialog'
    <3>1. OneDialog
      BY DEF Capturing
    <3>2. \A i \in DOMAIN tick' : i \in DOMAIN tick /\ tick'[i] = tick[i]
      BY <2>2
    <3>3. dialogOpen <=> \E i \in DOMAIN tick' : tick'[i].at = "dialog"
      BY <2>1, <2>2, <3>1, <3>2 DEF OneDialog
    <3> QED
      BY <2>1, <2>3, <3>1, <3>2, <3>3 DEF OneDialog
  <2>6. ~Attends(Top)
    BY <1>2, <1>7, <2>1 DEF Attends
  <2> QED
    BY <2>1, <2>2, <2>3, <2>4, <2>5, <2>6, DecidingKeeps
<1> QED
  BY <1>5, <1>6, <1>7

LEMMA CapturingStep == Capturing /\ [CapturesNext]_capVars => Capturing'
<1> SUFFICES ASSUME Capturing, [CapturesNext]_capVars PROVE Capturing'
  OBVIOUS
<1>1. CASE CapturesNext
  <2>1. ASSUME NEW w \in Watchers, TimerTicks(w) PROVE Capturing'
    BY <2>1, EntersKeep DEF TimerTicks
  <2>2. ASSUME OpensDetected PROVE Capturing'
    <3>1. Enters("poll", "page") /\ "poll" \in Watchers
      BY <2>2 DEF OpensDetected, Watchers
    <3> QED
      BY <3>1, EntersKeep
  <2> QED
    BY <1>1, <2>1, <2>2, ArrivalsKeep, LookingKeeps, HandlingKeeps, ClosingKeeps, SkippingKeeps
    DEF CapturesNext
<1>2. CASE UNCHANGED capVars
  <2>1. UNCHANGED <<cap, hostRead, requests, unseen, tick, dialogOpen, parked, decided>>
    BY <1>2 DEF capVars
  <2>2. CapturesTyped'
    BY <1>2 DEF capVars, Capturing, CapturesTyped, CapturesTypeOK
  <2> QED
    BY <2>1, <2>2, QuietKeep
<1> QED
  BY <1>1, <1>2

\* A row that is not parked is rejected by a decision, or by "Skip all" when it came
\* after that had looked
LEMMA CapturingMoves ==
  ASSUME Capturing, [CapturesNext]_capVars, NEW c \in PendingRows, cap'[c].st = "rejected"
  PROVE  c \in decided' \/ c \in parked \/ c > Top.c
<1>1. CapturesTyped /\ cap[c].st = "pending"
  BY DEF Capturing, PendingRows
<1>2. /\ Len(cap) \in Nat /\ c \in 1 .. Len(cap) /\ cap \in Seq(Captures) /\ c \in DOMAIN cap
      /\ MaxRows \in Nat /\ Len(cap) <= MaxRows
  BY <1>1, Shapes DEF Rows
<1>3. cap' # cap
  BY <1>1
<1>4. ASSUME NEW e \in Captures, cap' = Append(cap, e) PROVE FALSE
  <2>1. cap'[c] = cap[c]
    BY <1>2, <1>4, AppendProperties
  <2> QED
    BY <1>1, <2>1
<1>5. ASSUME NEW d, NEW st, Resolve(d, st) PROVE c \in decided'
  BY <1>1, <1>5 DEF Resolve
<1>6. ASSUME NEW u \in Urls, CaptureSkipped(u) PROVE FALSE
  <2>1. Row(u, "rejected") \in Captures
    BY DEF Row, Captures
  <2> QED
    BY <1>4, <1>6, <2>1 DEF CaptureSkipped
<1>7. ASSUME CaptureAdded PROVE FALSE
  <2>1. hostRead \in Urls
    BY <1>1, <1>7 DEF CaptureAdded, CapturesTyped, CapturesTypeOK
  <2>2. Row(hostRead, "pending") \in Captures
    BY <2>1 DEF Row, Captures
  <2> QED
    BY <1>3, <1>4, <1>7, <2>2 DEF CaptureAdded
<1>8. ASSUME ExpireStale PROVE c \in decided'
  <2>1. PICK S \in SUBSET PendingRows : cap' = Expirable(S) /\ decided' = decided \cup S
    BY <1>8 DEF ExpireStale
  <2>2. c \in Rows /\ cap'[c] = IF c \in S THEN Row(cap[c].url, "expired") ELSE cap[c]
    BY <1>2, <2>1 DEF Expirable, Rows
  <2> QED
    BY <1>1, <2>1, <2>2
<1>9. ASSUME ShowsCapture PROVE c \in decided'
  BY <1>3, <1>9 DEF ShowsCapture
<1>10. ASSUME DialogCloses PROVE c \in decided'
  BY <1>3, <1>5, <1>10 DEF DialogCloses
<1>11. ASSUME QualityCloses PROVE c \in decided'
  BY <1>3, <1>5, <1>11 DEF QualityCloses
<1>12. ASSUME ParkRejects PROVE c \in parked \/ c > Top.c
  <2>1. Top.at = "reject"
    BY <1>12 DEF ParkRejects
  <2>2. /\ Top = tick[Len(tick)] /\ Len(tick) \in DOMAIN tick /\ Top \in Ticks
    BY <1>1, <2>1, TopIs
  <2>3. c <= Top.c => c \in parked
    BY <2>1, <2>2 DEF Capturing, Parking
  <2>4. Top.c \in Nat
    BY <2>2, <1>2 DEF Ticks
  <2> QED
    BY <1>2, <2>3, <2>4
<1>13. CASE CapturesNext
  <2>1. \/ \E u \in Urls : CaptureSkipped(u)
        \/ CaptureAdded \/ ExpireStale \/ ShowsCapture \/ DialogCloses \/ QualityCloses
        \/ ParkRejects
    BY <1>3, <1>13
    DEF CapturesNext, CaptureReads, CaptureStarted, PageArchived, PlayerClicked, TimerTicks,
        OpensDetected, Enters, Navigates, PlayerStarts, Parks, SkipAllSwitched
  <2> QED
    BY <1>6, <1>7, <1>8, <1>9, <1>10, <1>11, <1>12, <2>1
<1> QED
  BY <1>3, <1>13 DEF capVars

-----------------------------------------------------------------------------
(* The three parts together                                                *)

BridgeInv == Answering /\ Capturing /\ Detecting
bridgeVars == <<part, reqVars, capVars, detVars>>

LEMMA BridgeBegins == BridgeInit => BridgeInv
<1> QED
  BY AnsweringInit, CapturingInit, DetectingInit DEF BridgeInit, BridgeInv

\* A step of one part is a stutter of the others
LEMMA BridgeParts ==
  [BridgeNext]_bridgeVars =>
    [RequestsNext]_reqVars /\ [CapturesNext]_capVars /\ [DetectionsNext]_detVars
<1> QED
  BY DEF BridgeNext, InRequests, InCaptures, InDetections, bridgeVars

LEMMA BridgeStep == BridgeInv /\ [BridgeNext]_bridgeVars => BridgeInv'
<1> QED
  BY BridgeParts, AnsweringStep, CapturingStep, DetectingStep DEF BridgeInv

(* The invariant of the browser bridge: a row of browser_requests is ready *)
(* only with every chunk, and is not taken back; a dialog is on top of the *)
(* ticks that could take its capture away, and every pending capture has a *)
(* tick that will look or will write; and what a merge or a removal of     *)
(* detections read is still within bounds when it writes                   *)
(* (browser/manager.py, capture_watcher.py, merge_files).                  *)
THEOREM BridgeInvariant == BridgeSpec => []BridgeInv
<1> QED
  BY BridgeBegins, BridgeStep, PTL DEF BridgeSpec, bridgeVars

(* Every variable of the three parts has its type; in particular no host   *)
(* ever has more than _MAX_CHUNK_ASSEMBLIES bodies half received, although *)
(* every chunk may begin one.                                              *)
THEOREM BridgeTypeCorrect == BridgeSpec => []BridgeTypeOK
<1>1. Answering => RequestsTypeOK
  BY DEF Answering, RequestsTyped, Bounded, Assembled, RequestsTypeOK, Statuses, Outcomes,
         Sending, Progress
<1>2. BridgeInv => BridgeTypeOK
  BY <1>1 DEF BridgeInv, Capturing, CapturesTyped, Detecting, BridgeTypeOK
<1> QED
  BY BridgeInvariant, <1>2, PTL

(* A fetch through the browser that returns bytes returns the whole body,  *)
(* however many hosts answer the row, whichever chunks are refused, and    *)
(* although mark_expired writes over an answer it has not seen             *)
(* (_blob_fetch_chunk, fetch_bytes, mark_expired).                         *)
THEOREM AnswerCorrect == BridgeSpec => []AnswerWhole
<1>1. BridgeInv => AnswerWhole
  BY DEF BridgeInv, Answering, ReadyWhole, AnswerWhole
<1> QED
  BY BridgeInvariant, <1>1, PTL

(* No capture and no click on a player waits unnoticed, for any number of  *)
(* them and any nesting of the ticks that dialogs allow (_db_unchanged,    *)
(* poll, _handle_captures).                                                *)
THEOREM OverlooksNobody == BridgeSpec => []NobodyOverlooked
<1>1. BridgeInv => NobodyOverlooked
  <2> SUFFICES ASSUME BridgeInv PROVE NobodyOverlooked
    OBVIOUS
  <2>1. CapturesTyped /\ Noticed /\ Attended
    BY DEF BridgeInv, Capturing
  <2>2. NoCapture \notin PendingRows
    BY <2>1, Shapes DEF NoCapture
  <2>3. PendingRows # {} => ("poll" \in unseen \/ WillLook("poll") \/ WillLook("captures")
                             \/ WillWrite)
    BY <2>1, <2>2 DEF Attended, Attends, WillLook, WillWrite
  <2> QED
    BY <2>1, <2>3 DEF Noticed, NobodyOverlooked
<1> QED
  BY BridgeInvariant, <1>1, PTL

(* A capture nobody was asked about is rejected only after it was parked   *)
(* on the Detected page, or if it came while "Skip all" was between its    *)
(* read and its rejection (_park_all_pending_as_detections).               *)
THEOREM ParkedOrDecidedAlways == BridgeSpec => ParkedOrDecided
<1>1. ASSUME BridgeInv, [BridgeNext]_bridgeVars
      PROVE  [\A c \in PendingRows :
                cap'[c].st = "rejected" =>
                  \/ c \in decided' \/ c \in parked
                  \/ c > Top.c]_capVars
  BY <1>1, BridgeParts, CapturingMoves DEF BridgeInv
<1> QED
  BY BridgeInvariant, <1>1, PTL DEF BridgeSpec, ParkedOrDecided, bridgeVars

(* A detected file stays in the extension's queue or on the Detected page  *)
(* until the user removes it, downloads it or leaves its page, but for the *)
(* three windows the model names; two writers of the page, a merge and a   *)
(* removal, work from what each read before (merge_files,                  *)
(* _remove_selected, queue.js dropDelivered).                              *)
THEOREM DetectionsCorrect == BridgeSpec => []DetectionsKept
<1>1. BridgeInv => DetectionsKept
  BY DEF BridgeInv, Detecting
<1> QED
  BY BridgeInvariant, <1>1, PTL
=============================================================================
