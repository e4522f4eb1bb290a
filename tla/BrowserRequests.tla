--------------------------- MODULE BrowserRequests ---------------------------
(***************************************************************************)
(* The table browser_requests: a thread of the application asks the        *)
(* browser to fetch an address, the native-messaging host of a browser     *)
(* claims the row and pushes it to its extension, the extension sends the  *)
(* body back in chunks, and the host puts them together and answers the    *)
(* row.  There is a host process for each open browser.  The captures a    *)
(* page sends in chunks share the table of half-received bodies.           *)
(***************************************************************************)
EXTENDS Naturals, FiniteSets

CONSTANTS
  Hosts,          \* native-messaging host processes, one for each open browser
  NumRequests,    \* requests asked for in a behaviour
  NumChunks,      \* chunks of a body
  CaptureKeys,    \* captures sent in chunks (capture_key)
  MaxAssemblies   \* _MAX_CHUNK_ASSEMBLIES

ASSUME RequestsAssumption ==
  /\ NumRequests \in Nat \ {0} /\ NumChunks \in Nat \ {0}
  /\ MaxAssemblies \in Nat \ {0} /\ IsFiniteSet(CaptureKeys)

Requests == 1..NumRequests
Chunks == 1..NumChunks
Keys == Requests \cup CaptureKeys
NoRow == 0

VARIABLES
  row,       \* status of each request, "none" before it is added
  whole,     \* the chunks of the body stored on the row
  fetch,     \* fetch_bytes: "none", "waiting", "giving up", "got", "failed"
  seenRow,   \* what mark_expired read before it writes
  claim,     \* the row each host's writer thread has read and not yet marked
  job,       \* what each extension sends for a key: how, and the next chunk
  assembly,  \* _chunk_assemblies of each host
  stalled,   \* the assemblies that received nothing for 60 seconds
  capture    \* "none", "sending", "done", "refused" for each capture

reqVars == <<row, whole, fetch, seenRow, claim, job, assembly, stalled, capture>>

Sends == {"nothing", "page", "worker", "capture"}
NoJob == [how |-> "nothing", next |-> 1]

RequestsInit ==
  /\ row = [r \in Requests |-> "none"]
  /\ whole = [r \in Requests |-> {}]
  /\ fetch = [r \in Requests |-> "none"]
  /\ seenRow = [r \in Requests |-> "none"]
  /\ claim = [h \in Hosts |-> NoRow]
  /\ job = [h \in Hosts |-> [k \in Keys |-> NoJob]]
  /\ assembly = [h \in Hosts |-> [k \in Keys |-> {}]]
  /\ stalled = [h \in Hosts |-> {}]
  /\ capture = [k \in CaptureKeys |-> "none"]

(***************************************************************************)
(* The fetching thread (BrowserFetcher.fetch_bytes, and the poll of a      *)
(* pasted blob: address): it adds a row, looks at it again and again, and  *)
(* gives up at its deadline or when it is cancelled.                       *)
(***************************************************************************)
Ask(r) ==
  /\ fetch[r] = "none"
  /\ \A e \in 1..(r - 1) : fetch[e] # "none"
  /\ row' = [row EXCEPT ![r] = "queued"]
  /\ fetch' = [fetch EXCEPT ![r] = "waiting"]
  /\ UNCHANGED <<whole, seenRow, claim, job, assembly, stalled, capture>>

Poll(r) ==
  /\ fetch[r] = "waiting"
  /\ row[r] \in {"ready", "error", "expired"}
  /\ fetch' = [fetch EXCEPT ![r] = IF row[r] = "ready" THEN "got" ELSE "failed"]
  /\ UNCHANGED <<row, whole, seenRow, claim, job, assembly, stalled, capture>>

\* mark_expired reads the status in one transaction ...
GivesUp(r) ==
  /\ fetch[r] = "waiting"
  /\ fetch' = [fetch EXCEPT ![r] = "giving up"]
  /\ seenRow' = [seenRow EXCEPT ![r] = row[r]]
  /\ UNCHANGED <<row, whole, claim, job, assembly, stalled, capture>>

\* ... and writes in the next, over an answer that came in between.
Expires(r) ==
  /\ fetch[r] = "giving up"
  /\ fetch' = [fetch EXCEPT ![r] = "failed"]
  /\ row' = IF seenRow[r] \in {"queued", "sent"}
            THEN [row EXCEPT ![r] = "expired"] ELSE row
  /\ UNCHANGED <<whole, seenRow, claim, job, assembly, stalled, capture>>

(***************************************************************************)
(* The writer thread of a host (next_queued): it reads the oldest queued   *)
(* row and marks it sent without looking at it again, so that two hosts    *)
(* may push the same request, or push one that has just expired.           *)
(***************************************************************************)
Queued == {r \in Requests : row[r] = "queued"}

ClaimReads(h) ==
  /\ claim[h] = NoRow
  /\ \E r \in Queued : /\ \A e \in Queued : r <= e
                       /\ claim' = [claim EXCEPT ![h] = r]
  /\ UNCHANGED <<row, whole, fetch, seenRow, job, assembly, stalled, capture>>

\* The extension tries the page of the captured player first, and its own
\* service worker when there is none.
ClaimWrites(h) ==
  LET r == claim[h] IN
  /\ r # NoRow
  /\ claim' = [claim EXCEPT ![h] = NoRow]
  /\ row' = [row EXCEPT ![r] = "sent"]
  /\ \E how \in {"page", "worker"} :
       job' = [job EXCEPT ![h][r] = [how |-> how, next |-> 1]]
  /\ UNCHANGED <<whole, fetch, seenRow, assembly, stalled, capture>>

(***************************************************************************)
(* Chunks.  Every chunk first purges the stalled assemblies, which answers *)
(* their requests with an error, and is then refused when the table is     *)
(* full, even if its own assembly is one of those in the table.            *)
(***************************************************************************)
Kept(h) == {k \in Keys : assembly[h][k] # {}} \ stalled[h]
Purged(h) == [k \in Keys |-> IF k \in stalled[h] THEN {} ELSE assembly[h][k]]
TableFull(h) == Cardinality(Kept(h)) >= MaxAssemblies

RowsAfterPurge(h) ==
  [r \in Requests |-> IF r \in stalled[h] THEN "error" ELSE row[r]]

Received(h, k) == Purged(h)[k] \cup {job[h][k].next}
LastCame(h, k) == job[h][k].next = NumChunks
Complete(h, k) == Received(h, k) = Chunks

PastTheLast(h, k) == [job[h][k] EXCEPT !.next = @ + 1]
NextChunk(h, k) ==
  IF job[h][k].next = NumChunks THEN NoJob
  ELSE [job[h][k] EXCEPT !.next = @ + 1]

\* A chunk that is taken (_capture_chunk, _blob_fetch_chunk).
ChunkTaken(h, k) ==
  /\ job[h][k].how # "nothing"
  /\ ~TableFull(h)
  /\ assembly' = [assembly EXCEPT ![h] = [Purged(h) EXCEPT
       ![k] = IF Complete(h, k) THEN {} ELSE Received(h, k)]]
  /\ stalled' = [stalled EXCEPT ![h] = {}]
  /\ job' = [job EXCEPT ![h][k] = NextChunk(h, k)]
  /\ row' = IF k \in Requests /\ Complete(h, k)
            THEN [RowsAfterPurge(h) EXCEPT ![k] = "ready"] ELSE RowsAfterPurge(h)
  /\ whole' = IF k \in Requests /\ Complete(h, k)
              THEN [whole EXCEPT ![k] = Received(h, k)] ELSE whole
  /\ capture' = IF k \in CaptureKeys /\ Complete(h, k)
                THEN [capture EXCEPT ![k] = "done"] ELSE capture
  /\ UNCHANGED <<fetch, seenRow, claim>>

\* A chunk that is refused.  The page gives its fetch up and the service
\* worker starts it again; the service worker reads no answer and sends the
\* rest; a capture is given up.
ChunkRefused(h, k) ==
  /\ job[h][k].how # "nothing"
  /\ TableFull(h)
  /\ assembly' = [assembly EXCEPT ![h] = Purged(h)]
  /\ stalled' = [stalled EXCEPT ![h] = {}]
  /\ row' = RowsAfterPurge(h)
  /\ job' = [job EXCEPT ![h][k] =
       CASE job[h][k].how = "page" -> [how |-> "worker", next |-> 1]
         [] job[h][k].how = "worker" -> NextChunk(h, k)
         [] OTHER -> NoJob]
  /\ capture' = IF k \in CaptureKeys THEN [capture EXCEPT ![k] = "refused"] ELSE capture
  /\ UNCHANGED <<whole, fetch, seenRow, claim>>

\* The page fails at any point and the service worker starts again; a
\* service worker that cannot fetch the address answers with an error.
FetchFails(h, r) ==
  /\ \/ /\ job[h][r].how = "page"
        /\ job' = [job EXCEPT ![h][r] = [how |-> "worker", next |-> 1]]
        /\ UNCHANGED row
     \/ /\ job[h][r].how = "worker" /\ job[h][r].next = 1
        /\ job' = [job EXCEPT ![h][r] = NoJob]
        /\ row' = [row EXCEPT ![r] = "error"]
  /\ UNCHANGED <<whole, fetch, seenRow, claim, assembly, stalled, capture>>

CaptureStarts(h, k) ==
  /\ capture[k] = "none"
  /\ capture' = [capture EXCEPT ![k] = "sending"]
  /\ job' = [job EXCEPT ![h][k] = [how |-> "capture", next |-> 1]]
  /\ UNCHANGED <<row, whole, fetch, seenRow, claim, assembly, stalled>>

\* Sixty seconds without a chunk: only the next chunk notices.
Stalls(h, k) ==
  /\ assembly[h][k] # {}
  /\ k \notin stalled[h]
  /\ stalled' = [stalled EXCEPT ![h] = @ \cup {k}]
  /\ UNCHANGED <<row, whole, fetch, seenRow, claim, job, assembly, capture>>

\* The browser closes and opens again: the host and its extension start from
\* nothing, and a row they had claimed stays sent.
HostRestarts(h) ==
  /\ \E k \in Keys : job[h][k] # NoJob \/ assembly[h][k] # {}
  /\ claim' = [claim EXCEPT ![h] = NoRow]
  /\ job' = [job EXCEPT ![h] = [k \in Keys |-> NoJob]]
  /\ assembly' = [assembly EXCEPT ![h] = [k \in Keys |-> {}]]
  /\ stalled' = [stalled EXCEPT ![h] = {}]
  /\ capture' = [k \in CaptureKeys |->
       IF job[h][k] # NoJob THEN "refused" ELSE capture[k]]
  /\ UNCHANGED <<row, whole, fetch, seenRow>>

RequestsNext ==
  \/ \E r \in Requests : Ask(r) \/ Poll(r) \/ GivesUp(r) \/ Expires(r)
  \/ \E h \in Hosts : ClaimReads(h) \/ ClaimWrites(h) \/ HostRestarts(h)
  \/ \E h \in Hosts, k \in Keys : ChunkTaken(h, k) \/ ChunkRefused(h, k) \/ Stalls(h, k)
  \/ \E h \in Hosts, r \in Requests : FetchFails(h, r)
  \/ \E h \in Hosts, k \in CaptureKeys : CaptureStarts(h, k)

-----------------------------------------------------------------------------
RequestsTypeOK ==
  /\ row \in [Requests -> {"none", "queued", "sent", "ready", "error", "expired"}]
  /\ whole \in [Requests -> SUBSET Chunks]
  /\ fetch \in [Requests -> {"none", "waiting", "giving up", "got", "failed"}]
  /\ claim \in [Hosts -> Requests \cup {NoRow}]
  /\ job \in [Hosts -> [Keys -> [how : Sends, next : Chunks]]]
  /\ assembly \in [Hosts -> [Keys -> SUBSET Chunks]]
  /\ \A h \in Hosts : Cardinality({k \in Keys : assembly[h][k] # {}}) <= MaxAssemblies
  /\ stalled \in [Hosts -> SUBSET Keys]
  /\ capture \in [CaptureKeys -> {"none", "sending", "done", "refused"}]

\* A fetch that returns bytes returns the whole body: two hosts may answer the
\* same row, a fetch may be begun by the page and again by the service worker,
\* a refused chunk may be missing and a row may be answered after it expired,
\* but a row is ready only with every chunk (_blob_fetch_chunk, fetch_bytes).
AnswerWhole == \A r \in Requests : fetch[r] = "got" => whole[r] = Chunks
=============================================================================
