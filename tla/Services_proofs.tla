--------------------------- MODULE Services_proofs ---------------------------
(***************************************************************************)
(* Theorems about the services around the downloads: for each, what its    *)
(* component's specification promises for every value of its constants.    *)
(***************************************************************************)
EXTENDS MCServices, SequenceTheorems, FiniteSetTheorems, WellFoundedInduction, TLAPS

-----------------------------------------------------------------------------
(* Sequences, of whatever kind of elements                                 *)

IsSeq(s) == \E S : s \in Seq(S)

LEMMA EmptyIsSeq == IsSeq(<<>>) /\ Len(<<>>) = 0 /\ DOMAIN <<>> = {}
<1>1. <<>> \in Seq({})
  BY EmptySeq
<1>2. Len(<<>>) = 0
  BY EmptySeq
<1>3. DOMAIN <<>> = 1 .. Len(<<>>)
  BY <1>1, LenProperties
<1>4. 1 .. 0 = {}
  OBVIOUS
<1> QED
  BY <1>1, <1>2, <1>3, <1>4 DEF IsSeq

LEMMA DomainOfSeq ==
  ASSUME NEW s, IsSeq(s)
  PROVE  /\ Len(s) \in Nat /\ DOMAIN s = 1 .. Len(s)
         /\ s = <<>> <=> Len(s) = 0
<1>1. PICK S : s \in Seq(S)
  BY DEF IsSeq
<1>2. Len(s) \in Nat /\ DOMAIN s = 1 .. Len(s)
  BY <1>1, LenProperties
<1>3. s # <<>> => Len(s) \in Nat \ {0}
  BY <1>1, EmptySeq
<1>4. Len(<<>>) = 0
  BY EmptySeq
<1> QED
  BY <1>2, <1>3, <1>4

LEMMA ConsOfSeq ==
  ASSUME NEW s, IsSeq(s), NEW e
  PROVE  /\ IsSeq(<<e>> \o s) /\ Len(<<e>> \o s) = Len(s) + 1
         /\ (<<e>> \o s)[1] = e
         /\ \A k \in 1 .. Len(s) : (<<e>> \o s)[k + 1] = s[k]
<1>1. PICK S : s \in Seq(S)
  BY DEF IsSeq
<1> DEFINE T == S \cup {e}
<1>2. s \in Seq(T)
  BY <1>1, SeqMonotonic
<1>3. <<e>> \in Seq(T) /\ Len(<<e>>) = 1 /\ <<e>>[1] = e
  BY e \in T
<1> HIDE DEF T
<1>4. Len(s) \in Nat
  BY <1>1, LenProperties
<1>5. /\ <<e>> \o s \in Seq(T)
      /\ Len(<<e>> \o s) = 1 + Len(s)
      /\ \A i \in 1 .. 1 + Len(s) : (<<e>> \o s)[i] = IF i <= 1 THEN <<e>>[i] ELSE s[i - 1]
  BY <1>2, <1>3, ConcatProperties
<1>6. \A k \in 1 .. Len(s) : (<<e>> \o s)[k + 1] = s[k]
  <2>1. TAKE k \in 1 .. Len(s)
  <2>2. k + 1 \in 1 .. 1 + Len(s) /\ ~(k + 1 <= 1) /\ (k + 1) - 1 = k
    BY <1>4
  <2> QED
    BY <1>5, <2>2
<1>7. (<<e>> \o s)[1] = e
  BY <1>3, <1>4, <1>5
<1> QED
  BY <1>4, <1>5, <1>6, <1>7 DEF IsSeq

LEMMA AppendOfSeq ==
  ASSUME NEW s, IsSeq(s), NEW e
  PROVE  /\ IsSeq(Append(s, e)) /\ Len(Append(s, e)) = Len(s) + 1
         /\ Append(s, e)[Len(s) + 1] = e
         /\ \A k \in 1 .. Len(s) : Append(s, e)[k] = s[k]
<1>1. PICK S : s \in Seq(S)
  BY DEF IsSeq
<1> DEFINE T == S \cup {e}
<1>2. s \in Seq(T) /\ e \in T
  BY <1>1, SeqMonotonic
<1> HIDE DEF T
<1> QED
  BY <1>2, AppendProperties DEF IsSeq

LEMMA TailOfSeq ==
  ASSUME NEW s, IsSeq(s), s # <<>>
  PROVE  /\ IsSeq(Tail(s)) /\ Len(Tail(s)) = Len(s) - 1 /\ Head(s) = s[1]
         /\ \A k \in 1 .. Len(Tail(s)) : Tail(s)[k] = s[k + 1]
<1>1. PICK S : s \in Seq(S)
  BY DEF IsSeq
<1>2. Head(s) = s[1]
  BY <1>1
<1> QED
  BY <1>1, <1>2, HeadTailProperties DEF IsSeq

-----------------------------------------------------------------------------
(* The question about a duplicate                                          *)

Asking == IsSeq(asking) /\ hook \in BOOLEAN /\ AskedOnlyUnderneath

LEMMA AskingInit == LibraryInit => Asking
  BY EmptyIsSeq DEF LibraryInit, Asking, AskedOnlyUnderneath

LEMMA DialogOpens ==
  ASSUME Asking, NEW q, NEW p, NEW attended \in BOOLEAN, OpenDialog(q, p, attended),
         hook' = TRUE, attended => asking = <<>>, ~attended => hook
  PROVE  Asking'
<1> DEFINE e == [req |-> q, at |-> p, set |-> attended]
           a == asking
<1> HIDE DEF e
<1>1. asking' = <<e>> \o a
  BY DEF OpenDialog, e
<1>2. e.set = attended
  BY DEF e
<1> DEFINE s == <<e>> \o a
<1>3. Len(a) \in Nat /\ DOMAIN a = 1 .. Len(a) /\ (a = <<>> <=> Len(a) = 0)
  BY DomainOfSeq DEF Asking
<1>4. /\ IsSeq(s) /\ Len(s) = Len(a) + 1 /\ s[1] = e
      /\ \A k \in 1 .. Len(a) : s[k + 1] = a[k]
  BY ConsOfSeq DEF Asking
<1>5. DOMAIN s = 1 .. Len(a) + 1
  BY <1>4, DomainOfSeq
<1> HIDE DEF s
<1>6. /\ hook => \E k \in 1 .. Len(a) : a[k].set
      /\ \A k \in 1 .. Len(a) : a[k].set => k = Len(a)
  BY <1>3 DEF Asking, AskedOnlyUnderneath
<1> HIDE DEF a
<1>7. \E k \in 1 .. Len(a) + 1 : s[k].set
  <2>1. CASE attended
    <3>1. 1 \in 1 .. Len(a) + 1
      BY <1>3
    <3>2. s[1].set
      BY <2>1, <1>2, <1>4
    <3> QED
      BY <3>1, <3>2
  <2>2. CASE ~attended
    <3>1. PICK k \in 1 .. Len(a) : a[k].set
      BY <2>2, <1>6
    <3>2. k + 1 \in 1 .. Len(a) + 1 /\ s[k + 1].set
      BY <3>1, <1>3, <1>4
    <3> QED
      BY <3>2
  <2> QED
    BY <2>1, <2>2
<1>8. \A k \in 1 .. Len(a) + 1 : s[k].set => k = Len(a) + 1
  <2>1. SUFFICES ASSUME NEW k \in 1 .. Len(a) + 1, s[k].set
                 PROVE  k = Len(a) + 1
    OBVIOUS
  <2>2. CASE k = 1
    <3>1. attended
      BY <2>1, <2>2, <1>2, <1>4
    <3>2. Len(a) = 0
      BY <3>1, <1>3 DEF a
    <3> QED
      BY <3>2, <2>2
  <2>3. CASE k # 1
    <3>1. k - 1 \in 1 .. Len(a) /\ (k - 1) + 1 = k
      BY <2>3, <1>3
    <3>2. s[(k - 1) + 1] = a[k - 1]
      BY <3>1, <1>4
    <3>3. k - 1 = Len(a)
      BY <3>1, <3>2, <2>1, <1>6
    <3> QED
      BY <3>1, <3>3, <1>3
  <2> QED
    BY <2>2, <2>3
<1>9. asking' = s
  BY <1>1 DEF s, a
<1> QED
  BY <1>4, <1>5, <1>7, <1>8, <1>9 DEF Asking, AskedOnlyUnderneath

LEMMA AddAsks ==
  ASSUME Asking, NEW q, NEW asked \in BOOLEAN, NEW attended \in BOOLEAN,
         Adds(q, asked, attended),
         attended => asking = <<>>, ~attended /\ asked => hook
  PROVE  Asking'
<1>1. CASE UNCHANGED <<asking, hook>>
  BY <1>1 DEF Asking, AskedOnlyUnderneath
<1>2. CASE /\ Decision(asked) = "ask"
           /\ \E p \in Duplicates(q) : OpenDialog(q, p, attended)
           /\ hook' = TRUE
  <2>1. asked
    BY <1>2 DEF Decision
  <2>2. PICK p \in Duplicates(q) : OpenDialog(q, p, attended)
    BY <1>2
  <2> QED
    BY <1>2, <2>1, <2>2, DialogOpens
<1> QED
  BY <1>1, <1>2 DEF Adds

LEMMA DialogAnswered ==
  ASSUME Asking, NEW choice, AnswerDialog(choice)
  PROVE  Asking'
<1> DEFINE a == asking
           t == Tail(a)
<1>1. a # <<>> /\ asking' = t /\ hook' = IF Head(a).set THEN FALSE ELSE hook
  BY DEF AnswerDialog, Restored
<1>2. Len(a) \in Nat /\ DOMAIN a = 1 .. Len(a) /\ (a = <<>> <=> Len(a) = 0)
  BY DomainOfSeq DEF Asking
<1>3. /\ IsSeq(t) /\ Len(t) = Len(a) - 1 /\ Head(a) = a[1]
      /\ \A k \in 1 .. Len(t) : t[k] = a[k + 1]
  BY <1>1, TailOfSeq DEF Asking
<1>4. DOMAIN t = 1 .. Len(t) /\ Len(t) \in Nat
  BY <1>3, DomainOfSeq
<1>5. /\ hook => \E k \in 1 .. Len(a) : a[k].set
      /\ \A k \in 1 .. Len(a) : a[k].set => k = Len(a)
  BY <1>2 DEF Asking, AskedOnlyUnderneath
<1> HIDE DEF t, a
<1>6. hook' => \E k \in 1 .. Len(t) : t[k].set
  <2>1. SUFFICES ASSUME hook' PROVE \E k \in 1 .. Len(t) : t[k].set
    OBVIOUS
  <2>2. hook /\ ~a[1].set
    BY <2>1, <1>1, <1>3
  <2>3. PICK k \in 1 .. Len(a) : a[k].set
    BY <2>2, <1>5
  <2>4. k - 1 \in 1 .. Len(t) /\ (k - 1) + 1 = k
    BY <2>2, <2>3, <1>2, <1>3
  <2>5. t[k - 1] = a[k]
    BY <2>4, <1>3
  <2> QED
    BY <2>3, <2>4, <2>5
<1>7. \A k \in 1 .. Len(t) : t[k].set => k = Len(t)
  <2>1. SUFFICES ASSUME NEW k \in 1 .. Len(t), t[k].set PROVE k = Len(t)
    OBVIOUS
  <2>2. k + 1 \in 1 .. Len(a)
    BY <1>2, <1>3, <1>4
  <2>3. k + 1 = Len(a)
    BY <2>1, <2>2, <1>3, <1>5
  <2> QED
    BY <2>3, <1>2, <1>3
<1> QED
  BY <1>1, <1>3, <1>4, <1>6, <1>7 DEF Asking, AskedOnlyUnderneath

LEMMA AskingStep == Asking /\ [LibraryNext]_libVars => Asking'
<1> SUFFICES ASSUME Asking, [LibraryNext]_libVars PROVE Asking'
  OBVIOUS
<1>1. ASSUME NEW q \in Request, AddAttended(q) PROVE Asking'
  BY <1>1, AddAsks DEF AddAttended
<1>2. ASSUME NEW q \in Request, AddUnattended(q) \/ AddPlaylist(q) PROVE Asking'
  <2>1. Adds(q, hook, FALSE)
    BY <1>2 DEF AddUnattended, AddPlaylist
  <2>2. CASE hook = TRUE
    BY <2>1, <2>2, AddAsks
  <2>3. CASE hook = FALSE
    BY <2>1, <2>3, AddAsks
  <2> QED
    BY <2>2, <2>3 DEF Asking
<1>3. ASSUME NEW choice, AnswerDialog(choice) PROVE Asking'
  BY <1>3, DialogAnswered
<1>4. ASSUME UNCHANGED <<hook, asking>> PROVE Asking'
  BY <1>4 DEF Asking, AskedOnlyUnderneath
<1> QED
  BY <1>1, <1>2, <1>3, <1>4
  DEF LibraryNext, libVars, FinishTask, FinishVideo, Archived, RemoveDownload, Scan, Digest,
      Index

\* A question hangs on the context only while the dialog of the Add dialog's own add is
\* open underneath all others: nobody is asked about an add that came by itself later
\* (ui/pages/downloads.py, _add_with_dedup_dialog).
THEOREM AskedCorrect == LibrarySpec => []AskedOnlyUnderneath
<1>1. Asking => AskedOnlyUnderneath
  BY DEF Asking
<1> QED
  BY AskingInit, AskingStep, <1>1, PTL DEF LibrarySpec

-----------------------------------------------------------------------------
(* The dialog that reads                                                   *)

ReaderThread == [ph : {"first", "again", "listing", "told", "ended"},
                 cancel : BOOLEAN, quit : BOOLEAN, merges : BOOLEAN]
IsChoice(r) ==
    \E st, limit, merge, videos :
      r = [st |-> st, limit |-> limit, merge |-> merge, videos |-> videos]

\* The thread of the controller has not been told to quit, and what it said last waits
Attached ==
    ctl # 0 => /\ ~threads[ctl].quit /\ threads[ctl].ph # "ended"
               /\ threads[ctl].ph = "told" => signals # <<>>

Reading ==
    /\ ffmpeg \in BOOLEAN /\ threads \in Seq(ReaderThread) /\ IsSeq(signals)
    /\ ctl \in 0 .. Len(threads) /\ IsChoice(result)
    /\ Attached
    /\ ScanHasReader

LEMMA ReadingInit == QualityInit => Reading
<1> SUFFICES ASSUME QualityInit PROVE Reading
  OBVIOUS
<1> DEFINE r == Reader(ffmpeg)
<1>1. r \in ReaderThread /\ r.ph = "first" /\ ~r.quit
  BY DEF QualityInit, Reader, ReaderThread
<1> HIDE DEF r
<1>2. threads = <<r>> /\ ctl = 1 /\ signals = <<>> /\ ffmpeg \in BOOLEAN /\ result = Undecided
  BY DEF QualityInit, r
<1>3. threads \in Seq(ReaderThread) /\ Len(threads) = 1 /\ threads[1] = r
  BY <1>1, <1>2
<1>4. IsChoice(result)
  BY <1>2 DEF IsChoice, Undecided
<1> QED
  BY <1>1, <1>2, <1>3, <1>4, EmptyIsSeq DEF Reading, Attached, ScanHasReader

\* One thread changes, and it is not the controller's, or has spoken, or is where it was
LEMMA ThreadMoves ==
  ASSUME Reading, NEW t \in DOMAIN threads, NEW r \in ReaderThread,
         threads' = [threads EXCEPT ![t] = r],
         UNCHANGED <<ffmpeg, ctl, view, result>>, IsSeq(signals'),
         signals # <<>> => signals' # <<>>,
         t = ctl => /\ r.quit = threads[t].quit /\ r.ph # "ended"
                    /\ (r.ph = "told" => signals' # <<>>)
  PROVE  Reading'
<1>1. /\ threads' \in Seq(ReaderThread) /\ Len(threads') = Len(threads)
      /\ \A k \in 1 .. Len(threads) : threads'[k] = IF k = t THEN r ELSE threads[k]
  <2>1. threads \in Seq(ReaderThread) /\ t \in 1 .. Len(threads)
    BY LenProperties DEF Reading
  <2> QED
    BY <2>1, ExceptSeq
<1>2. Len(threads) \in Nat
  BY LenProperties DEF Reading
<1>3. ctl # 0 => ctl \in 1 .. Len(threads)
  BY <1>2 DEF Reading
<1>4. Attached'
  <2>1. SUFFICES ASSUME ctl # 0
                 PROVE  /\ ~threads'[ctl].quit /\ threads'[ctl].ph # "ended"
                        /\ (threads'[ctl].ph = "told" => signals' # <<>>)
    BY DEF Attached
  <2>2. /\ ~threads[ctl].quit /\ threads[ctl].ph # "ended"
        /\ (threads[ctl].ph = "told" => signals # <<>>)
    BY <2>1 DEF Reading, Attached
  <2>3. threads'[ctl] = IF ctl = t THEN r ELSE threads[ctl]
    BY <2>1, <1>1, <1>3
  <2> QED
    BY <2>2, <2>3
<1>5. ScanHasReader'
  <2>1. SUFFICES ASSUME result.st = "open", view = "scanning"
                 PROVE  \/ ctl # 0 /\ threads'[ctl].ph \in {"first", "again", "listing"}
                        \/ signals' # <<>>
    BY DEF ScanHasReader
  <2>2. CASE signals # <<>>
    BY <2>2
  <2>3. CASE signals = <<>>
    <3>1. ctl # 0
      BY <2>1, <2>3 DEF Reading, ScanHasReader
    <3>2. threads'[ctl] \in ReaderThread
      BY <3>1, <1>1, <1>3, ElementOfSeq
    <3>3. ~(threads'[ctl].ph = "ended") /\ (threads'[ctl].ph = "told" => signals' # <<>>)
      BY <3>1, <1>4 DEF Attached
    <3> QED
      BY <3>1, <3>2, <3>3 DEF ReaderThread
  <2> QED
    BY <2>2, <2>3
<1> QED
  BY <1>1, <1>4, <1>5 DEF Reading

LEMMA ThreadOf ==
  ASSUME Reading, NEW t \in DOMAIN threads
  PROVE  threads[t] \in ReaderThread
  BY LenProperties, ElementOfSeq DEF Reading

\* A thread says its last word
LEMMA ThreadTells ==
  ASSUME Reading, NEW t \in DOMAIN threads, NEW what, NEW info, Tells(t, what, info)
  PROVE  Reading'
<1> DEFINE r == [threads[t] EXCEPT !.ph = "told"]
<1>1. threads[t] \in ReaderThread
  BY ThreadOf
<1>2. r \in ReaderThread /\ r.quit = threads[t].quit /\ r.ph = "told"
  BY <1>1 DEF ReaderThread
<1>3. threads' = [threads EXCEPT ![t] = r]
  BY DEF Tells
<1>4. IsSeq(signals') /\ signals' # <<>>
  <2>1. Len(signals) \in Nat
    BY DomainOfSeq DEF Reading
  <2>2. IsSeq(signals') /\ Len(signals') = Len(signals) + 1
    BY AppendOfSeq DEF Reading, Tells
  <2> QED
    BY <2>1, <2>2, DomainOfSeq
<1> HIDE DEF r
<1> QED
  BY <1>2, <1>3, <1>4, ThreadMoves DEF Tells

\* It goes on reading
LEMMA ThreadReads ==
  ASSUME Reading, NEW t \in DOMAIN threads, NEW goes \in {"again", "listing"},
         threads' = [threads EXCEPT ![t].ph = goes],
         UNCHANGED <<ffmpeg, ctl, signals, view, result>>
  PROVE  Reading'
<1> DEFINE r == [threads[t] EXCEPT !.ph = goes]
<1>1. threads[t] \in ReaderThread
  BY ThreadOf
<1>2. r \in ReaderThread /\ r.quit = threads[t].quit /\ r.ph = goes
  BY <1>1 DEF ReaderThread
<1>3. threads' = [threads EXCEPT ![t] = r]
  OBVIOUS
<1>4. IsSeq(signals')
  BY DEF Reading
<1>5. r.ph # "ended" /\ r.ph # "told"
  BY <1>2
<1> HIDE DEF r
<1> QED
  BY <1>2, <1>3, <1>4, <1>5, ThreadMoves

LEMMA ThreadEnds ==
  ASSUME Reading, NEW t \in DOMAIN threads, EndThread(t)
  PROVE  Reading'
<1> DEFINE r == [threads[t] EXCEPT !.ph = "ended"]
<1>1. threads[t] \in ReaderThread
  BY ThreadOf
<1>2. r \in ReaderThread
  BY <1>1 DEF ReaderThread
<1>3. threads' = [threads EXCEPT ![t] = r]
  BY DEF EndThread
<1>4. IsSeq(signals')
  BY DEF Reading, EndThread
<1>5. t # ctl
  <2>1. threads[t].quit
    BY DEF EndThread
  <2>2. t # 0
    BY LenProperties DEF Reading
  <2> QED
    BY <2>1, <2>2 DEF Reading, Attached
<1>6. UNCHANGED <<ffmpeg, ctl, view, result>> /\ signals' = signals
  BY DEF EndThread
<1> HIDE DEF r
<1> QED
  BY <1>2, <1>3, <1>4, <1>5, <1>6, ThreadMoves

\* The controller lets go of its thread, whatever becomes of it
LEMMA Released ==
  ASSUME Reading, NEW cancelled \in BOOLEAN, FinishThread(cancelled)
  PROVE  threads' \in Seq(ReaderThread) /\ ctl' \in 0 .. Len(threads') /\ ctl' = 0
<1>1. threads \in Seq(ReaderThread) /\ Len(threads) \in Nat
  BY LenProperties DEF Reading
<1>2. threads' \in Seq(ReaderThread)
  <2>1. CASE ctl = 0
    BY <2>1, <1>1 DEF FinishThread
  <2>2. CASE ctl # 0
    <3> DEFINE r == [threads[ctl] EXCEPT !.quit = TRUE, !.cancel = @ \/ cancelled,
                                         !.ph = IF @ = "told" THEN "ended" ELSE @]
    <3>1. ctl \in 1 .. Len(threads)
      BY <2>2, <1>1 DEF Reading
    <3>2. threads[ctl] \in ReaderThread
      BY <3>1, <1>1, ElementOfSeq
    <3>3. r \in ReaderThread
      BY <3>2 DEF ReaderThread
    <3>4. threads' = [threads EXCEPT ![ctl] = r]
      BY <2>2 DEF FinishThread
    <3> HIDE DEF r
    <3> QED
      BY <1>1, <3>1, <3>3, <3>4, ExceptSeq
  <2> QED
    BY <2>1, <2>2
<1>3. ctl' = 0 /\ Len(threads') \in Nat
  BY <1>2, LenProperties DEF FinishThread
<1> QED
  BY <1>2, <1>3

LEMMA Aborted ==
  ASSUME IsChoice(result), result' = [result EXCEPT !.st = "aborted"]
  PROVE  IsChoice(result') /\ result'.st = "aborted"
<1>1. PICK st, limit, merge, videos :
        result = [st |-> st, limit |-> limit, merge |-> merge, videos |-> videos]
  BY DEF IsChoice
<1>2. result' = [st |-> "aborted", limit |-> limit, merge |-> merge, videos |-> videos]
  BY <1>1
<1> QED
  BY <1>2 DEF IsChoice

LEMMA SignalHandled ==
  ASSUME Reading, HandleSignal
  PROVE  Reading'
<1> DEFINE s == Head(signals)
<1>1. threads' \in Seq(ReaderThread) /\ ctl' \in 0 .. Len(threads') /\ ctl' = 0
  BY Released DEF HandleSignal
<1>2. IsSeq(signals')
  BY TailOfSeq DEF Reading, HandleSignal
<1>3. ffmpeg' \in BOOLEAN
  BY DEF Reading, HandleSignal
<1>4. IsChoice(result) 
  BY DEF Reading
<1>5. IsChoice(result') /\ ~(result'.st = "open" /\ view' = "scanning")
  <2>1. CASE s.what = "ready"
    <3>1. view' = Presents(s.info) /\ result' = result
      BY <2>1 DEF HandleSignal
    <3>2. view' # "scanning"
      BY <3>1 DEF Presents
    <3> QED
      BY <3>1, <3>2, <1>4
  <2>2. CASE s.what = "failed"
    BY <2>2, <1>4 DEF HandleSignal
  <2>3. CASE s.what # "ready" /\ s.what # "failed"
    <3>1. result' = IF result.st = "open" THEN [result EXCEPT !.st = "aborted"] ELSE result
      BY <2>3 DEF HandleSignal
    <3> QED
      BY <3>1, <1>4, Aborted
  <2> QED
    BY <2>1, <2>2, <2>3
<1> QED
  BY <1>1, <1>2, <1>3, <1>5 DEF Reading, Attached, ScanHasReader

\* A scan is begun, with a thread of its own unless one runs
LEMMA Extracted ==
  ASSUME Reading, NEW merges \in BOOLEAN, Extract(merges),
         ffmpeg' \in BOOLEAN, UNCHANGED <<signals, result>>
  PROVE  Reading'
<1>1. threads \in Seq(ReaderThread) /\ Len(threads) \in Nat
  BY LenProperties DEF Reading
<1>2. IsChoice(result') /\ IsSeq(signals')
  BY DEF Reading
<1>3. CASE IsRunning
  <2>1. threads' = threads /\ ctl' = ctl /\ ctl # 0
    BY <1>3 DEF Extract, IsRunning
  <2>2. ctl \in 1 .. Len(threads)
    BY <1>1, <2>1 DEF Reading
  <2>3. threads[ctl] \in ReaderThread
    BY <1>1, <2>2, ElementOfSeq
  <2>4. Attached
    BY DEF Reading
  <2>5. threads[ctl].ph \in {"first", "again", "listing"} \/ signals # <<>>
    BY <2>1, <2>3, <2>4 DEF Attached, ReaderThread
  <2>6. Attached' /\ ScanHasReader'
    BY <2>1, <2>4, <2>5 DEF Attached, ScanHasReader
  <2> QED
    BY <2>1, <2>6, <1>2 DEF Reading
<1>4. CASE ~IsRunning
  <2> DEFINE r == Reader(merges)
  <2>1. r \in ReaderThread /\ r.ph = "first" /\ ~r.quit
    BY DEF Reader, ReaderThread
  <2>2. threads' = Append(threads, r) /\ ctl' = Len(threads')
    BY <1>4 DEF Extract
  <2> HIDE DEF r
  <2>3. /\ threads' \in Seq(ReaderThread) /\ Len(threads') = Len(threads) + 1
        /\ threads'[Len(threads) + 1] = r
    BY <1>1, <2>1, <2>2, AppendProperties
  <2>4. ctl' # 0 /\ ctl' \in 0 .. Len(threads') /\ threads'[ctl'] = r
    BY <1>1, <2>2, <2>3
  <2>5. Attached' /\ ScanHasReader'
    BY <2>1, <2>4 DEF Attached, ScanHasReader
  <2> QED
    BY <2>3, <2>4, <2>5, <1>2 DEF Reading
<1> QED
  BY <1>3, <1>4

LEMMA ReadingStep == Reading /\ [QualityNext]_qdVars => Reading'
<1> SUFFICES ASSUME Reading, [QualityNext]_qdVars PROVE Reading'
  OBVIOUS
<1>1. ASSUME NEW t \in DOMAIN threads, NEW info \in Info, ReadVideo(t, info) \/ ListVideos(t, info)
      PROVE  Reading'
  BY <1>1, ThreadTells DEF ReadVideo, ListVideos
<1>2. ASSUME NEW t \in DOMAIN threads, Fail(t) \/ StopListing(t)
      PROVE  Reading'
  BY <1>2, ThreadTells DEF Fail, StopListing
<1>3. ASSUME NEW t \in DOMAIN threads, TryAgain(t)
      PROVE  Reading'
  BY <1>3, ThreadReads DEF TryAgain
<1>4. ASSUME NEW t \in DOMAIN threads, FetchPlaylist(t)
      PROVE  Reading'
  BY <1>4, ThreadReads DEF FetchPlaylist
<1>5. ASSUME NEW t \in DOMAIN threads, EndThread(t)
      PROVE  Reading'
  BY <1>5, ThreadEnds
<1>6. CASE HandleSignal
  BY <1>6, SignalHandled
<1>7. CASE Retry
  <2>1. ffmpeg \in BOOLEAN /\ Extract(ffmpeg) /\ ffmpeg' = ffmpeg
        /\ UNCHANGED <<signals, result>>
    BY <1>7 DEF Retry, Reading
  <2> QED
    BY <2>1, Extracted
<1>8. CASE LocateFfmpeg
  <2>1. Extract(TRUE) /\ ffmpeg' = TRUE /\ UNCHANGED <<signals, result>>
    BY <1>8 DEF LocateFfmpeg
  <2> QED
    BY <2>1, Extracted
<1>9. ASSUME UNCHANGED <<ffmpeg, threads, ctl, signals, view>>, IsChoice(result'),
             view # "scanning" \/ result'.st # "open" \/ result' = result
      PROVE  Reading'
  BY <1>9 DEF Reading, Attached, ScanHasReader
<1>10. ASSUME NEW h, Accept(h) PROVE Reading'
  <2>1. PICK st, limit, merge, videos :
          result = [st |-> st, limit |-> limit, merge |-> merge, videos |-> videos]
    BY DEF Reading, IsChoice
  <2> DEFINE o == Select(probe.info, h, ffmpeg)
  <2>2. result' = [result EXCEPT !.st = "taken", !.limit = o.limit, !.merge = o.merge]
    BY <1>10 DEF Accept
  <2> HIDE DEF o
  <2>3. result' = [st |-> "taken", limit |-> o.limit, merge |-> o.merge, videos |-> videos]
    BY <2>1, <2>2
  <2>4. IsChoice(result')
    BY <2>3 DEF IsChoice
  <2>5. view # "scanning" /\ UNCHANGED <<ffmpeg, threads, ctl, signals, view>>
    BY <1>10 DEF Accept
  <2> QED
    BY <2>4, <2>5, <1>9
<1>11. ASSUME NEW vs, AcceptVideos(vs) PROVE Reading'
  <2>1. PICK st, limit, merge, videos :
          result = [st |-> st, limit |-> limit, merge |-> merge, videos |-> videos]
    BY DEF Reading, IsChoice
  <2>2. result' = [st |-> "taken", limit |-> limit, merge |-> merge, videos |-> vs]
    BY <1>11, <2>1 DEF AcceptVideos
  <2>3. IsChoice(result')
    BY <2>2 DEF IsChoice
  <2>4. view # "scanning" /\ UNCHANGED <<ffmpeg, threads, ctl, signals, view>>
    BY <1>11 DEF AcceptVideos
  <2> QED
    BY <2>3, <2>4, <1>9
<1>12. CASE Reject
  <2>1. IsChoice(result') /\ result'.st = "aborted"
    BY <1>12, Aborted DEF Reject, Reading
  <2>2. CASE ~IsRunning
    <3>1. UNCHANGED <<ffmpeg, threads, ctl, signals, view>>
      BY <1>12, <2>2 DEF Reject
    <3> QED
      BY <2>1, <3>1, <1>9
  <2>3. CASE IsRunning
    <3> DEFINE r == [threads[ctl] EXCEPT !.cancel = TRUE]
    <3>1. /\ threads' = [threads EXCEPT ![ctl] = r] /\ ctl # 0
          /\ UNCHANGED <<ffmpeg, ctl, signals, view>>
      BY <1>12, <2>3 DEF Reject, IsRunning
    <3>2. /\ threads \in Seq(ReaderThread) /\ Len(threads) \in Nat /\ ctl \in 0 .. Len(threads)
          /\ Attached
      BY LenProperties DEF Reading
    <3>3. ctl \in 1 .. Len(threads)
      BY <3>1, <3>2
    <3>4. threads[ctl] \in ReaderThread
      BY <3>2, <3>3, ElementOfSeq
    <3>5. r \in ReaderThread /\ r.quit = threads[ctl].quit /\ r.ph = threads[ctl].ph
      BY <3>4 DEF ReaderThread
    <3> HIDE DEF r
    <3>6. threads' \in Seq(ReaderThread) /\ Len(threads') = Len(threads) /\ threads'[ctl] = r
      BY <3>1, <3>2, <3>3, <3>5, ExceptSeq
    <3>7. Attached' /\ ScanHasReader'
      BY <3>1, <3>2, <3>5, <3>6, <2>1 DEF Attached, ScanHasReader
    <3> QED
      BY <3>1, <3>2, <3>6, <3>7, <2>1 DEF Reading
  <2> QED
    BY <2>2, <2>3
<1>13. CASE Close
  <2>1. IsChoice(result') /\ result'.st = "aborted"
    BY <1>13, Aborted DEF Close, Reading
  <2>2. CASE kind = "quality" /\ IsRunning
    <3>1. UNCHANGED <<ffmpeg, threads, ctl, signals, view>>
      BY <1>13, <2>2 DEF Close
    <3> QED
      BY <2>1, <3>1, <1>9
  <2>3. CASE ~(kind = "quality" /\ IsRunning)
    <3>1. threads' \in Seq(ReaderThread) /\ ctl' \in 0 .. Len(threads') /\ ctl' = 0
      BY <1>13, <2>3, Released DEF Close
    <3>2. UNCHANGED <<ffmpeg, signals>>
      BY <1>13 DEF Close
    <3> QED
      BY <2>1, <3>1, <3>2 DEF Reading, Attached, ScanHasReader
  <2> QED
    BY <2>2, <2>3
<1>14. CASE UNCHANGED qdVars
  BY <1>14 DEF qdVars, Reading, Attached, ScanHasReader
<1> QED
  BY <1>1, <1>2, <1>3, <1>4, <1>5, <1>6, <1>7, <1>8, <1>10, <1>11, <1>12, <1>13, <1>14
  DEF QualityNext

\* A dialog that says it reads has a thread that reads, or its answer is on the way:
\* a retry, which is refused while a thread runs, never meets one that is only about to
\* end (ui/dialogs/youtube_quality.py, _retry; media/youtube/controller.py, _finish_thread).
THEOREM ScanCorrect == QualitySpec => []ScanHasReader
<1>1. Reading => ScanHasReader
  BY DEF Reading
<1> QED
  BY ReadingInit, ReadingStep, <1>1, PTL DEF QualitySpec

-----------------------------------------------------------------------------
(* The page of the speed test                                              *)

LEMMA ExceptOfSeq ==
  ASSUME NEW s, IsSeq(s), NEW i \in DOMAIN s, NEW e
  PROVE  IsSeq([s EXCEPT ![i] = e]) /\ Len([s EXCEPT ![i] = e]) = Len(s)
<1>1. PICK S : s \in Seq(S)
  BY DEF IsSeq
<1> DEFINE T == S \cup {e}
<1>2. s \in Seq(T) /\ e \in T
  BY <1>1, SeqMonotonic
<1> HIDE DEF T
<1>3. i \in 1 .. Len(s)
  BY DomainOfSeq
<1> QED
  BY <1>2, <1>3, ExceptSeq DEF IsSeq

LEMMA PostedLast ==
  ASSUME NEW s, IsSeq(s), NEW e
  PROVE  /\ IsSeq(s \o <<e>>) /\ Len(s \o <<e>>) = Len(s) + 1
         /\ (s \o <<e>>)[Len(s) + 1] = e
         /\ \A k \in 1 .. Len(s) : (s \o <<e>>)[k] = s[k]
<1>1. PICK S : s \in Seq(S)
  BY DEF IsSeq
<1> DEFINE T == S \cup {e}
<1>2. s \in Seq(T) /\ e \in T
  BY <1>1, SeqMonotonic
<1> HIDE DEF T
<1>3. Append(s, e) = s \o <<e>>
  BY <1>2, AppendIsConcat
<1>4. /\ IsSeq(Append(s, e)) /\ Len(Append(s, e)) = Len(s) + 1
      /\ Append(s, e)[Len(s) + 1] = e
      /\ \A k \in 1 .. Len(s) : Append(s, e)[k] = s[k]
  BY AppendOfSeq
<1> QED
  BY ONLY <1>3, <1>4, Zenon

LEMMA RestOfSeq ==
  ASSUME NEW S, NEW s \in Seq(S), NEW i \in 1 .. Len(s)
  PROVE  /\ SubSeq(s, 1, i - 1) \o SubSeq(s, i + 1, Len(s)) \in Seq(S)
         /\ Len(SubSeq(s, 1, i - 1) \o SubSeq(s, i + 1, Len(s))) = Len(s) - 1
<1>1. Len(s) \in Nat
  BY LenProperties
<1>2. \A j \in 1 .. i - 1 : s[j] \in S
  BY <1>1, ElementOfSeq
<1>3. \A j \in i + 1 .. Len(s) : s[j] \in S
  BY <1>1, ElementOfSeq
<1>4. SubSeq(s, 1, i - 1) \in Seq(S) /\ Len(SubSeq(s, 1, i - 1)) = i - 1
  <2>1. 1 \in Int /\ i - 1 \in Int /\ (1 <= i - 1 => (i - 1) - 1 + 1 = i - 1)
        /\ (~(1 <= i - 1) => i - 1 = 0)
    BY <1>1
  <2> QED
    BY <2>1, <1>2, SubSeqProperties
<1>5. SubSeq(s, i + 1, Len(s)) \in Seq(S) /\ Len(SubSeq(s, i + 1, Len(s))) = Len(s) - i
  <2>1. /\ i + 1 \in Int /\ Len(s) \in Int
        /\ (i + 1 <= Len(s) => Len(s) - (i + 1) + 1 = Len(s) - i)
        /\ (~(i + 1 <= Len(s)) => Len(s) - i = 0)
    BY <1>1
  <2> QED
    BY <2>1, <1>3, SubSeqProperties
<1>6. Len(SubSeq(s, 1, i - 1)) + Len(SubSeq(s, i + 1, Len(s))) = Len(s) - 1
  <2>1. i \in Int /\ (i - 1) + (Len(s) - i) = Len(s) - 1
    BY <1>1
  <2> QED
    BY ONLY <2>1, <1>4, <1>5, Zenon
<1> QED
  BY <1>4, <1>5, <1>6, ConcatProperties

EndWaits == \E n \in DOMAIN notices : notices[n].what = "end"

Testing == IsSeq(tests) /\ IsSeq(notices) /\ DisabledOnlyWhileTesting

LEMMA TestingInit == SpeedInit => Testing
  BY EmptyIsSeq DEF SpeedInit, OpenPage, Testing, DisabledOnlyWhileTesting

\* What is posted keeps what waits, and an end that is posted waits
LEMMA EndKept ==
  ASSUME IsSeq(notices), NEW e, notices' = notices \o <<e>>
  PROVE  IsSeq(notices') /\ (EndWaits \/ e.what = "end" => EndWaits')
<1>1. Len(notices) \in Nat /\ DOMAIN notices = 1 .. Len(notices)
  BY DomainOfSeq
<1>2. /\ IsSeq(notices') /\ Len(notices') = Len(notices) + 1
      /\ notices'[Len(notices) + 1] = e
      /\ \A k \in 1 .. Len(notices) : notices'[k] = notices[k]
  BY PostedLast
<1>3. DOMAIN notices' = 1 .. Len(notices) + 1
  BY <1>2, DomainOfSeq
<1>4. CASE e.what = "end"
  <2>1. Len(notices) + 1 \in DOMAIN notices'
    BY <1>1, <1>3
  <2> QED
    BY <2>1, <1>2, <1>4 DEF EndWaits
<1>5. CASE EndWaits
  <2>1. PICK n \in DOMAIN notices : notices[n].what = "end"
    BY <1>5 DEF EndWaits
  <2>2. n \in DOMAIN notices' /\ notices'[n].what = "end"
    BY <2>1, <1>1, <1>2, <1>3
  <2> QED
    BY <2>2, <1>2 DEF EndWaits
<1> QED
  BY <1>2, <1>4, <1>5

LEMMA Measured ==
  ASSUME Testing, NEW t \in DOMAIN tests, NEW s, Measure(t, s)
  PROVE  Testing'
<1>1. IsSeq(tests') /\ Len(tests') = Len(tests)
  <2>1. CASE s = 0
    BY <2>1, ExceptOfSeq DEF Measure, Testing
  <2>2. CASE s # 0
    <3> DEFINE up == tests[t].ph = "upload"
               e == [ph |-> IF up THEN "record" ELSE "upload",
                     res |-> IF up THEN [tests[t].res EXCEPT !.up = s]
                             ELSE [tests[t].res EXCEPT !.down = s]]
    <3>1. tests' = [tests EXCEPT ![t] = e]
      BY <2>2 DEF Measure
    <3> HIDE DEF e
    <3> QED
      BY <3>1, ExceptOfSeq DEF Testing
  <2> QED
    BY <2>1, <2>2
<1>2. tests' # <<>>
  <2>1. DOMAIN tests = 1 .. Len(tests) /\ Len(tests) \in Nat
    BY DomainOfSeq DEF Testing
  <2>2. Len(tests) # 0
    BY <2>1
  <2> QED
    BY <1>1, <2>2, DomainOfSeq
<1>3. IsSeq(notices')
  <2>1. CASE s = 0
    BY <2>1 DEF Measure, Testing
  <2>2. CASE s # 0
    <3>1. PICK e : notices' = notices \o <<e>>
      BY <2>2 DEF Measure, Post
    <3> QED
      BY <3>1, EndKept DEF Testing
  <2> QED
    BY <2>1, <2>2
<1> QED
  BY <1>1, <1>2, <1>3 DEF Testing, DisabledOnlyWhileTesting

LEMMA Recording ==
  ASSUME Testing, NEW t \in DOMAIN tests, NEW written \in BOOLEAN, Record(t, written)
  PROVE  Testing'
<1>1. IsSeq(tests')
  <2>1. PICK S : tests \in Seq(S)
    BY DEF Testing, IsSeq
  <2>2. t \in 1 .. Len(tests)
    BY <2>1, LenProperties
  <2>3. tests' = SubSeq(tests, 1, t - 1) \o SubSeq(tests, t + 1, Len(tests))
    BY DEF Record, Without
  <2> QED
    BY <2>1, <2>2, <2>3, RestOfSeq DEF IsSeq
<1>2. PICK e : e.what = "end" /\ notices' = notices \o <<e>>
  <2>1. PICK res : notices' = notices \o <<Ended(res)>>
    BY DEF Record, Post, Raised
  <2>2. Ended(res).what = "end"
    BY DEF Ended
  <2> QED
    BY <2>1, <2>2
<1>3. IsSeq(notices') /\ EndWaits'
  BY <1>2, EndKept DEF Testing
<1> QED
  BY <1>1, <1>3 DEF Testing, DisabledOnlyWhileTesting, EndWaits

LEMMA Heard ==
  ASSUME Testing, Hear
  PROVE  Testing'
<1> DEFINE q == notices
           t == Tail(q)
<1>1. q # <<>> /\ notices' = t /\ tests' = tests
  BY DEF Hear
<1>2. Len(q) \in Nat /\ DOMAIN q = 1 .. Len(q)
  BY DomainOfSeq DEF Testing
<1>3. /\ IsSeq(t) /\ Len(t) = Len(q) - 1 /\ Head(q) = q[1]
      /\ \A k \in 1 .. Len(t) : t[k] = q[k + 1]
  BY <1>1, TailOfSeq DEF Testing
<1>4. DOMAIN t = 1 .. Len(t)
  BY <1>3, DomainOfSeq
<1>5. CASE q[1].what = "end"
  <2>1. button' = TRUE
    BY <1>3, <1>5 DEF Hear
  <2> QED
    BY <2>1, <1>1, <1>3 DEF Testing, DisabledOnlyWhileTesting
<1>6. CASE q[1].what # "end"
  <2>1. button' = button
    BY <1>3, <1>6 DEF Hear
  <2>2. EndWaits => \E n \in DOMAIN t : t[n].what = "end"
    <3>1. SUFFICES ASSUME NEW n \in 1 .. Len(q), q[n].what = "end"
                   PROVE  \E m \in DOMAIN t : t[m].what = "end"
      BY <1>2 DEF EndWaits
    <3> HIDE DEF q, t
    <3>2. n # 1
      BY <3>1, <1>6
    <3>3. n - 1 \in 1 .. Len(t) /\ (n - 1) + 1 = n
      BY <3>2, <1>2, <1>3
    <3> QED
      BY <3>1, <3>3, <1>3, <1>4
  <2>3. (\E n \in DOMAIN t : t[n].what = "end") => EndWaits'
    BY <1>1 DEF EndWaits
  <2> HIDE DEF t
  <2> QED
    BY <2>1, <2>2, <2>3, <1>1, <1>3 DEF Testing, DisabledOnlyWhileTesting, EndWaits
<1> QED
  BY <1>5, <1>6

LEMMA TestingStep == Testing /\ [SpeedNext]_speedVars => Testing'
<1> SUFFICES ASSUME Testing, [SpeedNext]_speedVars PROVE Testing'
  OBVIOUS
<1>1. ASSUME UNCHANGED <<tests, notices>>, button' = button \/ button' = TRUE
      PROVE  Testing'
  BY <1>1 DEF Testing, DisabledOnlyWhileTesting
<1>2. CASE SaveSetting \/ StartAuto \/ WakeAuto \/ Revisit
  BY <1>2, <1>1 DEF SaveSetting, StartAuto, WakeAuto, Revisit
<1>3. ASSUME NEW res, NEW written \in BOOLEAN, AutoEnds(res, written)
      PROVE  Testing'
  BY <1>3, <1>1 DEF AutoEnds
<1>4. ASSUME NEW t \in DOMAIN tests, NEW s, Measure(t, s)
      PROVE  Testing'
  BY <1>4, Measured
<1>5. ASSUME NEW t \in DOMAIN tests, NEW written \in BOOLEAN, Record(t, written)
      PROVE  Testing'
  BY <1>5, Recording
<1>6. ASSUME NEW upload, RunTest(upload)
      PROVE  Testing'
  <2>1. PICK e : tests' = Append(tests, e)
    BY <1>6 DEF RunTest
  <2>2. Len(tests) \in Nat
    BY DomainOfSeq DEF Testing
  <2>3. IsSeq(tests') /\ Len(tests') = Len(tests) + 1
    BY <2>1, AppendOfSeq DEF Testing
  <2>4. tests' # <<>>
    BY <2>2, <2>3, DomainOfSeq
  <2>5. notices' = notices
    BY <1>6 DEF RunTest
  <2> QED
    BY <2>3, <2>4, <2>5 DEF Testing, DisabledOnlyWhileTesting
<1>7. CASE Hear
  BY <1>7, Heard
<1>8. CASE UNCHANGED speedVars
  BY <1>8, <1>1 DEF speedVars
<1> QED
  BY <1>2, <1>3, <1>4, <1>5, <1>6, <1>7, <1>8 DEF SpeedNext

\* While the buttons of the page are disabled a test runs, or an end is on its way:
\* neither a failed measurement nor a table that cannot be written, nor the end of an
\* automatic test, leaves the page unable to test again (ui/pages/speedtest.py, _run_sync).
THEOREM ButtonCorrect == SpeedSpec => []DisabledOnlyWhileTesting
<1>1. Testing => DisabledOnlyWhileTesting
  BY DEF Testing
<1> QED
  BY TestingInit, TestingStep, <1>1, PTL DEF SpeedSpec

-----------------------------------------------------------------------------
(* The processes                                                           *)

Fates == Alive \cup {"none", "turned", "done"}
Passed == Windowed \cup {"done"}
Delivery == [st : {"none", "argv", "sent", "timed", "opened"}, at : Launches \cup {0}]

Listening == server # 0 => ph[server] \in Passed
Delivered ==
  \A p \in Launches : where[p].st \in {"sent", "timed"} =>
    where[p].at \in Launches /\ ph[where[p].at] \in Passed

ProcessesTyped ==
    /\ ph \in [Launches -> Fates] /\ where \in [Launches -> Delivery]
    /\ server \in Launches \cup {0}
Processes == ProcessesTyped /\ Listening /\ Delivered

USE DEF Alive, Windowed, Looping, Gated
LEMMA PhasesDiffer ==
  /\ Passed = {"splash", "open", "closing", "stopped", "done"}
  /\ \A f \in Passed : f \in Fates
  BY DEF Passed, Fates

LEMMA ProcessesInit == AppInit => Processes
<1> SUFFICES ASSUME AppInit PROVE Processes
  OBVIOUS
<1>1. ph \in [Launches -> Fates] /\ server = 0
  BY DEF AppInit, Fates
<1>2. where \in [Launches -> Delivery] /\ \A p \in Launches : where[p].st = "none"
  BY DEF AppInit, Delivery
<1> QED
  BY <1>1, <1>2 DEF Processes, ProcessesTyped, Listening, Delivered

\* Process p moves on; a process that has its window, or had, stays one of those
LEMMA Passes ==
  ASSUME Processes, NEW p \in Launches, NEW to \in Fates, ph' = [ph EXCEPT ![p] = to],
         ph[p] \in Passed => to \in Passed
  PROVE  /\ ph' \in [Launches -> Fates] /\ ph'[p] = to
         /\ \A q \in Launches : ph[q] \in Passed => ph'[q] \in Passed
  BY DEF Processes, ProcessesTyped

\* Nothing is delivered by a step in which p just moves on
LEMMA OnlyMoves ==
  ASSUME Processes, NEW p \in Launches, NEW to \in Fates, ph' = [ph EXCEPT ![p] = to],
         ph[p] \in Passed => to \in Passed,
         server' = server \/ (server' = p /\ to \in Passed), where' = where
  PROVE  Processes'
<1>1. /\ ph' \in [Launches -> Fates] /\ ph'[p] = to
      /\ \A q \in Launches : ph[q] \in Passed => ph'[q] \in Passed
  BY Passes
<1>2. server' \in Launches \cup {0} /\ Listening'
  BY <1>1, PhasesDiffer DEF Processes, ProcessesTyped, Listening
<1>3. Delivered'
  BY <1>1 DEF Processes, Delivered
<1> QED
  BY <1>1, <1>2, <1>3 DEF Processes, ProcessesTyped

\* What process q was started with gets further
LEMMA OneDelivery ==
  ASSUME Processes, NEW q \in Launches, NEW w \in Delivery,
         where' = [where EXCEPT ![q] = w], server' = server,
         ph' \in [Launches -> Fates],
         \A p \in Launches : ph[p] \in Passed => ph'[p] \in Passed,
         w.st \in {"sent", "timed"} => w.at \in Launches /\ ph'[w.at] \in Passed
  PROVE  Processes'
<1>1. where' \in [Launches -> Delivery]
  BY DEF Processes, ProcessesTyped
<1>2. \A p \in Launches : where'[p] = IF p = q THEN w ELSE where[p]
  BY DEF Processes, ProcessesTyped
<1>3. server \in Launches \cup {0} /\ Listening'
  BY DEF Processes, ProcessesTyped, Listening
<1>4. Delivered'
  <2>1. SUFFICES ASSUME NEW p \in Launches, where'[p].st \in {"sent", "timed"}
                 PROVE  where'[p].at \in Launches /\ ph'[where'[p].at] \in Passed
    BY DEF Delivered
  <2>2. CASE p = q
    BY <2>1, <2>2, <1>2
  <2>3. CASE p # q
    BY <2>1, <2>3, <1>2 DEF Processes, Delivered
  <2> QED
    BY <2>2, <2>3
<1> QED
  BY <1>1, <1>3, <1>4 DEF Processes, ProcessesTyped

LEMMA Launched ==
  ASSUME Processes, NEW p \in Launches, NEW given \in BOOLEAN, Launch(p, given)
  PROVE  Processes'
<1> DEFINE w == [st |-> IF given THEN "argv" ELSE "none", at |-> 0]
<1>1. w \in Delivery /\ w.st \notin {"sent", "timed"}
  BY DEF Delivery
<1>2. where' = [where EXCEPT ![p] = w] /\ server' = server
  BY DEF Launch
<1>3. ph' = [ph EXCEPT ![p] = "building"] /\ ph[p] = "none"
  BY DEF Launch, Moves
<1>4. ph[p] \notin Passed /\ "building" \in Fates
  BY <1>3 DEF Passed, Fates
<1>5. ph' \in [Launches -> Fates] /\ \A q \in Launches : ph[q] \in Passed => ph'[q] \in Passed
  BY <1>3, <1>4, Passes
<1> HIDE DEF w
<1> QED
  BY <1>1, <1>2, <1>5, OneDelivery

LEMMA Admitted ==
  ASSUME Processes, NEW p \in Launches,
         TryLock(p) \/ Gate(p) \/ Submit(p) \/ QuitGate(p) \/ PassGate(p)
         \/ \E how \in {"valid", "network", "refused"} : Answered(p, how)
  PROVE  Processes'
<1>1. ph[p] \in Fates
  BY DEF Processes, ProcessesTyped
<1>2. CASE TryLock(p)
  <2>1. PICK to \in {"passed", "refused"} : ph' = [ph EXCEPT ![p] = to]
    BY <1>2 DEF TryLock, Moves
  <2>2. ph[p] \notin Passed /\ to \in Fates
    BY <1>2, <2>1 DEF TryLock, Passed, Fates
  <2>3. server' = server /\ where' = where
    BY <1>2 DEF TryLock, Listens
  <2> QED
    BY <2>1, <2>2, <2>3, OnlyMoves
<1>3. CASE Gate(p)
  <2>1. PICK to \in {"checking", "trial", "enter"} : ph' = [ph EXCEPT ![p] = to]
    BY <1>3 DEF Gate, Moves
  <2>2. ph[p] \notin Passed /\ to \in Fates
    BY <1>3, <2>1 DEF Gate, Passed, Fates
  <2>3. server' = server /\ where' = where
    BY <1>3 DEF Gate
  <2> QED
    BY <2>1, <2>2, <2>3, OnlyMoves
<1>4. CASE Submit(p)
  <2>1. PICK to \in {"trying", "checking"} : ph' = [ph EXCEPT ![p] = to]
    BY <1>4 DEF Submit, Moves
  <2>2. ph[p] \notin Passed /\ to \in Fates
    BY <1>4, <2>1 DEF Submit, Passed, Fates
  <2>3. server' = server /\ where' = where
    BY <1>4 DEF Submit
  <2> QED
    BY <2>1, <2>2, <2>3, OnlyMoves
<1>5. CASE QuitGate(p)
  <2>1. ph' = [ph EXCEPT ![p] = "turned"]
    BY <1>5 DEF QuitGate, Moves
  <2>2. ph[p] \notin Passed /\ "turned" \in Fates
    BY <1>5 DEF QuitGate, Passed, Fates
  <2>3. server' = server /\ where' = where
    BY <1>5 DEF QuitGate
  <2> QED
    BY <2>1, <2>2, <2>3, OnlyMoves
<1>6. CASE PassGate(p)
  <2>1. ph' = [ph EXCEPT ![p] = "splash"]
    BY <1>6 DEF PassGate, Moves
  <2>2. "splash" \in Fates /\ "splash" \in Passed
    BY DEF Fates, Passed
  <2>3. server' = p /\ where' = where
    BY <1>6 DEF PassGate, Listens
  <2> QED
    BY <2>1, <2>2, <2>3, OnlyMoves
<1>7. ASSUME NEW how \in {"valid", "network", "refused"}, Answered(p, how)
      PROVE  Processes'
  <2>1. PICK to \in {"trial", "accepted", "retry", "enter"} : ph' = [ph EXCEPT ![p] = to]
    <3>1. CASE ph[p] = "trying"
      BY <1>7, <3>1 DEF Answered, Moves
    <3>2. CASE ph[p] = "checking" /\ how = "valid"
      BY <1>7, <3>2 DEF Answered, Moves
    <3>3. CASE ph[p] = "checking" /\ how = "network"
      BY <1>7, <3>3 DEF Answered, Moves
    <3>4. CASE ph[p] = "checking" /\ how = "refused"
      BY <1>7, <3>4 DEF Answered, Moves
    <3> QED
      BY <1>7, <3>1, <3>2, <3>3, <3>4 DEF Answered
  <2>2. ph[p] \notin Passed /\ to \in Fates
    BY <1>7, <2>1 DEF Answered, Passed, Fates
  <2>3. server' = server /\ where' = where
    BY <1>7 DEF Answered
  <2> QED
    BY <2>1, <2>2, <2>3, OnlyMoves
<1> QED
  BY <1>2, <1>3, <1>4, <1>5, <1>6, <1>7

LEMMA Forwarded ==
  ASSUME Processes, NEW p \in Launches, Forward(p)
  PROVE  Processes'
<1>1. ph' = [ph EXCEPT ![p] = "turned"] /\ ph[p] = "refused" /\ server' = server
  BY DEF Forward, Moves
<1>2. ph[p] \notin Passed /\ "turned" \in Fates
  BY <1>1 DEF Passed, Fates
<1>3. CASE where' = where
  BY <1>1, <1>2, <1>3, OnlyMoves
<1>4. CASE /\ Reached
           /\ where' = [where EXCEPT ![p] = [st |-> "sent", at |-> server]]
  <2> DEFINE w == [st |-> "sent", at |-> server]
  <2>1. server \in Launches /\ ph[server] \in Passed
    BY <1>4 DEF Reached, Processes, ProcessesTyped, Listening
  <2>2. w \in Delivery /\ w.at = server
    BY <2>1 DEF Delivery
  <2>3. where' = [where EXCEPT ![p] = w]
    BY <1>4
  <2> HIDE DEF w
  <2>4. /\ ph' \in [Launches -> Fates]
        /\ \A q \in Launches : ph[q] \in Passed => ph'[q] \in Passed
    BY <1>1, <1>2, Passes
  <2>5. w.at \in Launches /\ ph'[w.at] \in Passed
    BY <2>1, <2>2, <2>4
  <2> QED
    BY <1>1, <2>2, <2>3, <2>4, <2>5, OneDelivery
<1> QED
  BY <1>3, <1>4 DEF Forward

LEMMA WindowShown ==
  ASSUME Processes, NEW p \in Launches, ShowWindow(p)
  PROVE  Processes'
<1>1. ph' = [ph EXCEPT ![p] = "open"] /\ server' = server
  BY DEF ShowWindow, Moves
<1>2. "open" \in Passed /\ "open" \in Fates
  BY DEF Passed, Fates
<1>3. CASE where' = where
  BY <1>1, <1>2, <1>3, OnlyMoves
<1>4. CASE where' = [where EXCEPT ![p] = [st |-> "timed", at |-> p]]
  <2> DEFINE w == [st |-> "timed", at |-> p]
  <2>1. w \in Delivery /\ w.at = p
    BY DEF Delivery
  <2>2. where' = [where EXCEPT ![p] = w]
    BY <1>4
  <2> HIDE DEF w
  <2>3. /\ ph' \in [Launches -> Fates] /\ ph'[p] = "open"
        /\ \A q \in Launches : ph[q] \in Passed => ph'[q] \in Passed
    BY <1>1, <1>2, Passes
  <2> QED
    BY <1>1, <1>2, <2>1, <2>2, <2>3, OneDelivery
<1> QED
  BY <1>3, <1>4 DEF ShowWindow

LEMMA Taken ==
  ASSUME Processes, NEW p \in Launches, TakeConnections(p)
  PROVE  Processes'
<1>1. /\ ph[p] \in Passed /\ ph' = ph /\ server' = server
      /\ where' = [q \in Launches |-> IF where[q] = [st |-> "sent", at |-> p]
                                      THEN [st |-> "timed", at |-> p] ELSE where[q]]
  BY DEF TakeConnections, Passed
<1>2. [st |-> "timed", at |-> p] \in Delivery
  BY DEF Delivery
<1>3. where' \in [Launches -> Delivery]
  BY <1>1, <1>2 DEF Processes, ProcessesTyped
<1>4. Delivered'
  <2>1. SUFFICES ASSUME NEW q \in Launches, where'[q].st \in {"sent", "timed"}
                 PROVE  where'[q].at \in Launches /\ ph[where'[q].at] \in Passed
    BY <1>1 DEF Delivered
  <2>2. CASE where[q] = [st |-> "sent", at |-> p]
    BY <2>2, <1>1
  <2>3. CASE where[q] # [st |-> "sent", at |-> p]
    BY <2>1, <2>3, <1>1 DEF Processes, Delivered
  <2> QED
    BY <2>2, <2>3
<1> QED
  BY <1>1, <1>3, <1>4 DEF Processes, ProcessesTyped, Listening

LEMMA Opened ==
  ASSUME Processes, NEW p \in Launches, NEW q \in Launches, OpenPayload(p, q)
  PROVE  Processes'
<1> DEFINE w == [where[q] EXCEPT !.st = "opened"]
<1>1. where' = [where EXCEPT ![q] = w] /\ ph' = ph /\ server' = server
  BY DEF OpenPayload
<1>2. w \in Delivery /\ w.st = "opened"
  <2>1. where[q] \in Delivery
    BY DEF Processes, ProcessesTyped
  <2> QED
    BY <2>1 DEF Delivery
<1>3. ph' \in [Launches -> Fates]
  BY <1>1 DEF Processes, ProcessesTyped
<1> HIDE DEF w
<1> QED
  BY <1>1, <1>2, <1>3, OneDelivery

LEMMA GoesDown ==
  ASSUME Processes, NEW p \in Launches,
         SeeClosed(p) \/ StopPart(p) \/ LoopEnds(p) \/ Exit(p) \/ Kill(p)
  PROVE  Processes'
<1>1. ph[p] \in Fates
  BY DEF Processes, ProcessesTyped
<1>2. server' = server /\ where' = where
  BY DEF SeeClosed, StopPart, LoopEnds, Exit, Kill
<1>3. CASE ph' = ph
  BY <1>2, <1>3 DEF Processes, ProcessesTyped, Listening, Delivered
<1>4. ASSUME NEW to \in {"closing", "stopped", "done"}, ph' = [ph EXCEPT ![p] = to]
      PROVE  Processes'
  <2>1. to \in Passed /\ to \in Fates
    BY <1>4 DEF Passed, Fates
  <2> QED
    BY <1>2, <1>4, <2>1, OnlyMoves
<1>5. CASE Kill(p) /\ ph[p] \notin Windowed
  <2>1. ph' = [ph EXCEPT ![p] = "turned"] /\ ph[p] \in Alive
    BY <1>5 DEF Kill, Moves
  <2>2. ph[p] \notin Passed /\ "turned" \in Fates
    BY <1>5, <2>1 DEF Passed, Fates
  <2> QED
    BY <1>2, <2>1, <2>2, OnlyMoves
<1>6. CASE Kill(p) /\ ph[p] \in Windowed
  <2>1. ph' = [ph EXCEPT ![p] = "done"]
    BY <1>6 DEF Kill, Moves
  <2> QED
    BY <2>1, <1>4
<1> QED
  BY <1>3, <1>4, <1>5, <1>6 DEF SeeClosed, StopPart, LoopEnds, Exit, Moves

LEMMA ProcessesStep == Processes /\ [AppNext]_appVars => Processes'
<1> SUFFICES ASSUME Processes, [AppNext]_appVars PROVE Processes'
  OBVIOUS
<1>1. ASSUME UNCHANGED <<ph, server, where>> PROVE Processes'
  BY <1>1 DEF Processes, ProcessesTyped, Listening, Delivered
<1>2. CASE TrialEnds
  BY <1>2, <1>1 DEF TrialEnds
<1>3. ASSUME NEW p \in Launches, OpenFromTray(p) \/ CloseWindow(p) \/ Unlock(p)
      PROVE  Processes'
  BY <1>3, <1>1 DEF OpenFromTray, CloseWindow, Unlock
<1>4. CASE UNCHANGED appVars
  BY <1>4, <1>1 DEF appVars
<1> QED
  BY <1>2, <1>3, <1>4, Launched, Admitted, Forwarded, WindowShown, Taken, Opened, GoesDown
  DEF AppNext, AppStep

\* What a second process hands over and reports as delivered goes to a process that got
\* as far as its window: only such a one has the shared name, and it keeps it until
\* another is as far (app/main.py, _forward_to_running_instance and _start_ipc_server).
THEOREM DeliveryCorrect == AppSpec => []DeliveredToWindow
<1>1. Processes => DeliveredToWindow
  BY DEF Processes, Delivered, DeliveredToWindow, Passed
<1> QED
  BY ProcessesInit, ProcessesStep, <1>1, PTL DEF AppSpec

-----------------------------------------------------------------------------
(* Updates                                                                 *)

Over == {"turned", "done"}
Batch == [by : Launches, st : {"waiting", "stopping", "swapping", "done", "failed"},
          staged : Version, tries : Nat]

BatchesTyped ==
    /\ ph \in [Launches -> Fates]
    /\ offered \in Version /\ zip \in Content
    /\ batches \in Seq(Batch)
\* The process that launched a batch was started, and is over if the batch went on
Waited ==
    \A b \in DOMAIN batches :
      /\ ph[batches[b].by] # "none"
      /\ batches[b].st # "waiting" => ph[batches[b].by] \in Over
Installing == BatchesTyped /\ Waited

LEMMA BatchesAre ==
  ASSUME BatchesTyped
  PROVE  /\ Len(batches) \in Nat /\ DOMAIN batches = 1 .. Len(batches)
         /\ \A b \in DOMAIN batches : batches[b] \in Batch /\ batches[b].by \in Launches
<1>1. batches \in Seq(Batch)
  BY DEF BatchesTyped
<1>2. Len(batches) \in Nat /\ DOMAIN batches = 1 .. Len(batches)
  BY <1>1, LenProperties
<1>3. \A b \in DOMAIN batches : batches[b] \in Batch
  BY <1>1, <1>2, ElementOfSeq
<1> QED
  BY <1>2, <1>3 DEF Batch

LEMMA InstallingInit == UpdatesInit /\ Running => Installing
<1> SUFFICES ASSUME UpdatesInit, Running PROVE Installing
  OBVIOUS
<1>1. ph \in [Launches -> Fates]
  BY DEF Running, Fates
<1>2. offered \in Version /\ zip \in Content
  BY DEF UpdatesInit, Version, Content, NoFile
<1>3. batches = <<>>
  BY DEF UpdatesInit
<1>4. batches \in Seq(Batch) /\ DOMAIN batches = {}
  BY <1>3, EmptySeq, EmptyIsSeq
<1> QED
  BY <1>1, <1>2, <1>4 DEF Installing, BatchesTyped, Waited

\* A process that was not over moves on
LEMMA OthersWait ==
  ASSUME Installing, NEW p \in Launches, NEW to \in Fates \ {"none"},
         ph' = [ph EXCEPT ![p] = to], ph[p] \notin Over,
         offered' \in Version, UNCHANGED <<zip, batches>>
  PROVE  Installing'
<1>1. ph \in [Launches -> Fates]
  BY DEF Installing, BatchesTyped
<1>2. ph' \in [Launches -> Fates] /\ \A q \in Launches : ph'[q] = IF q = p THEN to ELSE ph[q]
  BY <1>1
<1>3. Waited'
  <2>1. SUFFICES ASSUME NEW b \in DOMAIN batches
                 PROVE  /\ ph'[batches[b].by] # "none"
                        /\ batches[b].st # "waiting" => ph'[batches[b].by] \in Over
    BY DEF Waited
  <2>2. batches[b].by \in Launches
    BY BatchesAre DEF Installing
  <2>3. /\ ph[batches[b].by] # "none"
        /\ batches[b].st # "waiting" => ph[batches[b].by] \in Over
    BY DEF Installing, Waited
  <2> QED
    BY <1>2, <2>2, <2>3
<1> QED
  BY <1>2, <1>3 DEF Installing, BatchesTyped

\* One batch goes on
LEMMA BatchGoes ==
  ASSUME Installing, NEW b \in DOMAIN batches, NEW r \in Batch,
         batches' = [batches EXCEPT ![b] = r], r.by = batches[b].by,
         ph[r.by] \in Over, UNCHANGED <<ph, offered, zip>>
  PROVE  Installing'
<1>1. /\ batches \in Seq(Batch) /\ b \in 1 .. Len(batches)
      /\ DOMAIN batches = 1 .. Len(batches)
  BY BatchesAre DEF Installing, BatchesTyped
<1>2. /\ batches' \in Seq(Batch) /\ Len(batches') = Len(batches)
      /\ \A k \in 1 .. Len(batches) : batches'[k] = IF k = b THEN r ELSE batches[k]
  BY <1>1, ExceptSeq
<1>3. DOMAIN batches' = 1 .. Len(batches)
  BY <1>2, LenProperties
<1>4. Waited'
  <2>1. SUFFICES ASSUME NEW k \in 1 .. Len(batches)
                 PROVE  /\ ph[batches'[k].by] # "none"
                        /\ batches'[k].st # "waiting" => ph[batches'[k].by] \in Over
    BY <1>3 DEF Waited
  <2>2. CASE k = b
    BY <2>2, <1>2 DEF Over
  <2>3. CASE k # b
    BY <2>3, <1>1, <1>2 DEF Installing, Waited
  <2> QED
    BY <2>2, <2>3
<1> QED
  BY <1>2, <1>4 DEF Installing, BatchesTyped

LEMMA BatchLaunched ==
  ASSUME Installing, NEW p \in Launches, ph[p] = "open", zip.whole,
         batches' = Append(batches, [by |-> p, st |-> "waiting",
                                     staged |-> zip.version, tries |-> 0]),
         UNCHANGED <<ph, offered, zip>>
  PROVE  Installing'
<1> DEFINE r == [by |-> p, st |-> "waiting", staged |-> zip.version, tries |-> 0]
<1>1. r \in Batch /\ r.by = p /\ r.st = "waiting"
  BY DEF Batch, Installing, BatchesTyped, Content
<1>2. batches' = Append(batches, r)
  OBVIOUS
<1> HIDE DEF r
<1>3. /\ batches \in Seq(Batch) /\ DOMAIN batches = 1 .. Len(batches) /\ Len(batches) \in Nat
  BY BatchesAre DEF Installing, BatchesTyped
<1>4. /\ batches' \in Seq(Batch) /\ Len(batches') = Len(batches) + 1
      /\ \A k \in 1 .. Len(batches) : batches'[k] = batches[k]
      /\ batches'[Len(batches) + 1] = r
  BY <1>1, <1>2, <1>3, AppendProperties
<1>5. DOMAIN batches' = 1 .. Len(batches) + 1
  BY <1>4, LenProperties
<1>6. Waited'
  <2>1. SUFFICES ASSUME NEW k \in 1 .. Len(batches) + 1
                 PROVE  /\ ph[batches'[k].by] # "none"
                        /\ batches'[k].st # "waiting" => ph[batches'[k].by] \in Over
    BY <1>5 DEF Waited
  <2>2. CASE k = Len(batches) + 1
    BY <2>2, <1>1, <1>4
  <2>3. CASE k # Len(batches) + 1
    <3>1. k \in 1 .. Len(batches)
      BY <2>3, <1>3
    <3> QED
      BY <3>1, <1>3, <1>4 DEF Installing, Waited
  <2> QED
    BY <2>2, <2>3
<1> QED
  BY <1>4, <1>6 DEF Installing, BatchesTyped

\* What a page shows and downloads leaves the batches alone
LEMMA PageActs ==
  ASSUME Installing, NEW p \in Launches,
         \/ CheckForUpdates(p) \/ \E v \in Version : CheckDone(p, v)
         \/ DownloadUpdate(p) \/ \E how \in {"whole", "other", "broken"} : DownloadDone(p, how)
  PROVE  Installing'
<1>1. ASSUME offered' \in Version, zip' \in Content, UNCHANGED <<ph, batches>>
      PROVE  Installing'
  BY <1>1 DEF Installing, BatchesTyped, Waited
<1>2. offered \in Version /\ zip \in Content
  BY DEF Installing, BatchesTyped
<1>3. UNCHANGED <<ph, batches>>
  BY DEF CheckForUpdates, CheckDone, DownloadUpdate, DownloadDone, appVars
<1>4. offered' \in Version
  BY <1>2 DEF CheckForUpdates, CheckDone, DownloadUpdate, DownloadDone, CheckSync, Version
<1>5. zip' \in Content
  <2>1. CASE CheckForUpdates(p) \/ \E v \in Version : CheckDone(p, v)
    BY <2>1, <1>2 DEF CheckForUpdates, CheckDone
  <2>2. CASE DownloadUpdate(p)
    BY <2>2, <1>2 DEF DownloadUpdate, Content
  <2>3. ASSUME NEW how \in {"whole", "other", "broken"}, DownloadDone(p, how)
        PROVE  zip' \in Content
    <3>1. zip' = DownloadSync(how)
      BY <2>3 DEF DownloadDone
    <3>2. [zip EXCEPT !.whole = TRUE] \in Content /\ NoFile \in Content
      BY <1>2 DEF Content, NoFile, Version
    <3> QED
      BY <1>2, <3>1, <3>2 DEF DownloadSync
  <2> QED
    BY <2>1, <2>2, <2>3
<1> QED
  BY <1>1, <1>3, <1>4, <1>5

LEMMA Installs ==
  ASSUME Installing, NEW p \in Launches, Install(p)
  PROVE  Installing'
<1>1. ph[p] = "open" /\ UNCHANGED <<ph, offered, zip>>
  BY DEF Install, appVars
<1>2. CASE batches' = batches
  BY <1>1, <1>2 DEF Installing, BatchesTyped, Waited
<1>3. CASE Unpack(p)
  BY <1>1, <1>2, <1>3, BatchLaunched DEF Unpack
<1> QED
  BY <1>2, <1>3 DEF Install

LEMMA GoesOn ==
  ASSUME Installing, NEW p \in Launches, AppGoesOn(p)
  PROVE  Installing'
<1>1. UNCHANGED <<offered, zip, batches>> /\ offered' \in Version
  BY DEF AppGoesOn, updVars, Installing, BatchesTyped
<1>2. CASE ph' = ph
  BY <1>1, <1>2 DEF Installing, BatchesTyped, Waited
<1>3. ASSUME NEW to \in Fates \ {"none"}, ph' = [ph EXCEPT ![p] = to], ph[p] \notin Over
      PROVE  Installing'
  BY <1>1, <1>3, OthersWait
<1>4. CASE TryLock(p)
  <2>1. PICK to \in {"passed", "refused"} : ph' = [ph EXCEPT ![p] = to]
    BY <1>4 DEF TryLock, Moves
  <2>2. to \in Fates \ {"none"} /\ ph[p] \notin Over
    BY <1>4, <2>1 DEF TryLock, Fates, Over
  <2> QED
    BY <1>3, <2>1, <2>2
<1>5. CASE PassGate(p)
  <2>1. ph' = [ph EXCEPT ![p] = "splash"] /\ ph[p] \notin Over /\ "splash" \in Fates \ {"none"}
    BY <1>5 DEF PassGate, Moves, Fates, Over
  <2> QED
    BY <1>3, <2>1
<1>6. CASE ShowWindow(p)
  <2>1. ph' = [ph EXCEPT ![p] = "open"] /\ ph[p] \notin Over /\ "open" \in Fates \ {"none"}
    BY <1>6 DEF ShowWindow, Moves, Fates, Over
  <2> QED
    BY <1>3, <2>1
<1>7. CASE SeeClosed(p) \/ StopPart(p) \/ LoopEnds(p) \/ Exit(p)
  <2>1. CASE ph' = ph
    BY <2>1, <1>2
  <2>2. CASE ph' # ph
    <3>1. PICK to \in {"closing", "stopped", "done"} : ph' = [ph EXCEPT ![p] = to]
      BY <1>7, <2>2 DEF SeeClosed, StopPart, LoopEnds, Exit, Moves
    <3>2. to \in Fates \ {"none"} /\ ph[p] \notin Over
      BY <1>7, <3>1 DEF SeeClosed, StopPart, LoopEnds, Exit, Fates, Over
    <3> QED
      BY <1>3, <3>1, <3>2
  <2> QED
    BY <2>1, <2>2
<1>8. CASE CloseWindow(p) \/ Unlock(p)
  BY <1>8, <1>2 DEF CloseWindow, Unlock
<1> QED
  BY <1>4, <1>5, <1>6, <1>7, <1>8 DEF AppGoesOn

LEMMA Killed ==
  ASSUME Installing, NEW p \in Launches, Kill(p), UNCHANGED <<offered, zip, batches>>
  PROVE  Installing'
<1>1. PICK to \in {"done", "turned"} : ph' = [ph EXCEPT ![p] = to]
  BY DEF Kill, Moves
<1>2. ph[p] \notin Over /\ to \in Fates \ {"none"} /\ offered' \in Version
  BY <1>1 DEF Kill, Over, Fates, Installing, BatchesTyped
<1> QED
  BY <1>1, <1>2, OthersWait

LEMMA BatchSteps ==
  ASSUME Installing, NEW b \in DOMAIN batches,
         WaitDone(b) \/ ForceKill(b) \/ StopHelpers(b) \/ Swap(b)
  PROVE  Installing'
<1>1. batches[b] \in Batch /\ batches[b].by \in Launches
  BY BatchesAre DEF Installing
<1>2. ph[batches[b].by] \in Fates \ {"none"}
      /\ (batches[b].st # "waiting" => ph[batches[b].by] \in Over)
  BY <1>1 DEF Installing, BatchesTyped, Waited
<1>3. ASSUME NEW to \in {"stopping", "swapping", "done"}, Goes(b, to),
             ph[batches[b].by] \in Over, UNCHANGED <<ph, offered, zip>>
      PROVE  Installing'
  <2> DEFINE r == [batches[b] EXCEPT !.st = to]
  <2>1. r \in Batch /\ r.by = batches[b].by
    BY <1>1 DEF Batch
  <2>2. batches' = [batches EXCEPT ![b] = r]
    BY <1>3 DEF Goes
  <2> HIDE DEF r
  <2> QED
    BY <1>3, <2>1, <2>2, BatchGoes
<1>4. CASE WaitDone(b)
  <2>1. ph[batches[b].by] \in Over
    BY <1>2, <1>4 DEF WaitDone, Gone, Fates, Over
  <2> QED
    BY <1>3, <1>4, <2>1 DEF WaitDone, appVars
<1>5. CASE ForceKill(b)
  BY <1>1, <1>5, Killed DEF ForceKill, updVars
<1>6. CASE StopHelpers(b)
  <2>1. CASE \E p \in Launches : Kill(p) /\ batches' = batches
    BY <1>6, <2>1, Killed DEF StopHelpers
  <2>2. CASE Goes(b, "swapping") /\ UNCHANGED appVars
    BY <1>2, <1>3, <1>6, <2>2 DEF StopHelpers, appVars
  <2> QED
    BY <1>6, <2>1, <2>2 DEF StopHelpers
<1>7. CASE Swap(b)
  <2>1. ph[batches[b].by] \in Over /\ UNCHANGED <<ph, offered, zip>>
    BY <1>2, <1>7 DEF Swap, appVars
  <2>2. CASE Goes(b, "done")
    BY <1>3, <2>1, <2>2
  <2>3. CASE batches' = [batches EXCEPT ![b].tries = @ + 1,
                                        ![b].st = IF batches[b].tries + 1 = MaxSwaps
                                                  THEN "failed" ELSE "swapping"]
    <3> DEFINE r == [batches[b] EXCEPT !.tries = @ + 1,
                                       !.st = IF batches[b].tries + 1 = MaxSwaps
                                              THEN "failed" ELSE "swapping"]
    <3>1. r \in Batch /\ r.by = batches[b].by
      <4>1. PICK to \in {"failed", "swapping"} :
              r = [batches[b] EXCEPT !.tries = @ + 1, !.st = to]
        OBVIOUS
      <4>2. batches[b].tries + 1 \in Nat
        BY <1>1 DEF Batch
      <4> QED
        BY <4>1, <4>2, <1>1 DEF Batch
    <3>2. batches' = [batches EXCEPT ![b] = r]
      BY <2>3
    <3> HIDE DEF r
    <3> QED
      BY <2>1, <3>1, <3>2, BatchGoes
  <2> QED
    BY <1>7, <2>2, <2>3 DEF Swap
<1> QED
  BY <1>4, <1>5, <1>6, <1>7

LEMMA InstallingStep == Installing /\ [UpdatesNext]_<<appVars, updVars>> => Installing'
<1> SUFFICES ASSUME Installing, [UpdatesNext]_<<appVars, updVars>> PROVE Installing'
  OBVIOUS
<1>1. ASSUME NEW p \in Launches, StartAgain(p) PROVE Installing'
  <2>1. ph' = [ph EXCEPT ![p] = "building"] /\ ph[p] = "none"
    BY <1>1 DEF StartAgain, Launch, Moves
  <2>2. ph[p] \notin Over /\ "building" \in Fates \ {"none"}
    BY <2>1 DEF Over, Fates
  <2>3. offered' \in Version /\ UNCHANGED <<zip, batches>>
    BY <1>1 DEF StartAgain, Version
  <2> QED
    BY <2>1, <2>2, <2>3, OthersWait
<1>2. CASE UNCHANGED <<appVars, updVars>>
  BY <1>2 DEF appVars, updVars, Installing, BatchesTyped, Waited
<1> QED
  BY <1>1, <1>2, PageActs, Installs, GoesOn, BatchSteps DEF UpdatesNext

\* A batch that goes on has seen the process that launched it end: the step after, which
\* kills every process of the name, cuts short nothing that process still had to write
\* (services/updates/downloader.py, _launch_swap_batch, which waits for the process id).
THEOREM SwapCorrect == UpdatesSpec => []SwapAfterExit
<1>1. Installing => SwapAfterExit
  BY DEF Installing, Waited, SwapAfterExit, Over
<1> QED
  BY InstallingInit, InstallingStep, <1>1, PTL DEF UpdatesSpec

-----------------------------------------------------------------------------
(* The dashboard                                                           *)

\* Nothing is under way for the sockets, and they are those of the setting
Obeyed ==
    /\ listening = IF HasRunner THEN {dashboard.runner} ELSE {}
    /\ ~mem.enabled => ~HasRunner

\* The one task there may be while no save overlaps another's: what it found
Lone(t) ==
    \/ /\ t.op = "ensure" /\ ~HasRunner
       /\ t.st = "scheduled" => listening = {}
       /\ t.st # "scheduled" => mem.enabled
    \/ t.op = "start" /\ mem.enabled /\ ~HasRunner /\ (t.st = "scheduled" => listening = {})
    \/ t.op = "stop" /\ t.st = "scheduled" /\ HasRunner /\ listening = {dashboard.runner}
Bound(t) ==
    /\ t.st = "binding" => listening = {} /\ t.port \in Ports
    /\ t.st = "bound" => listening = {t.port} /\ t.port \in Ports

RemoteTyped ==
    /\ mem \in Settings /\ store \in Settings /\ form \in Form
    /\ dashboard \in [made : BOOLEAN, port : Ports \cup {0}, runner : Ports \cup {0}]
    /\ dashboard.made => dashboard.port \in Ports
    /\ tasks \in Seq(Task) /\ overlapped \in BOOLEAN

Following ==
    ~overlapped =>
      /\ Len(tasks) <= 1
      /\ tasks = <<>> => Obeyed
      /\ tasks # <<>> => Lone(tasks[1]) /\ Bound(tasks[1])

Dashboard == RemoteTyped /\ Following

LEMMA NoPortZero == 0 \notin Ports
  BY RemoteAssumption

LEMMA LoneTask ==
  ASSUME NEW s, NEW S, s \in Seq(S), Len(s) <= 1
  PROVE  /\ s # <<>> => Len(s) = 1
         /\ \A i \in DOMAIN s : i = 1 /\ s # <<>> /\ RemoveAt(s, i) = <<>>
<1>1. Len(s) \in Nat /\ DOMAIN s = 1 .. Len(s) /\ (s # <<>> => Len(s) # 0) /\ Len(<<>>) = 0
  BY LenProperties, EmptySeq
<1>2. SUFFICES ASSUME NEW i \in 1 .. Len(s)
               PROVE  i = 1 /\ s # <<>> /\ RemoveAt(s, i) = <<>>
  BY <1>1
<1>3. i = 1 /\ Len(s) = 1 /\ s # <<>>
  BY <1>1, <1>2
<1>4. RemoveAt(s, i) \in Seq(S) /\ Len(RemoveAt(s, i)) = Len(s) - 1
  BY <1>2, RestOfSeq DEF RemoveAt
<1>5. Len(RemoveAt(s, i)) = 0
  BY <1>3, <1>4
<1> QED
  BY <1>3, <1>4, <1>5, EmptySeq

LEMMA TaskGone ==
  ASSUME tasks \in Seq(Task), NEW i \in DOMAIN tasks, TaskEnds(i)
  PROVE  tasks' \in Seq(Task)
  BY LenProperties, RestOfSeq DEF TaskEnds, RemoveAt

LEMMA TaskOf ==
  ASSUME tasks \in Seq(Task), NEW i \in DOMAIN tasks
  PROVE  tasks[i] \in Task /\ i \in 1 .. Len(tasks) /\ Len(tasks) \in Nat
  BY LenProperties, ElementOfSeq

\* The lone task is the one that acts, and when it has ended none is left
LEMMA LoneActs ==
  ASSUME Dashboard, ~overlapped, NEW i \in DOMAIN tasks
  PROVE  /\ i = 1 /\ tasks # <<>> /\ Len(tasks) = 1
         /\ Lone(tasks[i]) /\ Bound(tasks[i])
         /\ RemoveAt(tasks, i) = <<>>
<1>1. tasks \in Seq(Task) /\ Len(tasks) <= 1
  BY DEF Dashboard, RemoteTyped, Following
<1>2. i = 1 /\ tasks # <<>> /\ RemoveAt(tasks, i) = <<>> /\ Len(tasks) = 1
  BY <1>1, LoneTask
<1> QED
  BY <1>2 DEF Dashboard, Following

LEMMA OneScheduled ==
  ASSUME NEW op \in {"start", "stop", "ensure"}
  PROVE  /\ <<Scheduled(op)>> \in Seq(Task) /\ Len(<<Scheduled(op)>>) = 1
         /\ <<Scheduled(op)>> # <<>> /\ <<Scheduled(op)>>[1] = Scheduled(op)
         /\ Scheduled(op) \in Task /\ Scheduled(op).op = op
         /\ Scheduled(op).st = "scheduled"
<1>1. Scheduled(op) \in Task /\ Scheduled(op).op = op /\ Scheduled(op).st = "scheduled"
  BY DEF Scheduled, Task
<1> DEFINE t == Scheduled(op)
<1> HIDE DEF t
<1>2. <<t>> \in Seq(Task) /\ Len(<<t>>) = 1 /\ <<t>>[1] = t
  BY <1>1 DEF t
<1>3. <<t>> # <<>>
  BY <1>2, EmptySeq
<1> QED
  BY <1>1, <1>2, <1>3 DEF t

LEMMA ProcessStarts ==
  ASSUME NEW s \in Settings, mem' = s, form' = LoadValues(s), dashboard' = NoServer,
         listening' = {}, tasks' = <<Scheduled("ensure")>>, overlapped' = FALSE,
         store' \in Settings
  PROVE  Dashboard'
<1>1. RemoteTyped'
  <2>1. form' \in Form
    BY DEF LoadValues, Form, Settings
  <2>2. dashboard' \in [made : BOOLEAN, port : Ports \cup {0}, runner : Ports \cup {0}]
        /\ ~dashboard'.made
    BY DEF NoServer
  <2> QED
    BY <2>1, <2>2, OneScheduled DEF RemoteTyped
<1>2. Lone(tasks[1])' /\ Bound(tasks[1])'
  <2>1. ~HasRunner'
    BY DEF NoServer, HasRunner
  <2> QED
    BY <2>1, OneScheduled DEF Lone, Bound
<1>3. Following'
  BY <1>2, OneScheduled DEF Following
<1> QED
  BY <1>1, <1>3 DEF Dashboard

LEMMA DashboardInit == RemoteInit => Dashboard
<1> SUFFICES ASSUME RemoteInit PROVE Dashboard
  OBVIOUS
<1>1. store \in Settings /\ mem = store
  <2>1. (CHOOSE p \in Ports : TRUE) \in Ports
    BY RemoteAssumption
  <2>2. 0 \in Tokens
    BY RemoteAssumption DEF Tokens
  <2> QED
    BY <2>1, <2>2 DEF RemoteInit, Settings, Silence
<1>2. RemoteTyped
  <2>1. form \in Form
    BY <1>1 DEF RemoteInit, LoadValues, Form, Settings
  <2>2. dashboard \in [made : BOOLEAN, port : Ports \cup {0}, runner : Ports \cup {0}]
        /\ ~dashboard.made
    BY DEF RemoteInit, NoServer
  <2> QED
    BY <1>1, <2>1, <2>2, OneScheduled DEF RemoteInit, RemoteTyped
<1>3. Lone(tasks[1]) /\ Bound(tasks[1])
  BY OneScheduled DEF RemoteInit, NoServer, HasRunner, Lone, Bound
<1>4. Following
  BY <1>3, OneScheduled DEF RemoteInit, Following
<1> QED
  BY <1>2, <1>4 DEF Dashboard

LEMMA Saves ==
  ASSUME Dashboard, Save
  PROVE  Dashboard'
<1> DEFINE sv == Saved
<1>1. sv \in Settings
  <2>1. 1 \in Tokens
    BY RemoteAssumption DEF Tokens
  <2> QED
    BY <2>1 DEF Saved, Dashboard, RemoteTyped, Settings, Form, Silence
<1>2. mem' = sv /\ store' = sv /\ Apply(sv) /\ form' = form /\ listening' = listening
      /\ overlapped' = (overlapped \/ tasks # <<>>)
  BY DEF Save
<1>3. /\ dashboard \in [made : BOOLEAN, port : Ports \cup {0}, runner : Ports \cup {0}]
      /\ (dashboard.made => dashboard.port \in Ports) /\ tasks \in Seq(Task)
  BY DEF Dashboard, RemoteTyped
<1>4. sv.port \in Ports /\ sv.enabled \in BOOLEAN
  BY <1>1 DEF Settings
<1> HIDE DEF sv
<1>5. /\ dashboard' \in [made : BOOLEAN, port : Ports \cup {0}, runner : Ports \cup {0}]
      /\ (dashboard'.made => dashboard'.port \in Ports)
      /\ dashboard'.runner = dashboard.runner
  BY <1>2, <1>3, <1>4 DEF Apply
<1>6. tasks' \in Seq(Task)
  <2>1. \A op \in {"start", "stop"} : Append(tasks, Scheduled(op)) \in Seq(Task)
    BY <1>3, OneScheduled, AppendProperties
  <2> QED
    BY <1>2, <1>3, <2>1 DEF Apply
<1>7. RemoteTyped'
  BY <1>1, <1>2, <1>5, <1>6 DEF Dashboard, RemoteTyped
<1>8. Following'
  <2>1. SUFFICES ASSUME ~overlapped'
                 PROVE  /\ Len(tasks') <= 1
                        /\ tasks' = <<>> => Obeyed'
                        /\ tasks' # <<>> => Lone(tasks[1])' /\ Bound(tasks[1])'
    BY DEF Following
  <2>2. ~overlapped /\ tasks = <<>> /\ Obeyed
    BY <1>2, <2>1 DEF Dashboard, Following
  <2>3. HasRunner' <=> HasRunner
    BY <1>5 DEF HasRunner
  <2>4. \A op \in {"start", "stop"} : Append(<<>>, Scheduled(op)) = <<Scheduled(op)>>
    OBVIOUS
  <2>5. CASE tasks' = <<>>
    <3>1. sv.enabled \/ ~HasRunner
      <4>1. SUFFICES ASSUME ~sv.enabled, HasRunner PROVE FALSE
        OBVIOUS
      <4>2. tasks' = <<Scheduled("stop")>>
        BY <4>1, <1>2, <2>2, <2>4 DEF Apply
      <4> QED
        BY <4>2, <2>5, OneScheduled
    <3>2. Obeyed'
      BY <1>2, <1>5, <2>2, <2>3, <3>1 DEF Obeyed
    <3> QED
      BY <2>5, <3>2, EmptySeq
  <2>6. CASE ~sv.enabled /\ HasRunner
    <3>1. tasks' = <<Scheduled("stop")>>
      BY <2>6, <1>2, <2>2, <2>4 DEF Apply
    <3>2. tasks' # <<>> /\ Len(tasks') = 1 /\ tasks'[1] = Scheduled("stop")
      BY <3>1, OneScheduled
    <3>3. Lone(tasks[1])' /\ Bound(tasks[1])'
      BY <3>2, <2>2, <2>3, <2>6, <1>2, <1>5, OneScheduled DEF Lone, Bound, Obeyed
    <3> QED
      BY <3>2, <3>3
  <2>7. CASE sv.enabled /\ ~HasRunner
    <3>1. tasks' = <<Scheduled("start")>>
      BY <2>7, <1>2, <2>2, <2>4 DEF Apply
    <3>2. tasks' # <<>> /\ Len(tasks') = 1 /\ tasks'[1] = Scheduled("start")
      BY <3>1, OneScheduled
    <3>3. Lone(tasks[1])' /\ Bound(tasks[1])'
      BY <3>2, <2>2, <2>3, <2>7, <1>2, <1>5, OneScheduled DEF Lone, Bound, Obeyed
    <3> QED
      BY <3>2, <3>3
  <2>8. CASE ~(~sv.enabled /\ HasRunner) /\ ~(sv.enabled /\ ~HasRunner)
    <3>1. tasks' = <<>>
      BY <2>8, <1>2, <1>4, <2>2 DEF Apply
    <3> QED
      BY <3>1, <2>5
  <2> QED
    BY <2>6, <2>7, <2>8
<1> QED
  BY <1>7, <1>8 DEF Dashboard

\* Steps that touch neither tasks nor sockets, nor whether there is to be a dashboard
LEMMA NoDashboardStep ==
  ASSUME Dashboard, mem' \in Settings, store' \in Settings, form' \in Form,
         mem'.enabled = mem.enabled,
         UNCHANGED <<dashboard, listening, tasks, overlapped>>
  PROVE  Dashboard'
<1>1. RemoteTyped'
  BY DEF Dashboard, RemoteTyped
<1>2. (Obeyed => Obeyed') /\ (HasRunner' <=> HasRunner)
  BY DEF Obeyed, HasRunner
<1>3. (Lone(tasks[1]) => Lone(tasks[1])') /\ (Bound(tasks[1]) => Bound(tasks[1])')
  BY <1>2 DEF Lone, Bound
<1> QED
  BY <1>1, <1>2, <1>3 DEF Dashboard, Following

\* The task i ends; if it was the only one the sockets are those of the setting
LEMMA TaskDone ==
  ASSUME Dashboard, NEW i \in DOMAIN tasks, TaskEnds(i),
         dashboard' \in [made : BOOLEAN, port : Ports \cup {0}, runner : Ports \cup {0}],
         dashboard'.made => dashboard'.port \in Ports,
         UNCHANGED <<mem, store, form, overlapped>>,
         ~overlapped => Obeyed'
  PROVE  Dashboard'
<1>1. RemoteTyped'
  BY TaskGone DEF Dashboard, RemoteTyped
<1>2. ~overlapped => tasks' = <<>>
  BY LoneActs DEF TaskEnds
<1>3. Len(<<>>) = 0
  BY EmptySeq
<1> QED
  BY <1>1, <1>2, <1>3 DEF Dashboard, Following

\* It goes on; if it is the only one it is still as a lone task is
LEMMA TaskGoesOn ==
  ASSUME Dashboard, NEW i \in DOMAIN tasks, NEW t \in Task,
         tasks' = [tasks EXCEPT ![i] = t],
         dashboard' \in [made : BOOLEAN, port : Ports \cup {0}, runner : Ports \cup {0}],
         dashboard'.made => dashboard'.port \in Ports,
         UNCHANGED <<mem, store, form, overlapped>>,
         ~overlapped /\ tasks'[i] = t => Lone(tasks[i])' /\ Bound(tasks[i])'
  PROVE  Dashboard'
<1>1. i \in 1 .. Len(tasks) /\ tasks \in Seq(Task)
  BY TaskOf DEF Dashboard, RemoteTyped
<1>2. tasks' \in Seq(Task) /\ Len(tasks') = Len(tasks) /\ tasks'[i] = t
  BY <1>1, ExceptSeq
<1>3. RemoteTyped'
  BY <1>2 DEF Dashboard, RemoteTyped
<1>4. CASE overlapped
  BY <1>3, <1>4 DEF Dashboard, Following
<1>5. CASE ~overlapped
  <2>1. i = 1 /\ Len(tasks) = 1
    BY <1>5, LoneActs
  <2>4. Len(<<>>) = 0
    BY EmptySeq
  <2>5. Len(tasks') = 1
    BY <1>2, <2>1
  <2>2. tasks' # <<>> /\ Len(tasks') <= 1
    <3>1. Len(tasks') # Len(<<>>) /\ Len(tasks') <= 1
      BY ONLY <2>4, <2>5
    <3> QED
      BY ONLY <3>1, Zenon
  <2>3. Lone(tasks[1])' /\ Bound(tasks[1])'
    BY <1>2, <1>5, <2>1
  <2> QED
    BY <1>3, <2>2, <2>3 DEF Dashboard, Following
<1> QED
  BY <1>4, <1>5

LEMMA Begins ==
  ASSUME Dashboard, NEW i \in DOMAIN tasks, Begin(i)
  PROVE  Dashboard'
<1> DEFINE t == tasks[i]
           told == IF dashboard.made THEN dashboard.port ELSE mem.port
           off == t.op = "ensure" /\ ~mem.enabled
<1>1. t \in Task /\ t.st = "scheduled" /\ t.op # "stop"
  BY TaskOf DEF Begin, IsNext, Dashboard, RemoteTyped
<1>2. /\ dashboard \in [made : BOOLEAN, port : Ports \cup {0}, runner : Ports \cup {0}]
      /\ (dashboard.made => dashboard.port \in Ports) /\ mem \in Settings
     
  BY DEF Dashboard, RemoteTyped
<1>3. told \in Ports
  BY <1>2 DEF Settings
<1>4. UNCHANGED <<mem, store, form, listening, overlapped>>
  BY DEF Begin
<1>5. ~overlapped => ~HasRunner /\ listening = {}
  BY <1>1, LoneActs DEF Lone
<1>6. CASE off
  <2>1. dashboard' = dashboard /\ TaskEnds(i)
    BY <1>6 DEF Begin
  <2>2. ~overlapped => Obeyed'
    BY <1>4, <1>5, <1>6, <2>1 DEF Obeyed, HasRunner
  <2> QED
    BY <1>2, <1>4, <2>1, <2>2, TaskDone
<1>7. CASE ~off
  <2>1. dashboard' = [dashboard EXCEPT !.made = TRUE, !.port = told]
    BY <1>7 DEF Begin
  <2>2. /\ dashboard' \in [made : BOOLEAN, port : Ports \cup {0}, runner : Ports \cup {0}]
        /\ dashboard'.port \in Ports /\ dashboard'.runner = dashboard.runner
    BY <1>2, <1>3, <2>1
  <2>3. CASE HasRunner
    <3>1. TaskEnds(i) /\ overlapped
      BY <1>5, <1>7, <2>3 DEF Begin, Dashboard, RemoteTyped
    <3> QED
      BY <1>2, <1>4, <2>2, <3>1, TaskDone
  <2>4. CASE ~HasRunner
    <3> DEFINE u == [t EXCEPT !.st = "binding", !.port = told]
    <3>1. tasks' = [tasks EXCEPT ![i] = u]
      BY <1>7, <2>4 DEF Begin
    <3>2. u \in Task /\ u.st = "binding" /\ u.port = told /\ u.op = t.op
      BY <1>1, <1>3 DEF Task
    <3> HIDE DEF u
    <3>3. ASSUME ~overlapped, tasks'[i] = u
          PROVE  Lone(tasks[i])' /\ Bound(tasks[i])'
      <4>1. listening' = {} /\ ~HasRunner'
        BY <1>4, <1>5, <2>2, <2>4, <3>3 DEF HasRunner
      <4>2. Lone(tasks[i])
        BY <3>3, LoneActs
      <4>3. Bound(tasks[i])'
        BY <1>3, <3>2, <3>3, <4>1 DEF Bound
      <4>4. u.op \in {"ensure", "start"} /\ mem.enabled
        BY <1>1, <1>7, <3>2, <4>2 DEF Lone
      <4>5. Lone(tasks[i])'
        BY <1>4, <3>2, <3>3, <4>1, <4>4 DEF Lone
      <4> QED
        BY <4>3, <4>5
    <3> QED
      BY <1>2, <1>4, <2>2, <3>1, <3>2, <3>3, TaskGoesOn
  <2> QED
    BY <2>3, <2>4
<1> QED
  BY <1>6, <1>7

LEMMA Binds ==
  ASSUME Dashboard, NEW i \in DOMAIN tasks, BindFails(i) \/ Bind(i) \/ Started(i)
  PROVE  Dashboard'
<1> DEFINE t == tasks[i]
<1>1. t \in Task
  BY TaskOf DEF Dashboard, RemoteTyped
<1>2. /\ dashboard \in [made : BOOLEAN, port : Ports \cup {0}, runner : Ports \cup {0}]
      /\ (dashboard.made => dashboard.port \in Ports)
     
  BY DEF Dashboard, RemoteTyped
<1>3. ~overlapped => Lone(t) /\ Bound(t)
  BY LoneActs
<1>4. CASE BindFails(i)
  <2>1. ~overlapped => Obeyed
    BY <1>3, <1>4 DEF BindFails, Lone, Bound, Obeyed
  <2>2. ~overlapped => Obeyed'
    BY <1>4, <2>1 DEF BindFails, Obeyed, HasRunner
  <2>3. TaskEnds(i) /\ UNCHANGED <<mem, store, form, dashboard, listening, overlapped>>
    BY <1>4 DEF BindFails
  <2> QED
    BY <1>2, <2>2, <2>3, TaskDone
<1>5. CASE Bind(i)
  <2> DEFINE u == [t EXCEPT !.st = "bound"]
  <2>1. /\ tasks' = [tasks EXCEPT ![i] = u] /\ t.st = "binding"
        /\ listening' = listening \cup {t.port}
        /\ UNCHANGED <<mem, store, form, dashboard, overlapped>>
    BY <1>5 DEF Bind
  <2>2. u \in Task /\ u.st = "bound" /\ u.port = t.port /\ u.op = t.op
    BY <1>1 DEF Task
  <2> HIDE DEF u
  <2>4. ASSUME ~overlapped, tasks'[i] = u
        PROVE  Lone(tasks[i])' /\ Bound(tasks[i])'
    <3>1. t.port \in Ports /\ listening' = {t.port}
      BY <1>3, <2>1, <2>4 DEF Bound
    <3>2. HasRunner' <=> HasRunner
      BY <2>1 DEF HasRunner
    <3>3. Bound(tasks[i])'
      BY <2>2, <2>4, <3>1 DEF Bound
    <3>4. Lone(tasks[i])'
      BY <1>3, <2>1, <2>2, <2>4, <3>2 DEF Lone
    <3> QED
      BY <3>3, <3>4
  <2> QED
    BY <1>2, <2>1, <2>2, <2>4, TaskGoesOn
<1>6. CASE Started(i)
  <2>1. /\ TaskEnds(i) /\ t.st = "bound"
        /\ dashboard' = [dashboard EXCEPT !.runner = t.port]
        /\ UNCHANGED <<mem, store, form, listening, overlapped>>
    BY <1>6 DEF Started
  <2>2. /\ dashboard' \in [made : BOOLEAN, port : Ports \cup {0}, runner : Ports \cup {0}]
        /\ dashboard'.runner = t.port /\ dashboard'.made = dashboard.made
        /\ dashboard'.port = dashboard.port
    BY <1>1, <1>2, <2>1 DEF Task
  <2>3. ~overlapped => Obeyed'
    <3>1. SUFFICES ASSUME ~overlapped PROVE Obeyed'
      OBVIOUS
    <3>2. t.port \in Ports /\ listening = {t.port} /\ mem.enabled
      BY <1>3, <2>1, <3>1 DEF Lone, Bound
    <3>3. HasRunner'
      BY <2>2, <3>2, NoPortZero DEF HasRunner
    <3> QED
      BY <2>1, <2>2, <3>2, <3>3 DEF Obeyed
  <2> QED
    BY <1>2, <2>1, <2>2, <2>3, TaskDone
<1> QED
  BY <1>4, <1>5, <1>6

LEMMA TaskStops ==
  ASSUME Dashboard, NEW i \in DOMAIN tasks, Stop(i)
  PROVE  Dashboard'
<1>1. /\ TaskEnds(i) /\ tasks[i].op = "stop"
      /\ dashboard' = [dashboard EXCEPT !.runner = 0]
      /\ listening' = listening \ {dashboard.runner}
      /\ UNCHANGED <<mem, store, form, overlapped>>
  BY DEF Stop, Stopped
<1>2. /\ dashboard \in [made : BOOLEAN, port : Ports \cup {0}, runner : Ports \cup {0}]
      /\ (dashboard.made => dashboard.port \in Ports)
  BY DEF Dashboard, RemoteTyped
<1>3. /\ dashboard' \in [made : BOOLEAN, port : Ports \cup {0}, runner : Ports \cup {0}]
      /\ dashboard'.runner = 0 /\ dashboard'.made = dashboard.made
      /\ dashboard'.port = dashboard.port
  BY <1>1, <1>2
<1>4. ~overlapped => Obeyed'
  <2>1. SUFFICES ASSUME ~overlapped PROVE Obeyed'
    OBVIOUS
  <2>2. listening = {dashboard.runner}
    BY <1>1, <2>1, LoneActs DEF Lone
  <2> QED
    BY <1>1, <1>3, <2>2 DEF Obeyed, HasRunner
<1> QED
  BY <1>1, <1>2, <1>3, <1>4, TaskDone

LEMMA DashboardStep == Dashboard /\ [RemoteNext]_remVars => Dashboard'
<1> SUFFICES ASSUME Dashboard, [RemoteNext]_remVars PROVE Dashboard'
  OBVIOUS
<1>1. mem \in Settings /\ store \in Settings /\ form \in Form
  BY DEF Dashboard, RemoteTyped
<1>2. ASSUME NEW f \in Form, Edit(f) PROVE Dashboard'
  BY <1>1, <1>2, NoDashboardStep DEF Edit
<1>3. CASE RegenerateToken
  <2>1. mem.token + 1 \in Tokens
    BY <1>1, <1>3, RemoteAssumption DEF RegenerateToken, Settings, Tokens
  <2>2. mem' \in Settings /\ store' = mem' /\ mem'.enabled = mem.enabled
    BY <1>1, <1>3, <2>1 DEF RegenerateToken, Settings
  <2> QED
    BY <1>1, <1>3, <2>2, NoDashboardStep DEF RegenerateToken
<1>4. CASE ShowPairing \/ ClosePairing \/ UNCHANGED remVars
  BY <1>1, <1>4, NoDashboardStep DEF ShowPairing, ClosePairing, remVars
<1>5. CASE SkipAll \/ HourPasses
  <2>1. PICK skip \in Silence : mem' = [mem EXCEPT !.skip = skip]
                              /\ store' = [store EXCEPT !.skip = skip]
    BY <1>5 DEF SkipAll, HourPasses, Silence
  <2>2. mem' \in Settings /\ store' \in Settings /\ mem'.enabled = mem.enabled
    BY <1>1, <2>1 DEF Settings
  <2> QED
    BY <1>1, <1>5, <2>2, NoDashboardStep DEF SkipAll, HourPasses
<1>6. CASE NewProcess
  BY <1>1, <1>6, ProcessStarts DEF NewProcess, Starts
<1> QED
  BY <1>2, <1>3, <1>4, <1>5, <1>6, Saves, Begins, Binds, TaskStops DEF RemoteNext

\* When every start and stop has ended, and no save came before the one of the save
\* before had, the sockets are those the setting asks for, and the runner of the server
\* is the one a later stop will find (services/remote/server.py, start and stop).
THEOREM DashboardCorrect == RemoteSpec => []DashboardFollowsSetting
<1>1. Dashboard => DashboardFollowsSetting
  BY DEF Dashboard, Following, Obeyed, DashboardFollowsSetting
<1> QED
  BY DashboardInit, DashboardStep, <1>1, PTL DEF RemoteSpec

-----------------------------------------------------------------------------
(* The preview                                                             *)

OnScreen(r) == r.st \in {"shown", "closing"}
\* Of a dialog r and the file x in the cache: it has asked for the proxy before it works
\* on one, and what it plays or was told is ready is whole
Sensible(r, x) ==
    /\ r.work # "none" => r.tried /\ x # "whole"
    /\ r.work = "writing" => x = "part"
    /\ r.work # "writing" /\ OnScreen(r) => x \in {"none", "whole"}
    /\ r.src = "proxy" => x = "whole"
    /\ "ready" \in r.posted => x = "whole"
    /\ ~OnScreen(r) => AtRest(r)

\* As long as nothing was left to itself only the dialog on the screen is at work
Attended ==
    ~abandoned =>
      /\ \A d \in Dialogs, e \in Dialogs : OnScreen(dlg[d]) /\ OnScreen(dlg[e]) => d = e
      /\ \A d \in Dialogs : Sensible(dlg[d], proxy)
      /\ (\A d \in Dialogs : dlg[d].work # "writing") => proxy \in {"none", "whole"}

Previews ==
    /\ dlg \in [Dialogs -> Dialog] /\ abandoned \in BOOLEAN
    /\ Attended

LEMMA NoDialogIs == NoDialog \in Dialog /\ AtRest(NoDialog) /\ ~OnScreen(NoDialog)
<1>1. 1 \in 1 .. Encoders
  BY PreviewAssumption
<1> QED
  BY <1>1 DEF NoDialog, Dialog, AtRest, OnScreen, Verdicts

LEMMA PreviewsInit == PreviewInit => Previews
<1> SUFFICES ASSUME PreviewInit PROVE Previews
  OBVIOUS
<1>1. dlg \in [Dialogs -> Dialog] /\ \A d \in Dialogs : dlg[d] = NoDialog
  BY NoDialogIs DEF PreviewInit
<1>2. proxy = "none" /\ abandoned = FALSE
  BY DEF PreviewInit
<1>3. Sensible(NoDialog, proxy)
  BY <1>2, NoDialogIs DEF Sensible, NoDialog
<1> QED
  BY <1>1, <1>2, <1>3, NoDialogIs DEF Previews, Attended

\* While nothing was left to itself and d is on the screen, all others are at rest
LEMMA OthersRest ==
  ASSUME Previews, ~abandoned, NEW d \in Dialogs, OnScreen(dlg[d])
  PROVE  /\ Sensible(dlg[d], proxy)
         /\ \A e \in Dialogs \ {d} :
              Sensible(dlg[e], proxy) /\ ~OnScreen(dlg[e]) /\ dlg[e].work = "none"
<1>1. \A e \in Dialogs : Sensible(dlg[e], proxy)
  BY DEF Previews, Attended
<1>2. \A e \in Dialogs \ {d} : ~OnScreen(dlg[e])
  BY DEF Previews, Attended
<1> QED
  BY <1>1, <1>2 DEF Sensible, AtRest

\* Dialog d changes, with the proxy as it is: what is asked of it is that it is still
\* sensible, and that it is not at the same time on the screen with another
LEMMA OneDialog ==
  ASSUME Previews, NEW d \in Dialogs, NEW r \in Dialog, Becomes(d, r),
         abandoned' \in BOOLEAN, abandoned => abandoned', UNCHANGED proxy,
         ~abandoned' => /\ OnScreen(r) => \/ OnScreen(dlg[d])
                                          \/ \A e \in Dialogs : ~OnScreen(dlg[e])
                        /\ Sensible(r, proxy)
                        /\ r.work = "writing" <=> dlg[d].work = "writing"
  PROVE  Previews'
<1>1. dlg' \in [Dialogs -> Dialog] /\ \A e \in Dialogs : dlg'[e] = IF e = d THEN r ELSE dlg[e]
  BY DEF Becomes, Previews
<1>2. Attended'
  <2>1. SUFFICES ASSUME ~abandoned'
                 PROVE  /\ \A c \in Dialogs, e \in Dialogs :
                               OnScreen(dlg'[c]) /\ OnScreen(dlg'[e]) => c = e
                        /\ \A e \in Dialogs : Sensible(dlg[e], proxy)'
                        /\ (\A e \in Dialogs : dlg'[e].work # "writing")
                              => proxy \in {"none", "whole"}
    BY DEF Attended, OnScreen
  <2>2. /\ \A c \in Dialogs, e \in Dialogs : OnScreen(dlg[c]) /\ OnScreen(dlg[e]) => c = e
        /\ \A e \in Dialogs : Sensible(dlg[e], proxy)
        /\ (\A e \in Dialogs : dlg[e].work # "writing") => proxy \in {"none", "whole"}
    BY <2>1 DEF Previews, Attended
  <2>3. \A e \in Dialogs : Sensible(dlg[e], proxy)'
    BY <1>1, <2>1, <2>2 DEF Sensible, AtRest, OnScreen
  <2>4. \A c \in Dialogs, e \in Dialogs :
          OnScreen(dlg'[c]) /\ OnScreen(dlg'[e]) => c = e
    BY <1>1, <2>1, <2>2
  <2>5. (\A e \in Dialogs : dlg'[e].work # "writing") => proxy \in {"none", "whole"}
    BY <1>1, <2>1, <2>2
  <2> QED
    BY <2>3, <2>4, <2>5
<1> QED
  BY <1>1, <1>2 DEF Previews

LEMMA ScreenRests ==
  ASSUME Previews, ~abandoned, \A e \in Dialogs : ~OnScreen(dlg[e])
  PROVE  proxy \in {"none", "whole"}
<1>1. \A e \in Dialogs : dlg[e].work = "none"
  BY DEF Previews, Attended, Sensible, AtRest
<1> QED
  BY <1>1 DEF Previews, Attended

LEMMA DialogOpened ==
  ASSUME Previews, NEW d \in Dialogs, Open(d)
  PROVE  Previews'
<1> DEFINE new == [NoDialog EXCEPT !.st = "shown"]
           r == IF Cached THEN UseProxy(new)
                ELSE [new EXCEPT !.probing = TRUE, !.timer = TRUE]
<1>1. /\ new \in Dialog /\ new.st = "shown" /\ new.work = "none" /\ new.posted = {}
      /\ new.src = "source"
  BY NoDialogIs DEF NoDialog, Dialog
<1> HIDE DEF new
<1>2. r \in Dialog /\ r.st = "shown" /\ r.work = "none" /\ r.posted = {}
      /\ (r.src = "proxy" => Cached)
  BY <1>1 DEF Dialog, UseProxy
<1>3. Becomes(d, r) /\ UNCHANGED <<proxy, abandoned>> /\ \A e \in Dialogs : ~OnScreen(dlg[e])
  BY DEF Open, OnScreen, new
<1> HIDE DEF r
<1>4. ASSUME ~abandoned
      PROVE  Sensible(r, proxy) /\ (r.work = "writing" <=> dlg[d].work = "writing")
  <2>1. proxy \in {"none", "whole"}
    BY <1>3, <1>4, ScreenRests
  <2>2. Sensible(r, proxy)
    BY <1>2, <2>1 DEF Sensible, OnScreen, Cached
  <2>3. dlg[d].work = "none"
    BY <1>3, <1>4 DEF Previews, Attended, Sensible, AtRest
  <2> QED
    BY <1>2, <2>2, <2>3
<1> QED
  BY <1>2, <1>3, <1>4, OneDialog DEF Previews

LEMMA BuildIs == \A r \in Dialog : Build(r) \in Dialog
<1> SUFFICES ASSUME NEW r \in Dialog PROVE Build(r) \in Dialog
  OBVIOUS
<1> DEFINE once == [r EXCEPT !.tried = TRUE, !.timer = FALSE]
<1>1. once \in Dialog
  BY DEF Dialog
<1>2. UseProxy(once) \in Dialog
  BY <1>1 DEF UseProxy, Dialog
<1>3. [once EXCEPT !.work = "starting", !.cancel = @ \ {"transcode"}] \in Dialog
  BY <1>1 DEF Dialog
<1> QED
  BY <1>1, <1>2, <1>3 DEF Build

\* What _maybe_build_proxy makes of a dialog that is as d is but for its timer and for
\* what it was told
LEMMA Built ==
  ASSUME Previews, NEW d \in Dialogs, NEW r \in Dialog,
         r.st = dlg[d].st, r.work = dlg[d].work, r.src = dlg[d].src,
         r.tried = dlg[d].tried, r.frames = dlg[d].frames, r.probing = dlg[d].probing,
         "ready" \in r.posted => "ready" \in dlg[d].posted, r.timer => dlg[d].timer,
         OnScreen(dlg[d]) \/ r.tried \/ r.frames,
         Becomes(d, Build(r)), UNCHANGED <<proxy, abandoned>>
  PROVE  Previews'
<1> DEFINE once == [r EXCEPT !.tried = TRUE, !.timer = FALSE]
           b == Build(r)
<1>1. b \in Dialog
  BY BuildIs
<1>2. ASSUME ~abandoned
      PROVE  /\ OnScreen(b) => OnScreen(dlg[d])
             /\ Sensible(b, proxy) /\ (b.work = "writing" <=> dlg[d].work = "writing")
  <2>1. Sensible(dlg[d], proxy)
    BY <1>2 DEF Previews, Attended
  <2>2. CASE r.frames \/ r.tried
    <3>1. b = r
      BY <2>2 DEF Build
    <3>2. OnScreen(r) <=> OnScreen(dlg[d])
      BY DEF OnScreen
    <3>3. ~OnScreen(r) => AtRest(r)
      BY <2>1, <2>2, <3>2 DEF Sensible, AtRest
    <3>4. Sensible(r, proxy)
      BY <2>1, <3>2, <3>3 DEF Sensible
    <3> QED
      BY <3>1, <3>2, <3>4
  <2>3. CASE ~(r.frames \/ r.tried)
    <3>1. OnScreen(dlg[d]) /\ r.work = "none" /\ proxy \in {"none", "whole"}
      BY <2>1, <2>3 DEF Sensible
    <3>2. once \in Dialog /\ once.st = r.st /\ once.work = "none" /\ once.src = r.src
          /\ once.posted = r.posted
      BY <3>1 DEF Dialog
    <3>3. b = IF Cached THEN UseProxy(once)
              ELSE IF video.ffmpeg
                   THEN [once EXCEPT !.work = "starting", !.cancel = @ \ {"transcode"}]
                   ELSE once
      BY <2>3 DEF Build
    <3>4. once.tried
      BY DEF Dialog
    <3> HIDE DEF once, b
    <3>5. /\ b.st = r.st /\ b.posted = r.posted /\ b.work # "writing"
          /\ (b.src = "proxy" => Cached \/ r.src = "proxy")
          /\ (b.work # "none" => b.tried /\ ~Cached)
      BY <3>2, <3>3, <3>4 DEF UseProxy, Dialog
    <3>6. OnScreen(b)
      BY <3>1, <3>5 DEF OnScreen
    <3>7. Sensible(b, proxy)
      BY <2>1, <3>1, <3>5, <3>6 DEF Sensible, Cached
    <3> QED
      BY <3>1, <3>5, <3>7
  <2> QED
    BY <2>2, <2>3
<1> HIDE DEF b
<1> QED
  BY <1>1, <1>2, OneDialog DEF Previews, b

LEMMA DialogIs ==
  ASSUME Previews, NEW d \in Dialogs
  PROVE  dlg[d] \in Dialog /\ (~abandoned => Sensible(dlg[d], proxy))
  BY DEF Previews, Attended

LEMMA WatchdogFires ==
  ASSUME Previews, NEW d \in Dialogs, Watchdog(d)
  PROVE  Previews'
<1> DEFINE r == [dlg[d] EXCEPT !.timer = FALSE]
<1>1. r \in Dialog /\ r.st = dlg[d].st /\ r.work = dlg[d].work /\ r.src = dlg[d].src
      /\ r.tried = dlg[d].tried /\ r.frames = dlg[d].frames /\ r.probing = dlg[d].probing
      /\ r.posted = dlg[d].posted /\ ~r.timer
  <2>1. dlg[d] \in Dialog
    BY DialogIs
  <2>2. r \in Dialog
    BY <2>1 DEF Dialog
  <2> QED
    BY <2>1, <2>2 DEF Dialog
<1>2. Becomes(d, Build(r)) /\ UNCHANGED <<proxy, abandoned>> /\ dlg[d].timer
  BY DEF Watchdog
<1> HIDE DEF r
<1>3. CASE ~abandoned
  <2>1. OnScreen(dlg[d])
    BY <1>2, <1>3, DialogIs DEF Sensible, AtRest
  <2> QED
    BY <1>1, <1>2, <2>1, Built
<1>4. CASE abandoned
  <2>1. Build(r) \in Dialog
    BY <1>1, BuildIs
  <2> QED
    BY <1>2, <1>4, <2>1, OneDialog DEF Previews
<1> QED
  BY <1>3, <1>4

LEMMA SignalHeard ==
  ASSUME Previews, NEW d \in Dialogs, NEW s \in Verdicts \cup {"ready", "failed"},
         HearSignal(d, s)
  PROVE  Previews'
<1> DEFINE r == [dlg[d] EXCEPT !.posted = @ \ {s}]
<1>1. r \in Dialog /\ r.st = dlg[d].st /\ r.work = dlg[d].work /\ r.src = dlg[d].src
      /\ r.tried = dlg[d].tried /\ r.frames = dlg[d].frames /\ r.probing = dlg[d].probing
      /\ r.posted = dlg[d].posted \ {s} /\ r.timer = dlg[d].timer
  BY DialogIs DEF Dialog
<1>2. UNCHANGED <<proxy, abandoned>> /\ s \in dlg[d].posted
      /\ Becomes(d, CASE s = "unsupported" -> Build(r)
                      [] s = "playable" -> [r EXCEPT !.playing = TRUE]
                      [] s = "ready" -> UseProxy(r)
                      [] s = "failed" -> r)
  BY DEF HearSignal
<1> HIDE DEF r
<1>3. CASE s = "unsupported"
  <2>1. Becomes(d, Build(r))
    BY <1>2, <1>3
  <2>2. CASE ~abandoned
    <3>1. OnScreen(dlg[d]) \/ r.tried \/ r.frames
      BY <1>1, <1>2, <1>3, <2>2, DialogIs DEF Sensible, AtRest
    <3>2. "ready" \in r.posted => "ready" \in dlg[d].posted
      BY <1>1
    <3> QED
      BY <1>1, <1>2, <2>1, <3>1, <3>2, Built
  <2>3. CASE abandoned
    <3>1. Build(r) \in Dialog
      BY <1>1, BuildIs
    <3> QED
      BY <1>2, <2>1, <2>3, <3>1, OneDialog DEF Previews
  <2> QED
    BY <2>2, <2>3
<1>4. CASE s # "unsupported"
  <2>1. PICK b \in Dialog :
          /\ Becomes(d, b) /\ b.st = r.st /\ b.work = r.work /\ b.tried = r.tried
          /\ b.frames = r.frames /\ b.probing = r.probing /\ b.posted = r.posted
          /\ b.timer = r.timer /\ (b.src = "proxy" => s = "ready" \/ r.src = "proxy")
    <3>1. CASE s = "playable"
      <4> DEFINE b == [r EXCEPT !.playing = TRUE]
      <4>1. /\ b \in Dialog /\ b.st = r.st /\ b.work = r.work /\ b.tried = r.tried
            /\ b.frames = r.frames /\ b.probing = r.probing /\ b.posted = r.posted
            /\ b.timer = r.timer /\ b.src = r.src
        BY <1>1 DEF Dialog
      <4>2. Becomes(d, b)
        BY <1>2, <3>1
      <4> HIDE DEF b
      <4> QED
        BY <4>1, <4>2
    <3>2. CASE s = "ready"
      <4> DEFINE b == UseProxy(r)
      <4>1. /\ b \in Dialog /\ b.st = r.st /\ b.work = r.work /\ b.tried = r.tried
            /\ b.frames = r.frames /\ b.probing = r.probing /\ b.posted = r.posted
            /\ b.timer = r.timer
        BY <1>1 DEF Dialog, UseProxy
      <4>2. Becomes(d, b)
        BY <1>2, <3>2
      <4> HIDE DEF b
      <4> QED
        BY <3>2, <4>1, <4>2
    <3>3. CASE s = "failed"
      BY <1>1, <1>2, <3>3
    <3> QED
      BY <1>4, <3>1, <3>2, <3>3 DEF Verdicts
  <2>2. ASSUME ~abandoned
        PROVE  Sensible(b, proxy) /\ (OnScreen(b) <=> OnScreen(dlg[d]))
    <3>1. Sensible(dlg[d], proxy)
      BY <2>2, DialogIs
    <3>2. OnScreen(b) <=> OnScreen(dlg[d])
      BY <1>1, <2>1 DEF OnScreen
    <3>3. ~OnScreen(b) => AtRest(b)
      BY <1>1, <2>1, <3>1, <3>2 DEF Sensible, AtRest
    <3> QED
      BY <1>1, <1>2, <2>1, <3>1, <3>2, <3>3 DEF Sensible
  <2> QED
    BY <1>1, <1>2, <2>1, <2>2, OneDialog DEF Previews
<1> QED
  BY <1>3, <1>4

\* A dialog that neither asks for the proxy nor works on it otherwise than before
LEMMA DialogGoesOn ==
  ASSUME Previews, NEW d \in Dialogs, NEW r \in Dialog, Becomes(d, r), UNCHANGED proxy,
         abandoned' \in BOOLEAN, abandoned => abandoned',
         r.work = dlg[d].work, r.src = dlg[d].src, r.tried = dlg[d].tried,
         "ready" \in r.posted => "ready" \in dlg[d].posted,
         OnScreen(r) => OnScreen(dlg[d]),
         ~abandoned' /\ ~OnScreen(r) => AtRest(r)
  PROVE  Previews'
<1>1. ASSUME ~abandoned' PROVE Sensible(r, proxy)
  <2>1. Sensible(dlg[d], proxy)
    BY <1>1, DialogIs
  <2> QED
    BY <1>1, <2>1 DEF Sensible
<1> QED
  BY <1>1, OneDialog

LEMMA DialogSteps ==
  ASSUME Previews, NEW d \in Dialogs,
         FrameShown(d) \/ Hide(d) \/ CloseEvent(d) \/ CloseDone(d) \/ ProbeDone(d)
  PROVE  Previews'
<1> DEFINE o == dlg[d]
<1>1. /\ o \in Dialog /\ abandoned \in BOOLEAN
      /\ (~abandoned /\ ~OnScreen(o) => AtRest(o))
  BY DialogIs DEF Previews, Sensible
<1>2. CASE FrameShown(d)
  <2> DEFINE r == [o EXCEPT !.frames = TRUE]
  <2>1. Becomes(d, r) /\ UNCHANGED <<proxy, abandoned>>
    BY <1>2 DEF FrameShown
  <2>2. /\ r \in Dialog /\ r.work = o.work /\ r.src = o.src /\ r.tried = o.tried
        /\ r.posted = o.posted /\ r.st = o.st /\ r.timer = o.timer
        /\ r.probing = o.probing /\ r.frames
    BY <1>1 DEF Dialog
  <2> HIDE DEF r
  <2>3. (OnScreen(r) <=> OnScreen(o)) /\ (AtRest(o) => AtRest(r))
    BY <2>2 DEF OnScreen, AtRest
  <2> QED
    BY <1>1, <2>1, <2>2, <2>3, DialogGoesOn
<1>3. CASE Hide(d) \/ CloseDone(d)
  <2>1. PICK st \in {"hidden", "closed"} :
          Becomes(d, [o EXCEPT !.st = st]) /\ UNCHANGED proxy
          /\ abandoned' = (abandoned \/ ~AtRest(o))
    BY <1>3 DEF Hide, CloseDone
  <2> DEFINE r == [o EXCEPT !.st = st]
  <2>2. /\ r \in Dialog /\ r.work = o.work /\ r.src = o.src /\ r.tried = o.tried
        /\ r.posted = o.posted /\ r.st = st /\ r.timer = o.timer
        /\ r.probing = o.probing /\ r.frames = o.frames
    BY <1>1 DEF Dialog
  <2>3. Becomes(d, r)
    BY <2>1
  <2> HIDE DEF r
  <2>4. ~OnScreen(r) /\ (AtRest(o) => AtRest(r))
    BY <2>2 DEF OnScreen, AtRest
  <2>5. abandoned' \in BOOLEAN /\ (abandoned => abandoned') /\ (~abandoned' => AtRest(o))
    BY <1>1, <2>1
  <2> QED
    BY <2>1, <2>2, <2>3, <2>4, <2>5, DialogGoesOn
<1>4. CASE CloseEvent(d)
  <2> DEFINE r == [o EXCEPT !.st = "closing", !.playing = FALSE, !.timer = FALSE,
                            !.cancel = {"check", "transcode"}]
  <2>1. Becomes(d, r) /\ UNCHANGED <<proxy, abandoned>> /\ OnScreen(o)
    BY <1>4 DEF CloseEvent, OnScreen
  <2>2. /\ r \in Dialog /\ r.work = o.work /\ r.src = o.src /\ r.tried = o.tried
        /\ r.posted = o.posted /\ r.st = "closing"
    BY <1>1 DEF Dialog
  <2> HIDE DEF r
  <2>3. OnScreen(r)
    BY <2>2 DEF OnScreen
  <2> QED
    BY <1>1, <2>1, <2>2, <2>3, DialogGoesOn
<1>5. CASE ProbeDone(d)
  <2>1. PICK s \in SUBSET Verdicts :
          Becomes(d, [o EXCEPT !.probing = FALSE, !.posted = @ \cup s])
    BY <1>5 DEF ProbeDone, Verdicts
  <2>2. o.probing /\ UNCHANGED <<proxy, abandoned>>
    BY <1>5 DEF ProbeDone
  <2> DEFINE r == [o EXCEPT !.probing = FALSE, !.posted = @ \cup s]
  <2>3. /\ r \in Dialog /\ r.work = o.work /\ r.src = o.src /\ r.tried = o.tried
        /\ r.posted = o.posted \cup s /\ r.st = o.st
    BY <1>1 DEF Dialog
  <2>4. Becomes(d, r)
    BY <2>1
  <2> HIDE DEF r
  <2>5. "ready" \in r.posted => "ready" \in o.posted
    BY <2>3 DEF Verdicts
  <2>6. (OnScreen(r) <=> OnScreen(o)) /\ (~abandoned => OnScreen(o))
    BY <1>1, <2>2, <2>3 DEF OnScreen, AtRest
  <2> QED
    BY <1>1, <2>2, <2>3, <2>4, <2>5, <2>6, DialogGoesOn
<1> QED
  BY <1>2, <1>3, <1>4, <1>5

\* Dialog d, alone at work, changes the file in the cache
LEMMA OneWorker ==
  ASSUME Previews, NEW d \in Dialogs, NEW r \in Dialog, Becomes(d, r), UNCHANGED abandoned,
         dlg[d].work # "none", r.st = dlg[d].st,
         ~abandoned => /\ Sensible(r, proxy')
                       /\ r.work # "writing" => proxy' \in {"none", "whole"}
  PROVE  Previews'
<1>1. dlg' \in [Dialogs -> Dialog] /\ \A e \in Dialogs : dlg'[e] = IF e = d THEN r ELSE dlg[e]
  BY DEF Becomes, Previews
<1>2. Attended'
  <2>1. SUFFICES ASSUME ~abandoned
                 PROVE  /\ \A c \in Dialogs, e \in Dialogs :
                               OnScreen(dlg'[c]) /\ OnScreen(dlg'[e]) => c = e
                        /\ \A e \in Dialogs : Sensible(dlg'[e], proxy')
                        /\ (\A e \in Dialogs : dlg'[e].work # "writing")
                              => proxy' \in {"none", "whole"}
    BY DEF Attended, OnScreen, Sensible, AtRest
  <2>2. Sensible(dlg[d], proxy) /\ OnScreen(dlg[d]) /\ proxy # "whole"
    BY <2>1, DialogIs DEF Sensible, AtRest
  <2>3. \A e \in Dialogs \ {d} :
          Sensible(dlg[e], proxy) /\ ~OnScreen(dlg[e]) /\ dlg[e].work = "none"
    BY <2>1, <2>2, OthersRest
  <2>4. \A e \in Dialogs \ {d} : Sensible(dlg[e], proxy')
    BY <2>2, <2>3 DEF Sensible
  <2>5. \A e \in Dialogs : Sensible(dlg'[e], proxy')
    BY <1>1, <2>1, <2>4
  <2>6. \A c \in Dialogs, e \in Dialogs : OnScreen(dlg'[c]) /\ OnScreen(dlg'[e]) => c = e
    BY <1>1, <2>3
  <2>7. (\A e \in Dialogs : dlg'[e].work # "writing") => proxy' \in {"none", "whole"}
    BY <1>1, <2>1
  <2> QED
    BY <2>5, <2>6, <2>7
<1> QED
  BY <1>1, <1>2 DEF Previews

LEMMA EncoderSteps ==
  ASSUME Previews, NEW d \in Dialogs, StartEncoder(d) \/ Encoded(d) \/ EncoderFails(d)
  PROVE  Previews'
<1> DEFINE o == dlg[d]
<1>1. o \in Dialog /\ o.work # "none" /\ UNCHANGED abandoned
  BY DialogIs DEF StartEncoder, Encoded, EncoderFails
<1>2. ASSUME ~abandoned
      PROVE  /\ OnScreen(o) /\ o.tried /\ o.src # "proxy" /\ "ready" \notin o.posted
             /\ (o.work = "writing" => proxy = "part")
             /\ \A e \in Dialogs \ {d} : dlg[e].work = "none"
  <2>1. Sensible(o, proxy)
    BY <1>2, DialogIs
  <2>2. OnScreen(o)
    BY <1>1, <2>1 DEF Sensible, AtRest
  <2> QED
    BY <1>1, <1>2, <2>1, <2>2, OthersRest DEF Sensible
<1>3. CASE StartEncoder(d)
  <2> DEFINE r == [o EXCEPT !.work = "writing"]
  <2>1. Becomes(d, r) /\ o.work = "starting"
        /\ proxy' = IF \E e \in Dialogs \ {d} : dlg[e].work = "writing" THEN "mixed" ELSE "part"
    BY <1>3 DEF StartEncoder
  <2>2. /\ r \in Dialog /\ r.work = "writing" /\ r.src = o.src /\ r.tried = o.tried
        /\ r.posted = o.posted /\ r.st = o.st
    BY <1>1 DEF Dialog
  <2> HIDE DEF r
  <2>3. ASSUME ~abandoned PROVE Sensible(r, proxy')
    <3>1. proxy' = "part"
      BY <1>2, <2>1, <2>3
    <3>2. OnScreen(r)
      BY <1>2, <2>2, <2>3 DEF OnScreen
    <3> QED
      BY <1>2, <2>2, <2>3, <3>1, <3>2 DEF Sensible
  <2> QED
    BY <1>1, <2>1, <2>2, <2>3, OneWorker
<1>4. CASE Encoded(d)
  <2> DEFINE r == [o EXCEPT !.work = "none",
                            !.posted = IF "transcode" \in o.cancel THEN @ ELSE @ \cup {"ready"}]
  <2>1. Becomes(d, r) /\ o.work = "writing" /\ proxy' = IF proxy = "part" THEN "whole" ELSE proxy
    BY <1>4 DEF Encoded
  <2>2. r \in Dialog /\ r.work = "none" /\ r.st = o.st
    BY <1>1 DEF Dialog
  <2> HIDE DEF r
  <2>3. ASSUME ~abandoned PROVE Sensible(r, proxy') /\ proxy' = "whole"
    <3>1. proxy' = "whole"
      BY <1>2, <2>1, <2>3
    <3>2. OnScreen(r)
      BY <1>2, <2>2, <2>3 DEF OnScreen
    <3> QED
      BY <2>2, <3>1, <3>2 DEF Sensible
  <2> QED
    BY <1>1, <2>1, <2>2, <2>3, OneWorker
<1>5. CASE EncoderFails(d)
  <2>1. proxy' = "none"
    BY <1>5 DEF EncoderFails, Remains
  <2>2. PICK r \in Dialog :
          /\ Becomes(d, r) /\ r.work # "writing" /\ r.st = o.st /\ r.src = o.src
          /\ r.tried = o.tried /\ ("ready" \in r.posted => "ready" \in o.posted)
    <3>1. CASE "transcode" \in o.cancel
      <4> DEFINE b == [o EXCEPT !.work = "none"]
      <4>1. Becomes(d, b)
        BY <1>5, <3>1 DEF EncoderFails
      <4>2. /\ b \in Dialog /\ b.work = "none" /\ b.st = o.st /\ b.src = o.src
            /\ b.tried = o.tried /\ b.posted = o.posted
        BY <1>1 DEF Dialog
      <4> HIDE DEF b
      <4> QED
        BY <4>1, <4>2
    <3>2. CASE "transcode" \notin o.cancel /\ o.encoder < Encoders
      <4> DEFINE b == [o EXCEPT !.work = "starting", !.encoder = @ + 1]
      <4>1. Becomes(d, b)
        BY <1>5, <3>2 DEF EncoderFails
      <4>2. o.encoder + 1 \in 1 .. Encoders
        BY <1>1, <3>2, PreviewAssumption DEF Dialog
      <4>3. /\ b \in Dialog /\ b.work = "starting" /\ b.st = o.st /\ b.src = o.src
            /\ b.tried = o.tried /\ b.posted = o.posted
        BY <1>1, <4>2 DEF Dialog
      <4> HIDE DEF b
      <4> QED
        BY <4>1, <4>3
    <3>3. CASE "transcode" \notin o.cancel /\ ~(o.encoder < Encoders)
      <4> DEFINE b == [o EXCEPT !.work = "none", !.posted = @ \cup {"failed"}]
      <4>1. Becomes(d, b)
        BY <1>5, <3>3 DEF EncoderFails
      <4>2. /\ b \in Dialog /\ b.work = "none" /\ b.st = o.st /\ b.src = o.src
            /\ b.tried = o.tried /\ b.posted = o.posted \cup {"failed"}
        BY <1>1 DEF Dialog
      <4> HIDE DEF b
      <4>3. "ready" \in b.posted => "ready" \in o.posted
        BY <4>2
      <4> QED
        BY <4>1, <4>2, <4>3
    <3> QED
      BY <3>1, <3>2, <3>3
  <2>3. ASSUME ~abandoned PROVE Sensible(r, proxy')
    <3>1. OnScreen(r)
      BY <1>2, <2>2, <2>3 DEF OnScreen
    <3> QED
      BY <1>2, <2>1, <2>2, <2>3, <3>1 DEF Sensible
  <2> QED
    BY <1>1, <2>1, <2>2, <2>3, OneWorker
<1> QED
  BY <1>3, <1>4, <1>5

LEMMA Restarted ==
  ASSUME Previews, Restart
  PROVE  Previews'
<1>1. dlg' \in [Dialogs -> Dialog] /\ \A d \in Dialogs : dlg'[d] = NoDialog
  BY NoDialogIs DEF Restart
<1>2. abandoned' = (abandoned \/ \E d \in Dialogs : dlg[d].work # "none") /\ proxy' = proxy
  BY DEF Restart
<1>3. ASSUME ~abandoned'
      PROVE  Sensible(NoDialog, proxy) /\ proxy \in {"none", "whole"}
  <2>1. proxy \in {"none", "whole"}
    BY <1>2, <1>3 DEF Previews, Attended
  <2> QED
    BY <2>1, NoDialogIs DEF Sensible, NoDialog
<1>4. abandoned' \in BOOLEAN
  BY <1>2 DEF Previews
<1>5. Attended'
  <2>1. SUFFICES ASSUME ~abandoned'
                 PROVE  /\ \A c \in Dialogs, e \in Dialogs :
                               OnScreen(dlg'[c]) /\ OnScreen(dlg'[e]) => c = e
                        /\ \A e \in Dialogs : Sensible(dlg'[e], proxy')
                        /\ proxy' \in {"none", "whole"}
    BY DEF Attended, OnScreen, Sensible, AtRest
  <2> QED
    BY <1>1, <1>2, <1>3, <2>1, NoDialogIs
<1> QED
  BY <1>1, <1>4, <1>5 DEF Previews

LEMMA PreviewsStep == Previews /\ [PreviewNext]_prevVars => Previews'
<1> SUFFICES ASSUME Previews, [PreviewNext]_prevVars PROVE Previews'
  OBVIOUS
<1>1. CASE UNCHANGED prevVars
  BY <1>1 DEF prevVars, Previews, Attended, Sensible, OnScreen, AtRest
<1> QED
  BY <1>1, DialogOpened, WatchdogFires, SignalHeard, DialogSteps, EncoderSteps, Restarted
  DEF PreviewNext

\* The proxy a dialog plays is whole, whichever encoder failed before and whether a dialog
\* that was closed made it, as long as none and no process was left before its transcode
\* had ended (ui/dialogs/preview.py, _maybe_build_proxy; media/ffmpeg.py,
\* create_preview_proxy).
THEOREM ProxyCorrect == PreviewSpec => []ProxyPlayedWhole
<1>1. Previews => ProxyPlayedWhole
  BY DEF Previews, Attended, Sensible, ProxyPlayedWhole
<1> QED
  BY PreviewsInit, PreviewsStep, <1>1, PTL DEF PreviewSpec

-----------------------------------------------------------------------------
(* The torrent session                                                     *)

Handler == [ph : {"off", "adding", "added", "polling", "popped"}, paused : BOOLEAN,
            owed : -1 .. MaxPieces]
Alone(t) == \A d \in Torrents \ {t} : hashOf[d] # hashOf[t]

SessionTyped ==
    /\ hashOf \in [Torrents -> Hashes] /\ have \in [Hashes -> 0 .. MaxPieces]
    /\ idOf \in [Hashes -> Torrents \cup {None}]
    /\ alerts \in Queue /\ popped \in [Torrents -> Queue]
    /\ hnd \in [Torrents -> Handler]

\* A handler that has stored what it popped has nothing left of it
NothingLeft == \A t \in Torrents : hnd[t].ph # "popped" => popped[t] = NoAlerts
\* What is owed to a paused download is no more than it has, and can reach its sidecar
Owing ==
    \A t \in Torrents : hnd[t].owed # -1 =>
      t \in handles /\ t \in registered /\ hnd[t].owed <= have[hashOf[t]]
Held == \A t \in Torrents : Alone(t) /\ t \in handles => idOf[hashOf[t]] = t
\* PauseFlushKept of one download
Awaits(t) ==
    Alone(t) =>
      \/ hashOf[t] \in requested \/ hnd[t].owed = -1
      \/ alerts[hashOf[t]] >= hnd[t].owed
      \/ \E d \in Torrents : popped[d][hashOf[t]] >= hnd[t].owed
Flushed == \A t \in Torrents : Awaits(t)

Session == SessionTyped /\ NothingLeft /\ Owing /\ Held /\ Flushed

LEMMA NoneIdle == Idle \in Handler /\ NoAlerts \in Queue /\ Idle.owed = -1 /\ Idle.ph = "off"
<1>1. -1 \in -1 .. MaxPieces
  BY SessionAssumption
<1> QED
  BY <1>1 DEF Idle, Handler, NoAlerts, Queue

LEMMA SessionFlushed == Session => PauseFlushKept
<1> SUFFICES ASSUME Session PROVE PauseFlushKept
  OBVIOUS
<1>1. \A d \in Torrents : popped[d] \in Range(popped)
  BY DEF Session, SessionTyped, Range
<1>2. ASSUME NEW t \in Torrents, Alone(t)
      PROVE  \/ hashOf[t] \in requested \/ hnd[t].owed = -1
             \/ \E q \in {alerts} \cup Range(popped) : q[hashOf[t]] >= hnd[t].owed
  <2>1. Awaits(t)
    BY DEF Session, Flushed
  <2> QED
    BY <1>1, <1>2, <2>1 DEF Awaits
<1> QED
  BY <1>2 DEF PauseFlushKept, Alone

LEMMA SessionBegins ==
  ASSUME hashOf' \in [Torrents -> Hashes], have' \in [Hashes -> 0 .. MaxPieces],
         handles' = {}, alerts' = NoAlerts, idOf' = [h \in Hashes |-> None],
         popped' = [t \in Torrents |-> NoAlerts], hnd' = [t \in Torrents |-> Idle]
  PROVE  Session'
<1>1. SessionTyped'
  BY NoneIdle DEF SessionTyped
<1>2. \A t \in Torrents : hnd'[t] = Idle /\ popped'[t] = NoAlerts
  OBVIOUS
<1>3. NothingLeft' /\ Owing' /\ Held' /\ Flushed'
  BY <1>2, NoneIdle DEF NothingLeft, Owing, Held, Flushed, Awaits
<1> QED
  BY <1>1, <1>3 DEF Session

LEMMA SessionInitially == SessionInit => Session
<1> SUFFICES ASSUME SessionInit PROVE Session
  OBVIOUS
<1>1. SessionTyped
  BY NoneIdle, SessionAssumption DEF SessionInit, SessionTyped
<1>2. \A t \in Torrents : hnd[t] = Idle /\ popped[t] = NoAlerts
  BY DEF SessionInit
<1>3. NothingLeft /\ Owing /\ Held /\ Flushed
  BY <1>2, NoneIdle DEF SessionInit, NothingLeft, Owing, Held, Flushed, Awaits
<1> QED
  BY <1>1, <1>3 DEF Session

\* Steps that leave the alerts where they are
LEMMA AlertsStay ==
  ASSUME Session, UNCHANGED <<hashOf, alerts, popped>>, requested \subseteq requested',
         have' \in [Hashes -> 0 .. MaxPieces], \A h \in Hashes : have[h] <= have'[h],
         idOf' \in [Hashes -> Torrents \cup {None}], hnd' \in [Torrents -> Handler],
         \A t \in Torrents : hnd'[t].ph # "popped" => hnd[t].ph # "popped",
         \A t \in Torrents : hnd'[t].owed # -1 =>
            \/ /\ hnd'[t].owed = hnd[t].owed
               /\ (t \in handles => t \in handles') /\ (t \in registered => t \in registered')
            \/ /\ hnd'[t].owed = have[hashOf[t]] /\ hashOf[t] \in requested'
               /\ t \in handles' /\ t \in registered',
         Held'
  PROVE  Session'
<1>1. SessionTyped'
  BY DEF Session, SessionTyped
<1>2. NothingLeft'
  BY DEF Session, NothingLeft
<1>3. Owing'
  <2>1. SUFFICES ASSUME NEW t \in Torrents, hnd'[t].owed # -1
                 PROVE  t \in handles' /\ t \in registered' /\ hnd'[t].owed <= have'[hashOf[t]]
    BY DEF Owing
  <2>2. /\ hashOf[t] \in Hashes /\ have[hashOf[t]] \in 0 .. MaxPieces
        /\ have'[hashOf[t]] \in 0 .. MaxPieces /\ have[hashOf[t]] <= have'[hashOf[t]]
        /\ hnd'[t].owed \in -1 .. MaxPieces
    BY DEF Session, SessionTyped, Handler
  <2>3. hnd'[t].owed <= have[hashOf[t]]
    <3>1. CASE hnd'[t].owed = hnd[t].owed
      BY <2>1, <3>1 DEF Session, Owing
    <3>2. CASE hnd'[t].owed = have[hashOf[t]]
      BY <2>2, <3>2, SessionAssumption
    <3> QED
      BY <2>1, <3>1, <3>2
  <2>4. t \in handles' /\ t \in registered'
    BY <2>1 DEF Session, Owing
  <2>5. hnd'[t].owed <= have'[hashOf[t]]
    BY <2>2, <2>3, SessionAssumption
  <2> QED
    BY <2>4, <2>5
<1>4. Flushed'
  <2>1. SUFFICES ASSUME NEW t \in Torrents PROVE Awaits(t)'
    BY DEF Flushed
  <2>2. Awaits(t)
    BY DEF Session, Flushed
  <2>3. Alone(t)' <=> Alone(t)
    BY DEF Alone
  <2> QED
    BY <2>2, <2>3 DEF Awaits
<1> QED
  BY <1>1, <1>2, <1>3, <1>4 DEF Session

\* The handler of one download
LEMMA HandlerIs ==
  ASSUME Session, NEW t \in Torrents
  PROVE  /\ hnd[t] \in Handler /\ hashOf[t] \in Hashes
         /\ have[hashOf[t]] \in 0 .. MaxPieces
  BY DEF Session, SessionTyped

LEMMA OneHandler ==
  ASSUME Session, NEW t \in Torrents, NEW r \in Handler, hnd' = [hnd EXCEPT ![t] = r],
         UNCHANGED <<hashOf, alerts, popped, have>>, requested \subseteq requested',
         idOf' \in [Hashes -> Torrents \cup {None}],
         hnd[t].ph # "popped" \/ r.ph = "popped",
         \A d \in Torrents \ {t} : (d \in handles => d \in handles')
                                   /\ (d \in registered => d \in registered'),
         r.owed # -1 =>
            \/ /\ r.owed = hnd[t].owed
               /\ (t \in handles => t \in handles') /\ (t \in registered => t \in registered')
            \/ /\ r.owed = have[hashOf[t]] /\ hashOf[t] \in requested'
               /\ t \in handles' /\ t \in registered',
         Held'
  PROVE  Session'
<1>1. hnd' \in [Torrents -> Handler] /\ \A d \in Torrents : hnd'[d] = IF d = t THEN r ELSE hnd[d]
  BY DEF Session, SessionTyped
<1>2. have' \in [Hashes -> 0 .. MaxPieces] /\ \A h \in Hashes : have[h] <= have'[h]
  BY SessionAssumption DEF Session, SessionTyped
<1>3. ASSUME NEW d \in Torrents
      PROVE  /\ hnd'[d].ph # "popped" => hnd[d].ph # "popped"
             /\ hnd'[d].owed # -1 =>
                 \/ /\ hnd'[d].owed = hnd[d].owed
                    /\ (d \in handles => d \in handles') /\ (d \in registered => d \in registered')
                 \/ /\ hnd'[d].owed = have[hashOf[d]] /\ hashOf[d] \in requested'
                    /\ d \in handles' /\ d \in registered'
  <2>1. CASE d = t
    BY <2>1, <1>1
  <2>2. CASE d # t
    BY <2>2, <1>1
  <2> QED
    BY <2>1, <2>2
<1> QED
  BY <1>1, <1>2, <1>3, AlertsStay

LEMMA HoldsStill ==
  ASSUME Session, UNCHANGED <<hashOf, handles, idOf>>
  PROVE  Held' /\ idOf' \in [Hashes -> Torrents \cup {None}]
  BY DEF Session, SessionTyped, Held, Alone

LEMMA Dropping ==
  ASSUME Session, NEW t \in Torrents, Drops(t), UNCHANGED hashOf
  PROVE  /\ Held' /\ idOf' \in [Hashes -> Torrents \cup {None}]
         /\ \A d \in Torrents \ {t} : (d \in handles => d \in handles')
                                     /\ (d \in registered => d \in registered')
<1>1. CASE t \notin handles
  BY <1>1, HoldsStill DEF Drops
<1>2. CASE t \in handles
  <2>1. /\ handles' = handles \ {t} /\ registered' = registered \ {t}
        /\ idOf' = [idOf EXCEPT ![hashOf[t]] = None]
    BY <1>2 DEF Drops
  <2>2. idOf' \in [Hashes -> Torrents \cup {None}]
    BY <2>1 DEF Session, SessionTyped
  <2>3. Held'
    <3>1. SUFFICES ASSUME NEW d \in Torrents, Alone(d), d \in handles'
                   PROVE  idOf'[hashOf[d]] = d
      BY DEF Held, Alone
    <3>2. d # t /\ hashOf[t] # hashOf[d] /\ idOf[hashOf[d]] = d
      BY <2>1, <3>1 DEF Session, Held, Alone
    <3> QED
      BY <2>1, <3>2 DEF Session, SessionTyped
  <2> QED
    BY <2>1, <2>2, <2>3
<1> QED
  BY <1>1, <1>2

LEMMA Holding ==
  ASSUME Session, NEW t \in Torrents, Holds(t), UNCHANGED hashOf
  PROVE  Held' /\ idOf' \in [Hashes -> Torrents \cup {None}] /\ handles \subseteq handles'
<1>1. handles' = handles \cup {t} /\ idOf' = [idOf EXCEPT ![hashOf[t]] = t]
  BY DEF Holds
<1>2. idOf' \in [Hashes -> Torrents \cup {None}]
  BY <1>1 DEF Session, SessionTyped
<1>3. Held'
  <2>1. SUFFICES ASSUME NEW d \in Torrents, Alone(d), d \in handles'
                 PROVE  idOf'[hashOf[d]] = d
    BY DEF Held, Alone
  <2>2. CASE d = t
    BY <1>1, <2>2 DEF Session, SessionTyped
  <2>3. CASE d # t
    <3>1. hashOf[t] # hashOf[d] /\ idOf[hashOf[d]] = d
      BY <1>1, <2>1, <2>3 DEF Session, Held, Alone
    <3> QED
      BY <1>1, <3>1 DEF Session, SessionTyped
  <2> QED
    BY <2>2, <2>3
<1> QED
  BY <1>1, <1>2, <1>3

LEMMA HandlerSteps ==
  ASSUME Session, NEW t \in Torrents,
         Start(t) \/ Add(t) \/ Register(t) \/ Stops(t) \/ Ends(t) \/ AskAgain(t)
  PROVE  Session'
<1> DEFINE o == hnd[t]
<1>1. o \in Handler
  BY HandlerIs
<1>2. CASE Start(t)
  <2> DEFINE r == [Idle EXCEPT !.ph = "adding"]
  <2>1. r \in Handler /\ r.owed = -1 /\ r.ph = "adding"
    BY NoneIdle DEF Idle, Handler
  <2>2. /\ hnd' = [hnd EXCEPT ![t] = r] /\ o.ph = "off"
        /\ UNCHANGED <<hashOf, have, handles, idOf, registered, requested, alerts, popped>>
    BY <1>2 DEF Start
  <2> HIDE DEF r
  <2> QED
    BY <2>1, <2>2, HoldsStill, OneHandler
<1>3. CASE Add(t)
  <2>1. o.ph = "adding" /\ UNCHANGED <<hashOf, have, registered, requested, alerts, popped>>
    BY <1>3 DEF Add
  <2>2. CASE Holds(t) /\ hnd' = [hnd EXCEPT ![t].ph = "added"]
    <3> DEFINE r == [o EXCEPT !.ph = "added"]
    <3>1. r \in Handler /\ r.owed = o.owed /\ hnd' = [hnd EXCEPT ![t] = r]
      BY <1>1, <2>2 DEF Handler
    <3> HIDE DEF r
    <3>2. Held' /\ idOf' \in [Hashes -> Torrents \cup {None}] /\ handles \subseteq handles'
      BY <2>1, <2>2, Holding
    <3> QED
      BY <2>1, <3>1, <3>2, OneHandler
  <2>3. CASE UNCHANGED <<handles, idOf>> /\ hnd' = [hnd EXCEPT ![t] = Idle]
    BY <2>1, <2>3, NoneIdle, HoldsStill, OneHandler
  <2> QED
    BY <1>3, <2>2, <2>3 DEF Add
<1>4. CASE Register(t)
  <2> DEFINE r == [o EXCEPT !.ph = "polling"]
  <2>1. r \in Handler /\ r.owed = o.owed
    BY <1>1 DEF Handler
  <2>2. /\ hnd' = [hnd EXCEPT ![t] = r] /\ o.ph = "added" /\ registered' = registered \cup {t}
        /\ UNCHANGED <<hashOf, have, handles, idOf, requested, alerts, popped>>
    BY <1>4 DEF Register
  <2> HIDE DEF r
  <2> QED
    BY <2>1, <2>2, HoldsStill, OneHandler
<1>5. CASE Stops(t)
  <2>1. /\ hnd' = [hnd EXCEPT ![t] = Idle] /\ o.ph = "polling" /\ Drops(t)
        /\ requested \subseteq requested' /\ UNCHANGED <<hashOf, have, alerts, popped>>
    BY <1>5 DEF Stops, Asks
  <2> QED
    BY <2>1, NoneIdle, Dropping, OneHandler
<1>6. CASE Ends(t)
  <2>1. /\ hnd' = [hnd EXCEPT ![t] = Idle] /\ o.ph = "polling"
        /\ UNCHANGED <<hashOf, have, handles, idOf, registered, requested, alerts, popped>>
    BY <1>6 DEF Ends
  <2> QED
    BY <2>1, NoneIdle, HoldsStill, OneHandler
<1>7. CASE AskAgain(t)
  <2>1. /\ requested \subseteq requested'
        /\ UNCHANGED <<hashOf, have, handles, idOf, registered, alerts, popped, hnd>>
    BY <1>7 DEF AskAgain, Asks
  <2>2. hnd' = [hnd EXCEPT ![t] = o]
    BY <2>1 DEF Session, SessionTyped
  <2> QED
    BY <1>1, <2>1, <2>2, HoldsStill, OneHandler
<1> QED
  BY <1>2, <1>3, <1>4, <1>5, <1>6, <1>7

LEMMA PauseSteps ==
  ASSUME Session, NEW t \in Torrents, Pause(t) \/ Resume(t) PROVE Session'
<1> DEFINE o == hnd[t]
<1>1. o \in Handler /\ hashOf[t] \in Hashes /\ have[hashOf[t]] \in 0 .. MaxPieces
  BY HandlerIs
<1>2. -1 \in -1 .. MaxPieces /\ have[hashOf[t]] \in -1 .. MaxPieces
  BY <1>1, SessionAssumption
<1>3. CASE Pause(t)
  <2> DEFINE w == IF t \in registered /\ t \in handles THEN have[hashOf[t]] ELSE -1
  <2> DEFINE r == [o EXCEPT !.paused = TRUE, !.owed = w]
  <2>1. w \in -1 .. MaxPieces
    BY <1>2
  <2>2. /\ Asks({t}) /\ hnd' = [hnd EXCEPT ![t] = r]
        /\ UNCHANGED <<hashOf, have, handles, idOf, registered, alerts, popped>>
    BY <1>3 DEF Pause
  <2>3. /\ requested \subseteq requested'
        /\ (t \in handles => hashOf[t] \in requested')
    BY <2>2 DEF Asks
  <2>4. w # -1 => t \in registered /\ t \in handles /\ w = have[hashOf[t]]
    OBVIOUS
  <2> HIDE DEF w
  <2>5. r \in Handler /\ r.owed = w /\ r.ph = o.ph
    BY <1>1, <2>1 DEF Handler
  <2> HIDE DEF r
  <2> QED
    BY <2>2, <2>3, <2>4, <2>5, HoldsStill, OneHandler
<1>4. CASE Resume(t)
  <2> DEFINE r == [o EXCEPT !.paused = FALSE, !.owed = -1]
  <2>1. r \in Handler /\ r.owed = -1 /\ r.ph = o.ph
    BY <1>1, <1>2 DEF Handler
  <2>2. /\ hnd' = [hnd EXCEPT ![t] = r]
        /\ UNCHANGED <<hashOf, have, handles, idOf, registered, requested, alerts, popped>>
    BY <1>4 DEF Resume
  <2> HIDE DEF r
  <2> QED
    BY <2>1, <2>2, HoldsStill, OneHandler
<1> QED
  BY <1>3, <1>4

\* A piece more on disk, or everyone asked at the end
LEMMA QuietSteps ==
  ASSUME Session, (\E h \in Hashes : Piece(h)) \/ BeginShutdown PROVE Session'
<1>1. CASE \E h \in Hashes : Piece(h)
  <2>1. PICK h \in Hashes : Piece(h)
    BY <1>1
  <2>2. /\ have' = [have EXCEPT ![h] = @ + 1] /\ have[h] < MaxPieces
        /\ UNCHANGED <<hashOf, handles, idOf, registered, requested, alerts, popped, hnd>>
    BY <2>1 DEF Piece
  <2>3. have \in [Hashes -> 0 .. MaxPieces] /\ hnd \in [Torrents -> Handler]
    BY DEF Session, SessionTyped
  <2>4. have' \in [Hashes -> 0 .. MaxPieces] /\ \A g \in Hashes : have[g] <= have'[g]
    BY <2>2, <2>3, SessionAssumption
  <2> QED
    BY <2>2, <2>3, <2>4, HoldsStill, AlertsStay
<1>2. CASE BeginShutdown
  <2>1. /\ requested \subseteq requested'
        /\ UNCHANGED <<hashOf, have, handles, idOf, registered, alerts, popped, hnd>>
    BY <1>2 DEF BeginShutdown, Asks
  <2>2. have \in [Hashes -> 0 .. MaxPieces] /\ hnd \in [Torrents -> Handler]
    BY DEF Session, SessionTyped
  <2>3. have' \in [Hashes -> 0 .. MaxPieces] /\ \A g \in Hashes : have[g] <= have'[g]
    BY <2>1, <2>2, SessionAssumption
  <2> QED
    BY <2>1, <2>2, <2>3, HoldsStill, AlertsStay
<1> QED
  BY <1>1, <1>2

LEMMA Answering ==
  ASSUME Session, NEW h \in Hashes, Answer(h) PROVE Session'
<1>1. /\ requested' = requested \ {h}
      /\ UNCHANGED <<hashOf, have, handles, idOf, registered, popped, hnd>>
      /\ alerts' = IF InSession(h) THEN [alerts EXCEPT ![h] = have[h]] ELSE alerts
  BY DEF Answer
<1>2. alerts \in Queue /\ have \in [Hashes -> 0 .. MaxPieces]
  BY DEF Session, SessionTyped
<1>3. have[h] \in -1 .. MaxPieces
  BY <1>2, SessionAssumption
<1>4. alerts' \in Queue
  BY <1>1, <1>2, <1>3 DEF Queue
<1>5. SessionTyped' /\ NothingLeft' /\ Owing' /\ Held'
  BY <1>1, <1>4 DEF Session, SessionTyped, NothingLeft, Owing, Held, Alone
<1>6. Flushed'
  <2>1. SUFFICES ASSUME NEW t \in Torrents, Alone(t), hnd[t].owed # -1
                 PROVE  \/ hashOf[t] \in requested' \/ alerts'[hashOf[t]] >= hnd[t].owed
                        \/ \E d \in Torrents : popped[d][hashOf[t]] >= hnd[t].owed
    BY <1>1 DEF Flushed, Awaits, Alone
  <2>2. Awaits(t) /\ t \in handles /\ hnd[t].owed <= have[hashOf[t]]
    BY <2>1 DEF Session, Flushed, Owing
  <2>3. CASE hashOf[t] = h
    <3>1. alerts'[h] = have[h]
      BY <1>1, <1>2, <2>2, <2>3 DEF InSession, Queue
    <3>2. hnd[t].owed \in -1 .. MaxPieces /\ have[h] \in 0 .. MaxPieces
      BY <1>2, HandlerIs DEF Handler
    <3> QED
      BY <2>2, <2>3, <3>1, <3>2, SessionAssumption
  <2>4. CASE hashOf[t] # h
    <3>1. alerts'[hashOf[t]] = alerts[hashOf[t]] /\ (hashOf[t] \in requested => hashOf[t] \in requested')
      BY <1>1, <1>2, <2>4, HandlerIs DEF Queue
    <3> QED
      BY <2>1, <2>2, <3>1 DEF Awaits
  <2> QED
    BY <2>3, <2>4
<1> QED
  BY <1>5, <1>6 DEF Session

LEMMA Popping ==
  ASSUME Session, NEW t \in Torrents, Pop(t) PROVE Session'
<1>1. /\ hnd[t].ph = "polling" /\ popped' = [popped EXCEPT ![t] = alerts] /\ alerts' = NoAlerts
      /\ hnd' = [hnd EXCEPT ![t].ph = "popped"]
      /\ UNCHANGED <<hashOf, have, handles, idOf, registered, requested>>
  BY DEF Pop
<1>2. alerts \in Queue /\ popped \in [Torrents -> Queue] /\ hnd \in [Torrents -> Handler]
  BY DEF Session, SessionTyped
<1>3. hnd' \in [Torrents -> Handler]
  BY <1>1, <1>2 DEF Handler
<1>4. \A d \in Torrents :
        /\ hnd'[d].owed = hnd[d].owed
        /\ d # t => hnd'[d] = hnd[d] /\ popped'[d] = popped[d]
        /\ d = t => hnd'[d].ph = "popped" /\ popped'[d] = alerts
  BY <1>1, <1>2 DEF Handler
<1>5. popped' \in [Torrents -> Queue] /\ alerts' \in Queue
  BY <1>1, <1>2, NoneIdle
<1>6. SessionTyped'
  BY <1>1, <1>3, <1>5 DEF Session, SessionTyped
<1>7. NothingLeft' /\ Owing' /\ Held'
  BY <1>1, <1>4 DEF Session, NothingLeft, Owing, Held, Alone
<1>8. Flushed'
  <2>1. SUFFICES ASSUME NEW d \in Torrents, Alone(d), hnd[d].owed # -1
                 PROVE  \/ hashOf[d] \in requested
                        \/ \E g \in Torrents : popped'[g][hashOf[d]] >= hnd[d].owed
    BY <1>1, <1>4 DEF Flushed, Awaits, Alone
  <2>2. Awaits(d) /\ popped[t] = NoAlerts
    BY <1>1 DEF Session, Flushed, NothingLeft
  <2>3. hashOf[d] \in Hashes /\ hnd[d].owed \in -1 .. MaxPieces
    BY HandlerIs DEF Handler
  <2>4. CASE alerts[hashOf[d]] >= hnd[d].owed
    BY <1>4, <2>4
  <2>5. ASSUME NEW g \in Torrents, popped[g][hashOf[d]] >= hnd[d].owed
        PROVE  \E k \in Torrents : popped'[k][hashOf[d]] >= hnd[d].owed
    <3>1. g # t
      <4>1. CASE g = t
        <5>1. popped[g][hashOf[d]] = -1
          BY <2>2, <2>3, <4>1 DEF NoAlerts
        <5> QED
          BY <2>1, <2>3, <2>5, <5>1, SessionAssumption
      <4> QED
        BY <4>1
    <3> QED
      BY <1>4, <2>5, <3>1
  <2> QED
    BY <2>1, <2>2, <2>4, <2>5 DEF Awaits
<1> QED
  BY <1>6, <1>7, <1>8 DEF Session

\* A drain is stored: whoever's resume data it held is owed nothing any more
LEMMA Capturing ==
  ASSUME Session, NEW q \in Queue, NEW g \in [Torrents -> Handler], Captures(q, g),
         \A d \in Torrents : g[d].owed = hnd[d].owed,
         UNCHANGED <<hashOf, have, handles, idOf, registered, requested>>
  PROVE  /\ hnd' \in [Torrents -> Handler] /\ Owing' /\ Held'
         /\ \A d \in Torrents :
              /\ hnd'[d].ph = g[d].ph /\ (hnd'[d].owed = -1 \/ hnd'[d].owed = hnd[d].owed)
              /\ Alone(d) /\ q[hashOf[d]] >= hnd[d].owed => hnd'[d].owed = -1
<1>1. ASSUME NEW d \in Torrents
      PROVE  /\ hnd'[d] \in Handler
             /\ hnd'[d].ph = g[d].ph /\ (hnd'[d].owed = -1 \/ hnd'[d].owed = hnd[d].owed)
             /\ Alone(d) /\ q[hashOf[d]] >= hnd[d].owed => hnd'[d].owed = -1
  <2>1. g[d] \in Handler /\ -1 \in -1 .. MaxPieces
    BY SessionAssumption
  <2>2. /\ [g[d] EXCEPT !.owed = -1] \in Handler /\ [g[d] EXCEPT !.owed = -1].ph = g[d].ph
        /\ [g[d] EXCEPT !.owed = -1].owed = -1
    BY <2>1 DEF Handler
  <2>3. hnd'[d] = IF Written(q)[d] >= g[d].owed THEN [g[d] EXCEPT !.owed = -1] ELSE g[d]
    BY DEF Captures
  <2>4. hnd'[d] \in Handler /\ hnd'[d].ph = g[d].ph /\ (hnd'[d].owed = -1 \/ hnd'[d].owed = hnd[d].owed)
    <3>1. CASE hnd'[d] = [g[d] EXCEPT !.owed = -1]
      BY <2>2, <3>1
    <3>2. CASE hnd'[d] = g[d]
      BY <2>1, <3>2
    <3> QED
      BY <2>3, <3>1, <3>2
  <2>5. ASSUME Alone(d), q[hashOf[d]] >= hnd[d].owed PROVE hnd'[d].owed = -1
    <3>1. CASE hnd[d].owed = -1
      BY <2>4, <3>1
    <3>2. CASE hnd[d].owed # -1
      <4>1. d \in handles /\ d \in registered
        BY <3>2 DEF Session, Owing
      <4>2. idOf[hashOf[d]] = d
        BY <2>5, <4>1 DEF Session, Held
      <4>3. Written(q)[d] = q[hashOf[d]]
        BY <4>1, <4>2 DEF Written
      <4>4. hnd'[d] = [g[d] EXCEPT !.owed = -1]
        BY <2>3, <2>5, <4>3
      <4> QED
        BY <2>2, <4>4
    <3> QED
      BY <3>1, <3>2
  <2> QED
    BY <2>4, <2>5
<1>2. hnd' = [d \in Torrents |-> hnd'[d]]
  BY DEF Captures
<1>3. hnd' \in [Torrents -> Handler]
  BY <1>1, <1>2
<1>4. Owing'
  BY <1>1 DEF Session, Owing
<1>5. Held'
  BY HoldsStill
<1> QED
  BY <1>1, <1>3, <1>4, <1>5

LEMMA Storing ==
  ASSUME Session, NEW t \in Torrents, Store(t) PROVE Session'
<1> DEFINE g == [hnd EXCEPT ![t].ph = "polling"]
<1>1. /\ Captures(popped[t], g) /\ popped' = [popped EXCEPT ![t] = NoAlerts]
      /\ UNCHANGED <<hashOf, have, handles, idOf, registered, requested, alerts>>
  BY DEF Store, Stored
<1>2. popped \in [Torrents -> Queue] /\ hnd \in [Torrents -> Handler] /\ popped[t] \in Queue
  BY DEF Session, SessionTyped
<1>3. /\ g \in [Torrents -> Handler]
      /\ \A d \in Torrents : g[d].owed = hnd[d].owed /\ (d # t => g[d] = hnd[d])
  BY <1>2 DEF Handler
<1> HIDE DEF g
<1>4. /\ hnd' \in [Torrents -> Handler] /\ Owing' /\ Held'
      /\ \A d \in Torrents :
           /\ hnd'[d].ph = g[d].ph /\ (hnd'[d].owed = -1 \/ hnd'[d].owed = hnd[d].owed)
           /\ Alone(d) /\ popped[t][hashOf[d]] >= hnd[d].owed => hnd'[d].owed = -1
  BY <1>1, <1>2, <1>3, Capturing
<1>5. /\ popped' \in [Torrents -> Queue] /\ popped'[t] = NoAlerts
      /\ \A d \in Torrents : d # t => popped'[d] = popped[d]
  BY <1>1, <1>2, NoneIdle
<1>6. SessionTyped'
  BY <1>1, <1>4, <1>5 DEF Session, SessionTyped
<1>7. NothingLeft'
  BY <1>3, <1>4, <1>5 DEF Session, NothingLeft
<1>8. Flushed'
  <2>1. SUFFICES ASSUME NEW d \in Torrents, Alone(d), hnd'[d].owed # -1
                 PROVE  \/ hashOf[d] \in requested \/ alerts[hashOf[d]] >= hnd'[d].owed
                        \/ \E k \in Torrents : popped'[k][hashOf[d]] >= hnd'[d].owed
    BY <1>1 DEF Flushed, Awaits, Alone
  <2>2. Awaits(d) /\ hnd'[d].owed = hnd[d].owed /\ ~(popped[t][hashOf[d]] >= hnd[d].owed)
    BY <1>4, <2>1 DEF Session, Flushed
  <2>3. ASSUME NEW k \in Torrents, popped[k][hashOf[d]] >= hnd[d].owed
        PROVE  popped'[k][hashOf[d]] >= hnd[d].owed
    <3>1. k # t
      BY <2>2, <2>3
    <3> QED
      BY <1>5, <2>3, <3>1
  <2> QED
    BY <2>1, <2>2, <2>3 DEF Awaits
<1> QED
  BY <1>4, <1>6, <1>7, <1>8 DEF Session

LEMMA Flushing ==
  ASSUME Session, FlushAlerts PROVE Session'
<1>1. /\ Captures(alerts, hnd) /\ alerts' = NoAlerts
      /\ UNCHANGED <<hashOf, have, handles, idOf, registered, requested, popped>>
  BY DEF FlushAlerts
<1>2. alerts \in Queue /\ hnd \in [Torrents -> Handler]
  BY DEF Session, SessionTyped
<1>3. /\ hnd' \in [Torrents -> Handler] /\ Owing' /\ Held'
      /\ \A d \in Torrents :
           /\ hnd'[d].ph = hnd[d].ph /\ (hnd'[d].owed = -1 \/ hnd'[d].owed = hnd[d].owed)
           /\ Alone(d) /\ alerts[hashOf[d]] >= hnd[d].owed => hnd'[d].owed = -1
  BY <1>1, <1>2, Capturing
<1>4. SessionTyped' /\ NothingLeft'
  BY <1>1, <1>3, NoneIdle DEF Session, SessionTyped, NothingLeft
<1>5. Flushed'
  <2>1. SUFFICES ASSUME NEW d \in Torrents, Alone(d), hnd'[d].owed # -1
                 PROVE  \/ hashOf[d] \in requested
                        \/ \E k \in Torrents : popped[k][hashOf[d]] >= hnd'[d].owed
    BY <1>1 DEF Flushed, Awaits, Alone
  <2>2. Awaits(d) /\ hnd'[d].owed = hnd[d].owed /\ ~(alerts[hashOf[d]] >= hnd[d].owed)
    BY <1>3, <2>1 DEF Session, Flushed
  <2> QED
    BY <2>1, <2>2 DEF Awaits
<1> QED
  BY <1>3, <1>4, <1>5 DEF Session

LEMMA SessionStep == Session /\ [SessionNext]_sessVars => Session'
<1> SUFFICES ASSUME Session, [SessionNext]_sessVars PROVE Session'
  OBVIOUS
<1>1. CASE UNCHANGED sessVars
  BY <1>1 DEF sessVars, Session, SessionTyped, NothingLeft, Owing, Held, Flushed, Awaits, Alone
<1>2. CASE Relaunch
  <2>1. hashOf' \in [Torrents -> Hashes] /\ have' \in [Hashes -> 0 .. MaxPieces]
    BY <1>2 DEF Relaunch, Session, SessionTyped
  <2> QED
    BY <1>2, <2>1, SessionBegins DEF Relaunch
<1>3. CASE SessionNext /\ ~Relaunch
  BY <1>3, HandlerSteps, PauseSteps, QuietSteps, Answering, Popping, Storing, Flushing
  DEF SessionNext
<1> QED
  BY <1>1, <1>2, <1>3

\* The resume data a paused download is owed is never lost, although any handler of the
\* session may pop it and another store it (torrent/handler.py, pause and _process_alerts;
\* torrent/client.py, capture_resume_alert and shutdown).  The invariant needed says whose
\* sidecar an info hash leads to and that what is owed is no more than is on disk.
THEOREM FlushCorrect == SessionSpec => []PauseFlushKept
<1> QED
  BY SessionInitially, SessionStep, SessionFlushed, PTL DEF SessionSpec

-----------------------------------------------------------------------------
(* The Downloads page: finite sets of numbers and the lists made of them   *)

(* The least number of a set: the sets 1 .. n are well-founded.            *)
LEMMA Least ==
  ASSUME NEW T \in SUBSET Nat, T # {}
  PROVE  \E n \in T : \A k \in T : n <= k
<1> DEFINE U == {1 .. n : n \in T}
<1>1. U \subseteq FiniteSubsetsOf(Nat) /\ U # {}
  <2>1. \A n \in T : IsFiniteSet(1 .. n) /\ 1 .. n \in SUBSET Nat
    BY FS_Interval
  <2> QED
    BY <2>1 DEF FiniteSubsetsOf
<1>2. IsWellFoundedOn(StrictSubsetOrdering(Nat), FiniteSubsetsOf(Nat))
  BY FS_StrictSubsetOrderingWellFounded
<1>3. \E x \in U : \A y \in U : ~ (<<y, x>> \in StrictSubsetOrdering(Nat))
  <2> HIDE DEF U
  <2> QED
    BY ONLY <1>1, <1>2, WFMin, Zenon
<1>4. PICK n \in T : \A y \in U : ~ (<<y, 1 .. n>> \in StrictSubsetOrdering(Nat))
  BY <1>3
<1>5. ASSUME NEW k \in T, k < n PROVE FALSE
  <2>1. /\ 1 .. k \in U /\ 1 .. k \subseteq 1 .. n /\ 1 .. n \subseteq Nat
        /\ n \in 1 .. n /\ n \notin 1 .. k
    BY <1>5
  <2>2. <<1 .. k, 1 .. n>> \in StrictSubsetOrdering(Nat)
    BY <2>1 DEF StrictSubsetOrdering
  <2> QED
    BY <1>4, <2>1, <2>2
<1> QED
  BY <1>5

(* Whatever holds of 0 and is handed on holds of every number up to n.     *)
LEMMA Upward ==
  ASSUME NEW n \in Nat, NEW T, 0 \in T, \A k \in 1 .. n : k - 1 \in T => k \in T
  PROVE  \A k \in 0 .. n : k \in T
<1> DEFINE U == {k \in 0 .. n : k \notin T}
<1>1. SUFFICES ASSUME U # {} PROVE FALSE
  OBVIOUS
<1>2. PICK m \in U : \A k \in U : m <= k
  <2>1. U \in SUBSET Nat
    OBVIOUS
  <2> HIDE DEF U
  <2> QED
    BY <1>1, <2>1, Least
<1>3. m \in 1 .. n /\ m - 1 \in 0 .. n /\ ~(m <= m - 1)
  BY <1>2
<1>4. m - 1 \in T
  BY <1>2, <1>3
<1> QED
  BY <1>2, <1>3, <1>4

(* A finite set of numbers has a list of its members from the highest to   *)
(* the lowest: the k-th is the one that k of them do not fall short of.    *)
LEMMA NewestIs ==
  ASSUME NEW ids, ids \subseteq Nat, IsFiniteSet(ids)
  PROVE  /\ Cardinality(ids) \in Nat
         /\ Newest(ids) \in [1 .. Cardinality(ids) -> ids]
         /\ \A i \in ids : \E k \in 1 .. Cardinality(ids) : Newest(ids)[k] = i
         /\ \A j, k \in 1 .. Cardinality(ids) : Newest(ids)[j] = Newest(ids)[k] => j = k
<1> DEFINE n     == Cardinality(ids)
           up(i) == {j \in ids : j >= i}
           rank  == [i \in ids |-> Cardinality(up(i))]
<1>1. n \in Nat /\ \A i \in ids : i \in Nat
  BY FS_CardinalityType
<1>2. \A i \in ids : IsFiniteSet(up(i)) /\ rank[i] \in Nat /\ rank[i] <= n /\ rank[i] # 0
  <2> SUFFICES ASSUME NEW i \in ids
               PROVE  /\ IsFiniteSet(up(i)) /\ Cardinality(up(i)) \in Nat
                      /\ Cardinality(up(i)) <= n /\ Cardinality(up(i)) # 0
    OBVIOUS
  <2>1. IsFiniteSet(up(i)) /\ Cardinality(up(i)) <= n
    BY FS_Subset
  <2>2. i \in up(i)
    OBVIOUS
  <2> HIDE DEF up
  <2>3. Cardinality(up(i)) \in Nat
    BY <2>1, FS_CardinalityType
  <2>4. Cardinality(up(i)) # 0
    BY <2>1, <2>2, FS_EmptySet
  <2> QED
    BY <2>1, <2>3, <2>4
<1>3. ASSUME NEW i \in ids, NEW j \in ids, i < j PROVE rank[j] < rank[i]
  <2>1. up(j) \subseteq up(i) /\ i \in up(i) /\ i \notin up(j)
    <3>1. i \in Nat /\ j \in Nat
      BY <1>1
    <3>2. \A e \in ids : e >= j => e >= i
      BY <1>1, <1>3, <3>1
    <3>3. i >= i /\ ~(i >= j)
      BY <1>3, <3>1
    <3> QED
      BY <3>2, <3>3
  <2>2. up(j) # up(i)
    BY <2>1
  <2> HIDE DEF up
  <2>3. rank[i] = Cardinality(up(i)) /\ rank[j] = Cardinality(up(j))
    OBVIOUS
  <2>4. Cardinality(up(j)) <= Cardinality(up(i)) /\ Cardinality(up(j)) # Cardinality(up(i))
    BY <1>2, <2>1, <2>2, FS_Subset
  <2> HIDE DEF rank
  <2> QED
    BY <1>2, <2>3, <2>4
<1>4. rank \in [ids -> 1 .. n]
  <2>1. \A i \in ids : rank[i] \in 1 .. n
    BY <1>1, <1>2
  <2> QED
    BY <2>1
<1>5. rank \in Injection(ids, 1 .. n)
  <2> HIDE DEF rank
  <2>1. \A i, j \in ids : rank[i] = rank[j] => i = j
    <3> SUFFICES ASSUME NEW i \in ids, NEW j \in ids, i # j PROVE rank[i] # rank[j]
      OBVIOUS
    <3>1. i < j \/ j < i
      OBVIOUS
    <3>2. rank[i] \in Nat /\ rank[j] \in Nat
      BY <1>2
    <3> QED
      BY <1>3, <3>1, <3>2
  <2> QED
    BY <1>4, <2>1 DEF Injection, IsInjective
<1>6. rank \in Surjection(ids, 1 .. n)
  <2>1. IsFiniteSet(1 .. n) /\ Cardinality(1 .. n) = n
    BY <1>1, FS_Interval
  <2> HIDE DEF rank
  <2> QED
    BY <1>5, <2>1, FS_Injection
<1>7. \A k \in 1 .. n : \E i \in ids : rank[i] = k
  <2> HIDE DEF rank
  <2> QED
    BY <1>6 DEF Surjection
<1> DEFINE list == [k \in 1 .. n |-> CHOOSE i \in ids : rank[i] = k]
<1>8. \A k \in 1 .. n : list[k] \in ids /\ rank[list[k]] = k
  <2> HIDE DEF rank, n
  <2> QED
    BY <1>7
<1>9. list \in [1 .. n -> ids] /\ DOMAIN list = 1 .. n
  BY <1>8
<1>10. \A j, k \in 1 .. n : j < k => list[j] > list[k]
  <2> HIDE DEF rank, list, n
  <2> SUFFICES ASSUME NEW j \in 1 .. n, NEW k \in 1 .. n, j < k PROVE list[j] > list[k]
    OBVIOUS
  <2>1. list[j] \in ids /\ list[k] \in ids /\ rank[list[j]] = j /\ rank[list[k]] = k
    BY <1>8
  <2>2. ~(k < j) /\ list[j] \in Nat /\ list[k] \in Nat
    <3>1. ~(k < j)
      BY <1>1
    <3> HIDE DEF up
    <3> QED
      BY <1>1, <2>1, <3>1, Zenon
  <2>3. list[j] < list[k] => k < j
    <3> HIDE DEF up
    <3> QED
      BY <1>3, <2>1
  <2>4. list[j] # list[k]
    BY <1>1, <2>1
  <2> QED
    BY <2>2, <2>3, <2>4
<1> DEFINE new == Newest(ids)
<1>11. new \in [1 .. n -> ids] /\ \A j, k \in DOMAIN new : j < k => new[j] > new[k]
  <2> HIDE DEF list
  <2>1. \E s \in [1 .. n -> ids] : \A j, k \in DOMAIN s : j < k => s[j] > s[k]
    BY <1>9, <1>10
  <2> QED
    BY <2>1 DEF Newest
<1> HIDE DEF new, n, rank, list
<1>12. DOMAIN new = 1 .. n
  BY <1>11
<1>13. \A j, k \in 1 .. n : new[j] = new[k] => j = k
  <2> SUFFICES ASSUME NEW j \in 1 .. n, NEW k \in 1 .. n, j # k PROVE new[j] # new[k]
    OBVIOUS
  <2>1. (j < k \/ k < j) /\ new[j] \in Nat /\ new[k] \in Nat
    <3>1. new[j] \in ids /\ new[k] \in ids
      BY <1>11
    <3>2. j < k \/ k < j
      BY <1>1
    <3> QED
      BY <1>1, <3>1, <3>2, Zenon
  <2>2. /\ j < k => new[j] > new[k]
        /\ k < j => new[k] > new[j]
    BY <1>11, <1>12
  <2> QED
    BY <2>1, <2>2
<1>14. new \in Injection(1 .. n, ids)
  BY <1>11, <1>13 DEF Injection, IsInjective
<1>15. new \in Surjection(1 .. n, ids)
  <2>1. Cardinality(1 .. n) = Cardinality(ids)
    BY <1>1, FS_Interval DEF n
  <2> QED
    BY <1>14, <2>1, FS_Injection
<1>16. \A i \in ids : \E k \in 1 .. n : new[k] = i
  BY <1>15 DEF Surjection
<1> QED
  BY <1>1, <1>11, <1>13, <1>16 DEF new, n

-----------------------------------------------------------------------------
(* What the operations make of the page                                    *)

LEMMA RemoveAtIs ==
  ASSUME NEW S, NEW s \in Seq(S), NEW i \in 1 .. Len(s)
  PROVE  /\ RemoveAt(s, i) \in Seq(S) /\ Len(RemoveAt(s, i)) = Len(s) - 1
         /\ \A k \in 1 .. Len(s) - 1 : RemoveAt(s, i)[k] = IF k < i THEN s[k] ELSE s[k + 1]
<1> DEFINE before == SubSeq(s, 1, i - 1)
           after  == SubSeq(s, i + 1, Len(s))
<1>1. Len(s) \in Nat /\ i \in Int /\ 1 <= i /\ i <= Len(s)
  BY LenProperties
<1>2. \A j \in 1 .. Len(s) : s[j] \in S
  BY ElementOfSeq
<1>3. /\ before \in Seq(S) /\ Len(before) = i - 1
      /\ \A k \in 1 .. i - 1 : before[k] = s[k]
  <2>1. \A j \in 1 .. i - 1 : s[j] \in S
    BY <1>1, <1>2
  <2>2. /\ before \in Seq(S) /\ Len(before) = IF 1 <= i - 1 THEN (i - 1) - 1 + 1 ELSE 0
        /\ \A k \in 1 .. (i - 1) - 1 + 1 : before[k] = s[1 + k - 1]
    BY <1>1, <2>1, SubSeqProperties
  <2> HIDE DEF before
  <2>3. (IF 1 <= i - 1 THEN (i - 1) - 1 + 1 ELSE 0) = i - 1 /\ (i - 1) - 1 + 1 = i - 1
    BY <1>1
  <2>4. \A k \in 1 .. i - 1 : 1 + k - 1 = k
    OBVIOUS
  <2> QED
    BY <2>2, <2>3, <2>4
<1>4. /\ after \in Seq(S) /\ Len(after) = Len(s) - i
      /\ \A k \in 1 .. Len(s) - i : after[k] = s[i + k]
  <2>1. \A j \in i + 1 .. Len(s) : s[j] \in S
    BY <1>1, <1>2
  <2>2. /\ after \in Seq(S)
        /\ Len(after) = IF i + 1 <= Len(s) THEN Len(s) - (i + 1) + 1 ELSE 0
        /\ \A k \in 1 .. Len(s) - (i + 1) + 1 : after[k] = s[(i + 1) + k - 1]
    <3>1. i + 1 \in Int /\ Len(s) \in Int
      BY <1>1
    <3> QED
      BY <2>1, <3>1, SubSeqProperties
  <2> HIDE DEF after
  <2>3. /\ (IF i + 1 <= Len(s) THEN Len(s) - (i + 1) + 1 ELSE 0) = Len(s) - i
        /\ Len(s) - (i + 1) + 1 = Len(s) - i
    BY <1>1
  <2>4. \A k \in 1 .. Len(s) - i : (i + 1) + k - 1 = i + k
    BY <1>1
  <2> QED
    BY <2>2, <2>3, <2>4
<1>5. RemoveAt(s, i) = before \o after
  BY DEF RemoveAt
<1> HIDE DEF before, after
<1>6. /\ before \o after \in Seq(S) /\ Len(before \o after) = Len(before) + Len(after)
      /\ \A k \in 1 .. Len(before) + Len(after) :
           (before \o after)[k] = IF k <= Len(before) THEN before[k] ELSE after[k - Len(before)]
  BY <1>3, <1>4, ConcatProperties
<1>7. Len(before) + Len(after) = Len(s) - 1
  BY <1>1, <1>3, <1>4
<1>8. ASSUME NEW k \in 1 .. Len(s) - 1
      PROVE  (before \o after)[k] = IF k < i THEN s[k] ELSE s[k + 1]
  <2>1. CASE k < i
    <3>1. k <= Len(before) /\ k \in 1 .. i - 1
      BY <1>1, <1>3, <2>1
    <3> QED
      BY <1>3, <1>6, <1>7, <2>1, <3>1
  <2>2. CASE ~(k < i)
    <3>1. /\ ~(k <= Len(before)) /\ k - Len(before) \in 1 .. Len(s) - i
          /\ i + (k - Len(before)) = k + 1
      BY <1>1, <1>3, <2>2
    <3> QED
      BY <1>4, <1>6, <1>7, <2>2, <3>1
  <2> QED
    BY <2>1, <2>2
<1> QED
  BY <1>5, <1>6, <1>7, <1>8

PageRec == [table : Seq(Cell), ids : Seq(RowIds), rows : [RowIds -> Nat],
            empty : BOOLEAN, dirty : BOOLEAN]
Live == {s \in Snapshot : s.st # "none"}

\* The widget's rows, _ids and _rows tell the same story, and the placeholder is alone
Tidy(p) ==
  /\ p \in PageRec
  /\ p.empty => p.table = <<Placeholder>> /\ p.ids = <<>>
  /\ ~p.empty => /\ Len(p.table) = Len(p.ids)
                 /\ \A k \in 1 .. Len(p.ids) : p.table[k] \in Live /\ p.table[k].id = p.ids[k]
  /\ \A k \in 1 .. Len(p.ids) : p.rows[p.ids[k]] = k
  /\ \A i \in RowIds : p.rows[i] # 0 => p.rows[i] \in 1 .. Len(p.ids) /\ p.ids[p.rows[i]] = i

\* What the page says of a download, or ought to say when it gets a snapshot
Seen(p, i) == IF p.rows[i] = 0 THEN "none" ELSE p.table[p.rows[i]].st
Kept(s, f) == IF Matches(s, f) THEN s.st ELSE "none"
Says(p, q, id, v) == \A i \in RowIds : Seen(q, i) = IF i = id THEN v ELSE Seen(p, i)

LEMMA CellsAre == Live \subseteq Cell /\ Placeholder \in Cell /\ 0 \notin RowIds
                  /\ \A s \in Live : s.id \in RowIds /\ s.st \in {"active", "done"}
  BY PageAssumption DEF Live, Cell, Snapshot, Placeholder

LEMMA Lengths ==
  ASSUME NEW p \in PageRec
  PROVE  /\ Len(p.table) \in Nat /\ Len(p.ids) \in Nat
         /\ IsSeq(p.table) /\ IsSeq(p.ids)
         /\ p.table = <<>> <=> Len(p.table) = 0
         /\ p.ids = <<>> <=> Len(p.ids) = 0
<1>1. p.table \in Seq(Cell) /\ p.ids \in Seq(RowIds)
  BY DEF PageRec
<1>2. IsSeq(p.table) /\ IsSeq(p.ids)
  BY <1>1 DEF IsSeq
<1> QED
  BY <1>2, DomainOfSeq

(* The placeholder goes, if it is there.                                   *)
LEMMA Cleared ==
  ASSUME NEW p, Tidy(p)
  PROVE  LET q == ClearEmptyRow(p)
         IN  /\ Tidy(q) /\ ~q.empty /\ q.rows = p.rows /\ q.ids = p.ids
             /\ \A i \in RowIds : Seen(q, i) = Seen(p, i)
<1> DEFINE q == ClearEmptyRow(p)
<1>1. CASE ~p.empty
  BY <1>1 DEF ClearEmptyRow, Tidy
<1>2. CASE p.empty
  <2>1. p \in PageRec /\ p.table = <<Placeholder>> /\ p.ids = <<>> /\ Len(p.ids) = 0
    BY <1>2, EmptyIsSeq DEF Tidy
  <2>2. Tail(p.table) = <<>>
    <3>1. IsSeq(<<Placeholder>>) /\ Len(<<Placeholder>>) = 1 /\ <<Placeholder>> # <<>>
      <4>1. <<Placeholder>> \in Seq({Placeholder})
        OBVIOUS
      <4> QED
        BY <4>1 DEF IsSeq
    <3>2. IsSeq(Tail(p.table)) /\ Len(Tail(p.table)) = 0
      <4> DEFINE t == <<Placeholder>>
      <4>1. p.table = t /\ IsSeq(t) /\ Len(t) = 1 /\ t # <<>>
        BY <2>1, <3>1
      <4> HIDE DEF t
      <4>2. IsSeq(Tail(t)) /\ Len(Tail(t)) = Len(t) - 1
        BY <4>1, TailOfSeq
      <4> QED
        BY <4>1, <4>2
    <3> QED
      BY <3>2, DomainOfSeq
  <2>3. q = [p EXCEPT !.table = <<>>, !.empty = FALSE]
    BY <1>2, <2>2 DEF ClearEmptyRow
  <2>4. /\ q \in PageRec /\ q.table = <<>> /\ ~q.empty
        /\ q.rows = p.rows /\ q.ids = p.ids
    <3>1. <<>> \in Seq(Cell)
      BY EmptySeq
    <3> QED
      BY <2>1, <2>3, <3>1 DEF PageRec
  <2>5. \A i \in RowIds : p.rows[i] = 0
    <3>1. \A k : k \notin 1 .. 0
      OBVIOUS
    <3> QED
      BY <2>1, <3>1 DEF Tidy
  <2>6. Len(q.table) = 0 /\ Len(q.ids) = 0
    BY <2>1, <2>4, EmptyIsSeq
  <2> HIDE DEF q
  <2>7. Tidy(q)
    <3>1. \A k : k \notin 1 .. 0
      OBVIOUS
    <3> QED
      BY <2>4, <2>5, <2>6, <3>1 DEF Tidy
  <2>8. \A i \in RowIds : Seen(q, i) = Seen(p, i)
    BY <2>4, <2>5 DEF Seen
  <2> QED
    BY <2>4, <2>7, <2>8 DEF q
<1> QED
  BY <1>1, <1>2

(* The placeholder stands in an empty table, and nowhere else.             *)
LEMMA Settled ==
  ASSUME NEW p, Tidy(p)
  PROVE  LET q == UpdateEmptyState(p)
         IN  Tidy(q) /\ \A i \in RowIds : Seen(q, i) = Seen(p, i)
<1> DEFINE q == UpdateEmptyState(p)
<1>1. CASE p.table # <<>>
  BY <1>1, Cleared DEF UpdateEmptyState
<1>2. CASE p.table = <<>>
  <2>1. p \in PageRec /\ Len(p.table) = 0
    BY <1>2, EmptyIsSeq DEF Tidy
  <2>2. ~p.empty
    <3>1. <<Placeholder>> # <<>>
      OBVIOUS
    <3> QED
      BY <1>2, <3>1 DEF Tidy
  <2>3. p.ids = <<>> /\ Len(p.ids) = 0
    BY <2>1, <2>2, Lengths DEF Tidy
  <2>4. q = [p EXCEPT !.table = <<Placeholder>>, !.empty = TRUE]
    BY <1>2 DEF UpdateEmptyState
  <2>5. /\ q \in PageRec /\ q.table = <<Placeholder>> /\ q.empty
        /\ q.rows = p.rows /\ q.ids = p.ids
    <3>1. <<Placeholder>> \in Seq(Cell)
      BY CellsAre
    <3> QED
      BY <2>1, <2>4, <3>1 DEF PageRec
  <2>6. \A i \in RowIds : p.rows[i] = 0
    <3>1. \A k : k \notin 1 .. 0
      OBVIOUS
    <3> QED
      BY <2>3, <3>1 DEF Tidy
  <2> HIDE DEF q
  <2>7. Tidy(q)
    <3>1. \A k : k \notin 1 .. 0
      OBVIOUS
    <3> QED
      BY <2>3, <2>5, <2>6, <3>1 DEF Tidy
  <2>8. \A i \in RowIds : Seen(q, i) = Seen(p, i)
    BY <2>5, <2>6 DEF Seen
  <2> QED
    BY <2>7, <2>8 DEF q
<1> QED
  BY <1>1, <1>2

(* A row taken out leaves the others where their numbers say they are.     *)
LEMMA RowRemoved ==
  ASSUME NEW p, Tidy(p), NEW id \in RowIds
  PROVE  LET q == RemoveRow(p, id)
         IN  Tidy(q) /\ Says(p, q, id, "none") /\ q.empty = p.empty
<1> DEFINE q == RemoveRow(p, id)
           r == p.rows[id]
           n == Len(p.ids)
<1>1. /\ p \in PageRec /\ r \in Nat /\ n \in Nat
      /\ \A k \in 1 .. n : p.ids[k] \in RowIds /\ p.rows[p.ids[k]] = k
      /\ \A i \in RowIds : /\ p.rows[i] \in Nat
                           /\ p.rows[i] # 0 => p.rows[i] \in 1 .. n /\ p.ids[p.rows[i]] = i
  BY Lengths, ElementOfSeq DEF Tidy, PageRec
<1>2. CASE r = 0
  <2>1. q = [p EXCEPT !.dirty = TRUE]
    BY <1>2 DEF RemoveRow
  <2>2. /\ q \in PageRec /\ q.table = p.table /\ q.ids = p.ids /\ q.rows = p.rows
        /\ q.empty = p.empty
    <3> HIDE DEF q, r, n
    <3> QED
      BY <1>1, <2>1 DEF PageRec
  <2> HIDE DEF q
  <2>3. Tidy(q)
    BY <2>2 DEF Tidy
  <2>4. Says(p, q, id, "none")
    BY <1>2, <2>2 DEF Says, Seen
  <2> QED
    BY <2>2, <2>3, <2>4 DEF q
<1>3. CASE r # 0
  <2>1. r \in 1 .. n /\ p.ids[r] = id
    BY <1>1, <1>3
  <2>2. /\ ~p.empty /\ Len(p.table) = n
        /\ \A k \in 1 .. n : p.table[k] \in Live /\ p.table[k].id = p.ids[k]
    <3>1. p.ids # <<>>
      BY <1>1, <2>1, Lengths
    <3> QED
      BY <3>1 DEF Tidy
  <2>3. /\ RemoveAt(p.table, r) \in Seq(Cell) /\ Len(RemoveAt(p.table, r)) = n - 1
        /\ \A k \in 1 .. n - 1 :
             RemoveAt(p.table, r)[k] = IF k < r THEN p.table[k] ELSE p.table[k + 1]
    <3>1. p.table \in Seq(Cell) /\ r \in 1 .. Len(p.table)
      BY <1>1, <2>1, <2>2 DEF PageRec
    <3> HIDE DEF r, n
    <3> QED
      BY <2>2, <3>1, RemoveAtIs
  <2>4. /\ RemoveAt(p.ids, r) \in Seq(RowIds) /\ Len(RemoveAt(p.ids, r)) = n - 1
        /\ \A k \in 1 .. n - 1 : RemoveAt(p.ids, r)[k] = IF k < r THEN p.ids[k] ELSE p.ids[k + 1]
    <3>1. p.ids \in Seq(RowIds)
      BY <1>1 DEF PageRec
    <3> HIDE DEF r
    <3> QED
      BY <2>1, <3>1, RemoveAtIs
  <2> DEFINE fewer == [i \in RowIds |-> IF i = id THEN 0
                                        ELSE IF p.rows[i] > r THEN p.rows[i] - 1 ELSE p.rows[i]]
  <2>5. fewer \in [RowIds -> Nat]
    BY <1>1
  <2>6. q = [p EXCEPT !.dirty = TRUE, !.table = RemoveAt(p.table, r),
                      !.ids = RemoveAt(p.ids, r), !.rows = fewer]
    BY <1>1, <1>3 DEF RemoveRow, PageRec
  <2> HIDE DEF fewer
  <2>7. /\ q \in PageRec /\ q.table = RemoveAt(p.table, r) /\ q.ids = RemoveAt(p.ids, r)
        /\ q.rows = fewer /\ q.empty = p.empty
    <3> HIDE DEF r, n
    <3> QED
      BY <1>1, <2>3, <2>4, <2>5, <2>6 DEF PageRec
  <2>8. \A i \in RowIds : q.rows[i] = IF i = id THEN 0
                                      ELSE IF p.rows[i] > r THEN p.rows[i] - 1 ELSE p.rows[i]
    BY <2>7 DEF fewer
  <2> HIDE DEF q
  <2>9. /\ Len(q.table) = n - 1 /\ Len(q.ids) = n - 1
        /\ \A k \in 1 .. n - 1 : /\ q.table[k] = IF k < r THEN p.table[k] ELSE p.table[k + 1]
                                 /\ q.ids[k] = IF k < r THEN p.ids[k] ELSE p.ids[k + 1]
    BY <2>3, <2>4, <2>7
  <2> HIDE DEF n, r
  <2>10. ASSUME NEW k \in 1 .. n - 1
         PROVE  /\ q.table[k] \in Live /\ q.table[k].id = q.ids[k]
                /\ q.rows[q.ids[k]] = k
    <3>1. PICK m \in 1 .. n : m = IF k < r THEN k ELSE k + 1
      BY <1>1, <2>1
    <3>2. q.table[k] = p.table[m] /\ q.ids[k] = p.ids[m]
      BY <2>9, <3>1
    <3>3. m # r /\ p.ids[m] # id /\ (IF m > r THEN m - 1 ELSE m) = k
      BY <1>1, <2>1, <3>1
    <3> QED
      BY <1>1, <2>2, <2>8, <3>2, <3>3
  <2>11. ASSUME NEW i \in RowIds, i # id, p.rows[i] # 0
         PROVE  /\ q.rows[i] \in 1 .. n - 1 /\ q.ids[q.rows[i]] = i
                /\ q.table[q.rows[i]] = p.table[p.rows[i]]
    <3>1. /\ p.rows[i] \in 1 .. n /\ p.ids[p.rows[i]] = i /\ p.rows[i] # r
          /\ q.rows[i] = IF p.rows[i] > r THEN p.rows[i] - 1 ELSE p.rows[i]
      BY <1>1, <2>1, <2>8, <2>11
    <3>2. CASE p.rows[i] > r
      <4>1. q.rows[i] \in 1 .. n - 1 /\ ~(q.rows[i] < r) /\ q.rows[i] + 1 = p.rows[i]
        BY <1>1, <2>1, <3>1, <3>2
      <4> QED
        BY <2>9, <3>1, <4>1
    <3>3. CASE ~(p.rows[i] > r)
      <4>1. q.rows[i] \in 1 .. n - 1 /\ q.rows[i] < r /\ q.rows[i] = p.rows[i]
        BY <1>1, <2>1, <3>1, <3>3
      <4> QED
        BY <2>9, <3>1, <4>1
    <3> QED
      BY <3>2, <3>3
  <2>12. \A i \in RowIds : p.rows[i] = 0 => q.rows[i] = 0
    BY <1>1, <2>8
  <2>13. Tidy(q)
    <3>1. \A i \in RowIds : q.rows[i] # 0 => q.rows[i] \in 1 .. n - 1 /\ q.ids[q.rows[i]] = i
      BY <2>8, <2>11, <2>12
    <3> QED
      BY <2>2, <2>7, <2>9, <2>10, <3>1 DEF Tidy
  <2>14. Says(p, q, id, "none")
    <3> SUFFICES ASSUME NEW i \in RowIds
                 PROVE  Seen(q, i) = IF i = id THEN "none" ELSE Seen(p, i)
      BY DEF Says
    <3>1. i = id => q.rows[i] = 0
      BY <2>8
    <3>2. i # id /\ p.rows[i] # 0 => /\ q.rows[i] # 0
                                     /\ q.table[q.rows[i]] = p.table[p.rows[i]]
      BY <1>1, <2>11
    <3> QED
      BY <2>12, <3>1, <3>2 DEF Seen
  <2> QED
    BY <2>7, <2>13, <2>14 DEF q
<1> QED
  BY <1>1, <1>2, <1>3

(* A snapshot of a row that is shown takes the place of the one before.    *)
LEMMA RowReplaced ==
  ASSUME NEW p, Tidy(p), NEW s \in Live, ~p.empty, p.rows[s.id] # 0
  PROVE  LET q == [p EXCEPT !.table[p.rows[s.id]] = s]
         IN  Tidy(q) /\ Says(p, q, s.id, s.st) /\ q.empty = p.empty
<1> DEFINE q == [p EXCEPT !.table[p.rows[s.id]] = s]
           r == p.rows[s.id]
           n == Len(p.ids)
<1>1. /\ p \in PageRec /\ n \in Nat /\ s.id \in RowIds /\ s \in Cell
      /\ r \in 1 .. n /\ p.ids[r] = s.id
      /\ Len(p.table) = n
      /\ \A k \in 1 .. n : p.table[k] \in Live /\ p.table[k].id = p.ids[k]
      /\ \A k \in 1 .. n : p.rows[p.ids[k]] = k
      /\ \A i \in RowIds : p.rows[i] # 0 => p.rows[i] \in 1 .. n /\ p.ids[p.rows[i]] = i
  BY Lengths, CellsAre DEF Tidy
<1>2. p.table \in Seq(Cell)
  BY <1>1 DEF PageRec
<1> DEFINE t == [p.table EXCEPT ![r] = s]
<1>3. /\ t \in Seq(Cell) /\ Len(t) = n
      /\ \A k \in 1 .. n : t[k] = IF k = r THEN s ELSE p.table[k]
  <2> HIDE DEF r, n
  <2> QED
    BY <1>1, <1>2, ExceptSeq
<1>4. q = [p EXCEPT !.table = t]
  BY <1>1 DEF PageRec
<1> HIDE DEF t
<1>5. /\ q \in PageRec /\ q.table = t /\ q.ids = p.ids /\ q.rows = p.rows /\ q.empty = p.empty
  <2>1. p \in PageRec /\ t \in Seq(Cell)
    BY <1>1, <1>3
  <2> HIDE DEF r, n
  <2> QED
    BY <2>1, <1>4 DEF PageRec
<1> HIDE DEF q, r, n
<1>6. \A k \in 1 .. n : q.table[k] \in Live /\ q.table[k].id = q.ids[k]
  BY <1>1, <1>3, <1>5
<1>7. Tidy(q)
  <2>1. Len(q.table) = Len(q.ids) /\ Len(q.ids) = n
    BY <1>3, <1>5 DEF n
  <2> QED
    BY <1>1, <1>5, <1>6, <2>1 DEF Tidy
<1>8. Says(p, q, s.id, s.st)
  <2> SUFFICES ASSUME NEW i \in RowIds
               PROVE  Seen(q, i) = IF i = s.id THEN s.st ELSE Seen(p, i)
    BY DEF Says
  <2>1. i = s.id => q.rows[i] = r /\ q.rows[i] # 0 /\ q.table[q.rows[i]] = s
    BY <1>1, <1>3, <1>5 DEF r
  <2>2. i # s.id /\ p.rows[i] # 0 => q.table[q.rows[i]] = p.table[p.rows[i]]
    BY <1>1, <1>3, <1>5 DEF r
  <2> QED
    BY <1>5, <2>1, <2>2 DEF Seen
<1> QED
  BY <1>5, <1>7, <1>8 DEF q

(* One that is not shown comes at the top.                                 *)
LEMMA RowOnTop ==
  ASSUME NEW p, Tidy(p), NEW s \in Live, ~p.empty, p.rows[s.id] = 0
  PROVE  LET q == InsertTop(p, s)
         IN  Tidy(q) /\ Says(p, q, s.id, s.st) /\ q.empty = p.empty
<1> DEFINE q == InsertTop(p, s)
           n == Len(p.ids)
           t == <<s>> \o p.table
           c == <<s.id>> \o p.ids
           more == [i \in RowIds |-> IF i = s.id THEN 1
                                     ELSE IF p.rows[i] # 0 THEN p.rows[i] + 1 ELSE 0]
<1>1. /\ p \in PageRec /\ n \in Nat /\ s.id \in RowIds /\ s \in Cell
      /\ Len(p.table) = n
      /\ \A k \in 1 .. n : p.table[k] \in Live /\ p.table[k].id = p.ids[k]
      /\ \A k \in 1 .. n : p.rows[p.ids[k]] = k /\ p.ids[k] \in RowIds
      /\ \A i \in RowIds : /\ p.rows[i] \in Nat
                           /\ p.rows[i] # 0 => p.rows[i] \in 1 .. n /\ p.ids[p.rows[i]] = i
  BY Lengths, CellsAre, ElementOfSeq DEF Tidy, PageRec
<1>2. p.table \in Seq(Cell) /\ p.ids \in Seq(RowIds) /\ IsSeq(p.table) /\ IsSeq(p.ids)
  BY <1>1 DEF PageRec, IsSeq
<1>3. /\ t \in Seq(Cell) /\ Len(t) = n + 1 /\ t[1] = s
      /\ \A k \in 1 .. n : t[k + 1] = p.table[k]
  <2>1. <<s>> \in Seq(Cell)
    BY <1>1
  <2> QED
    BY <1>1, <1>2, <2>1, ConcatProperties, ConsOfSeq
<1>4. /\ c \in Seq(RowIds) /\ Len(c) = n + 1 /\ c[1] = s.id
      /\ \A k \in 1 .. n : c[k + 1] = p.ids[k]
  <2>1. <<s.id>> \in Seq(RowIds)
    BY <1>1
  <2> QED
    BY <1>1, <1>2, <2>1, ConcatProperties, ConsOfSeq
<1>5. more \in [RowIds -> Nat]
  BY <1>1
<1>6. q = [p EXCEPT !.table = t, !.ids = c, !.rows = more]
  BY <1>1 DEF InsertTop, PageRec
<1>7. \A i \in RowIds : more[i] = IF i = s.id THEN 1
                                  ELSE IF p.rows[i] # 0 THEN p.rows[i] + 1 ELSE 0
  OBVIOUS
<1> HIDE DEF t, c, more
<1>8. /\ q \in PageRec /\ q.table = t /\ q.ids = c /\ q.rows = more /\ q.empty = p.empty
  <2>1. /\ p \in PageRec /\ t \in Seq(Cell) /\ c \in Seq(RowIds)
        /\ more \in [RowIds -> Nat]
    BY <1>1, <1>3, <1>4, <1>5
  <2> HIDE DEF n
  <2> QED
    BY <2>1, <1>6 DEF PageRec
<1> HIDE DEF q, n
<1>9. ASSUME NEW k \in 1 .. n + 1
      PROVE  q.table[k] \in Live /\ q.table[k].id = q.ids[k] /\ q.rows[q.ids[k]] = k
  <2>1. CASE k = 1
    BY <1>1, <1>3, <1>4, <1>7, <1>8, <2>1
  <2>2. CASE k # 1
    <3>1. PICK m \in 1 .. n : k = m + 1
      BY <1>1, <2>2
    <3>2. q.table[k] = p.table[m] /\ q.ids[k] = p.ids[m]
      BY <1>3, <1>4, <1>8, <3>1
    <3>3. p.ids[m] # s.id /\ p.rows[p.ids[m]] = m /\ m # 0
      BY <1>1
    <3>4. q.rows[p.ids[m]] = m + 1
      BY <1>1, <1>7, <1>8, <3>3
    <3> QED
      BY <1>1, <3>1, <3>2, <3>4
  <2> QED
    BY <2>1, <2>2
<1>10. ASSUME NEW i \in RowIds, i # s.id, p.rows[i] # 0
       PROVE  /\ q.rows[i] \in 1 .. n + 1 /\ q.rows[i] # 0 /\ q.ids[q.rows[i]] = i
              /\ q.table[q.rows[i]] = p.table[p.rows[i]]
  <2>1. p.rows[i] \in 1 .. n /\ p.ids[p.rows[i]] = i /\ q.rows[i] = p.rows[i] + 1
    BY <1>1, <1>7, <1>8, <1>10
  <2> QED
    BY <1>1, <1>3, <1>4, <1>8, <2>1
<1>11. /\ q.rows[s.id] = 1 /\ q.table[1] = s /\ q.ids[1] = s.id /\ 1 \in 1 .. n + 1
       /\ \A i \in RowIds : i # s.id /\ p.rows[i] = 0 => q.rows[i] = 0
  BY <1>1, <1>3, <1>4, <1>7, <1>8
<1>12. Tidy(q)
  <2>1. Len(q.table) = n + 1 /\ Len(q.ids) = n + 1
    BY <1>3, <1>4, <1>8
  <2>2. \A i \in RowIds : q.rows[i] # 0 => q.rows[i] \in 1 .. n + 1 /\ q.ids[q.rows[i]] = i
    BY <1>10, <1>11
  <2> QED
    BY <1>8, <1>9, <2>1, <2>2 DEF Tidy
<1>13. Says(p, q, s.id, s.st)
  BY <1>10, <1>11 DEF Says, Seen
<1> QED
  BY <1>8, <1>12, <1>13 DEF q

(* In a bulk load it comes at the end.                                     *)
LEMMA RowAtEnd ==
  ASSUME NEW p, Tidy(p), NEW s \in Live, ~p.empty, p.rows[s.id] = 0
  PROVE  LET q == InsertLast(p, s)
         IN  Tidy(q) /\ Says(p, q, s.id, s.st) /\ q.empty = p.empty
<1> DEFINE q == InsertLast(p, s)
           n == Len(p.ids)
           t == Append(p.table, s)
           c == Append(p.ids, s.id)
           more == [p.rows EXCEPT ![s.id] = n + 1]
<1>1. /\ p \in PageRec /\ n \in Nat /\ s.id \in RowIds /\ s \in Cell
      /\ Len(p.table) = n
      /\ \A k \in 1 .. n : p.table[k] \in Live /\ p.table[k].id = p.ids[k]
      /\ \A k \in 1 .. n : p.rows[p.ids[k]] = k /\ p.ids[k] \in RowIds
      /\ \A i \in RowIds : /\ p.rows[i] \in Nat
                           /\ p.rows[i] # 0 => p.rows[i] \in 1 .. n /\ p.ids[p.rows[i]] = i
  BY Lengths, CellsAre, ElementOfSeq DEF Tidy, PageRec
<1>2. p.table \in Seq(Cell) /\ p.ids \in Seq(RowIds) /\ p.rows \in [RowIds -> Nat]
  BY <1>1 DEF PageRec
<1>3. /\ t \in Seq(Cell) /\ Len(t) = n + 1 /\ t[n + 1] = s
      /\ \A k \in 1 .. n : t[k] = p.table[k]
  BY <1>1, <1>2, AppendProperties
<1>4. /\ c \in Seq(RowIds) /\ Len(c) = n + 1 /\ c[n + 1] = s.id
      /\ \A k \in 1 .. n : c[k] = p.ids[k]
  BY <1>1, <1>2, AppendProperties
<1>5. /\ more \in [RowIds -> Nat]
      /\ \A i \in RowIds : more[i] = IF i = s.id THEN n + 1 ELSE p.rows[i]
  <2> HIDE DEF n
  <2> QED
    BY <1>1, <1>2
<1>6. q = [p EXCEPT !.table = t, !.ids = c, !.rows = more]
  BY <1>1 DEF InsertLast, PageRec
<1> HIDE DEF t, c, more
<1>8. /\ q \in PageRec /\ q.table = t /\ q.ids = c /\ q.rows = more /\ q.empty = p.empty
  <2>1. /\ p \in PageRec /\ t \in Seq(Cell) /\ c \in Seq(RowIds)
        /\ more \in [RowIds -> Nat]
    BY <1>1, <1>3, <1>4, <1>5
  <2> HIDE DEF n
  <2> QED
    BY <2>1, <1>6 DEF PageRec
<1> HIDE DEF q, n
<1>9. ASSUME NEW k \in 1 .. n + 1
      PROVE  q.table[k] \in Live /\ q.table[k].id = q.ids[k] /\ q.rows[q.ids[k]] = k
  <2>1. CASE k = n + 1
    BY <1>1, <1>3, <1>4, <1>5, <1>8, <2>1
  <2>2. CASE k # n + 1
    <3>1. k \in 1 .. n
      BY <1>1, <2>2
    <3>2. q.table[k] = p.table[k] /\ q.ids[k] = p.ids[k]
      BY <1>3, <1>4, <1>8, <3>1
    <3>3. p.ids[k] # s.id /\ p.rows[p.ids[k]] = k
      BY <1>1, <3>1
    <3> QED
      BY <1>1, <1>5, <1>8, <3>1, <3>2, <3>3
  <2> QED
    BY <2>1, <2>2
<1>10. ASSUME NEW i \in RowIds, i # s.id, p.rows[i] # 0
       PROVE  /\ q.rows[i] \in 1 .. n + 1 /\ q.rows[i] # 0 /\ q.ids[q.rows[i]] = i
              /\ q.table[q.rows[i]] = p.table[p.rows[i]]
  <2>1. p.rows[i] \in 1 .. n /\ p.ids[p.rows[i]] = i /\ q.rows[i] = p.rows[i]
    BY <1>1, <1>5, <1>8, <1>10
  <2> QED
    BY <1>1, <1>3, <1>4, <1>8, <2>1
<1>11. /\ q.rows[s.id] = n + 1 /\ q.table[n + 1] = s /\ q.ids[n + 1] = s.id
       /\ n + 1 \in 1 .. n + 1 /\ n + 1 # 0
       /\ \A i \in RowIds : i # s.id /\ p.rows[i] = 0 => q.rows[i] = 0
  BY <1>1, <1>3, <1>4, <1>5, <1>8
<1>12. Tidy(q)
  <2>1. Len(q.table) = n + 1 /\ Len(q.ids) = n + 1
    BY <1>3, <1>4, <1>8
  <2>2. \A i \in RowIds : q.rows[i] # 0 => q.rows[i] \in 1 .. n + 1 /\ q.ids[q.rows[i]] = i
    BY <1>10, <1>11
  <2> QED
    BY <1>8, <1>9, <2>1, <2>2 DEF Tidy
<1>13. Says(p, q, s.id, s.st)
  BY <1>10, <1>11 DEF Says, Seen
<1> QED
  BY <1>8, <1>12, <1>13 DEF q

(* A snapshot that was upserted is what the page then says of its row.     *)
LEMMA Upserted ==
  ASSUME NEW p, Tidy(p), NEW s \in Live, NEW f, NEW bulk \in BOOLEAN
  PROVE  LET q == Upsert(p, s, f, bulk)
         IN  Tidy(q) /\ Says(p, q, s.id, Kept(s, f))
<1> DEFINE settled(q) == IF bulk THEN q ELSE UpdateEmptyState(q)
           c    == ClearEmptyRow(p)
           room == [c EXCEPT !.dirty = TRUE]
           q    == IF ~Matches(s, f) THEN RemoveRow(p, s.id)
                   ELSE IF room.rows[s.id] # 0
                        THEN [room EXCEPT !.table[room.rows[s.id]] = s]
                        ELSE IF bulk THEN InsertLast(room, s) ELSE InsertTop(room, s)
<1>1. s.id \in RowIds
  BY CellsAre
<1>2. Upsert(p, s, f, bulk) = settled(q)
  BY DEF Upsert
<1>3. /\ Tidy(room) /\ ~room.empty
      /\ \A i \in RowIds : Seen(room, i) = Seen(p, i)
  <2>1. /\ Tidy(c) /\ ~c.empty
        /\ \A i \in RowIds : Seen(c, i) = Seen(p, i)
    BY Cleared
  <2> HIDE DEF c
  <2>2. /\ room \in PageRec /\ room.table = c.table /\ room.ids = c.ids
        /\ room.rows = c.rows /\ room.empty = c.empty
    BY <2>1 DEF Tidy, PageRec
  <2> HIDE DEF room
  <2> QED
    BY <2>1, <2>2 DEF Tidy, Seen
<1> HIDE DEF room
<1>4. Tidy(q) /\ Says(p, q, s.id, Kept(s, f))
  <2>1. CASE ~Matches(s, f)
    BY <1>1, <2>1, RowRemoved DEF Kept
  <2>2. CASE Matches(s, f) /\ room.rows[s.id] # 0
    <3>1. Tidy(q) /\ Says(room, q, s.id, s.st)
      BY <1>3, <2>2, RowReplaced
    <3> HIDE DEF q
    <3> QED
      BY <1>3, <2>2, <3>1 DEF Says, Kept
  <2>3. CASE Matches(s, f) /\ room.rows[s.id] = 0
    <3>1. Tidy(q) /\ Says(room, q, s.id, s.st)
      BY <1>3, <2>3, RowOnTop, RowAtEnd
    <3> HIDE DEF q
    <3> QED
      BY <1>3, <2>3, <3>1 DEF Says, Kept
  <2> QED
    BY <2>1, <2>2, <2>3
<1> HIDE DEF q
<1>5. Tidy(settled(q)) /\ \A i \in RowIds : Seen(settled(q), i) = Seen(q, i)
  BY <1>4, Settled
<1> HIDE DEF settled
<1> QED
  BY <1>2, <1>4, <1>5 DEF Says

(* So it is with the snapshot of an event.                                 *)
LEMMA Handled ==
  ASSUME NEW p, Tidy(p), NEW s \in Snapshot, NEW f
  PROVE  LET q == Handle(p, s, f)
         IN  Tidy(q) /\ Says(p, q, s.id, Kept(s, f))
<1>1. CASE s.st # "none"
  BY <1>1, Upserted DEF Handle, Live
<1>2. CASE s.st = "none"
  <2> DEFINE q == RemoveRow(p, s.id)
  <2>1. Tidy(q) /\ Says(p, q, s.id, "none")
    BY RowRemoved DEF Snapshot
  <2> HIDE DEF q
  <2>2. /\ Tidy(UpdateEmptyState(q))
        /\ \A i \in RowIds : Seen(UpdateEmptyState(q), i) = Seen(q, i)
    BY <2>1, Settled
  <2>3. Kept(s, f) = "none"
    BY <1>2 DEF Kept
  <2>4. Handle(p, s, f) = UpdateEmptyState(q)
    BY <1>2 DEF Handle, q
  <2> QED
    BY <2>1, <2>2, <2>3, <2>4 DEF Says
<1> QED
  BY <1>1, <1>2

-----------------------------------------------------------------------------
(* Lists of snapshots                                                      *)

\* Each row at most once
Single(ss) == \A j, k \in 1 .. Len(ss) : ss[j].id = ss[k].id => j = k

\* The page after the first so many of a list
After(p, ss, f, bulk) ==
  CHOOSE g : g = [k \in 0 .. Len(ss) |->
                    IF k = 0 THEN p ELSE Upsert(g[k - 1], ss[k], f, bulk)]
StepsOf(g, m, p, ss, f, bulk) ==
  g = [k \in 0 .. m |-> IF k = 0 THEN p ELSE Upsert(g[k - 1], ss[k], f, bulk)]

LEMMA LoadIs ==
  ASSUME NEW p, NEW ss, NEW f, NEW bulk
  PROVE  Load(p, ss, f, bulk) = After(p, ss, f, bulk)[Len(ss)]
BY Zenon DEF Load, After

(* Any number of steps can be taken one after the other.                   *)
LEMMA StepsExist ==
  ASSUME NEW n \in Nat, NEW p, NEW ss, NEW f, NEW bulk
  PROVE  \E g : StepsOf(g, n, p, ss, f, bulk)
<1> DEFINE T == {m \in 0 .. n : \E g : StepsOf(g, m, p, ss, f, bulk)}
<1>1. 0 \in T
  <2> DEFINE g == [k \in 0 .. 0 |-> p]
  <2>1. StepsOf(g, 0, p, ss, f, bulk)
    <3>1. \A k \in 0 .. 0 : k = 0
      OBVIOUS
    <3> QED
      BY <3>1 DEF StepsOf
  <2> QED
    BY <2>1
<1>2. ASSUME NEW m \in 1 .. n, m - 1 \in T PROVE m \in T
  <2>1. PICK g : StepsOf(g, m - 1, p, ss, f, bulk)
    BY <1>2
  <2> DEFINE h == [k \in 0 .. m |-> IF k = m THEN Upsert(g[m - 1], ss[m], f, bulk) ELSE g[k]]
  <2>2. m \in Nat /\ m # 0 /\ m \in 0 .. n
    OBVIOUS
  <2>3. \A k \in 0 .. m - 1 : g[k] = IF k = 0 THEN p ELSE Upsert(g[k - 1], ss[k], f, bulk)
    BY <2>1 DEF StepsOf
  <2>4. \A k \in 0 .. m : h[k] = IF k = 0 THEN p ELSE Upsert(h[k - 1], ss[k], f, bulk)
    <3> SUFFICES ASSUME NEW k \in 0 .. m
                 PROVE  h[k] = IF k = 0 THEN p ELSE Upsert(h[k - 1], ss[k], f, bulk)
      OBVIOUS
    <3>1. CASE k = m
      <4>1. h[k - 1] = g[m - 1] /\ k # 0
        BY <2>2, <3>1
      <4> QED
        BY <2>2, <3>1, <4>1
    <3>2. CASE k # m
      <4>1. k \in 0 .. m - 1 /\ (k # 0 => k - 1 \in 0 .. m /\ k - 1 # m)
        BY <2>2, <3>2
      <4>2. h[k] = g[k] /\ (k # 0 => h[k - 1] = g[k - 1])
        BY <3>2, <4>1
      <4> HIDE DEF h
      <4> QED
        BY <2>3, <4>1, <4>2
    <3> QED
      BY <3>1, <3>2
  <2>5. h = [k \in 0 .. m |-> h[k]]
    OBVIOUS
  <2> HIDE DEF h
  <2>6. StepsOf(h, m, p, ss, f, bulk)
    BY <2>4, <2>5, Zenon DEF StepsOf
  <2> QED
    BY <2>2, <2>6
<1> HIDE DEF T
<1>3. n \in T
  <2>1. \A k \in 0 .. n : k \in T
    BY <1>1, <1>2, Upward
  <2> QED
    BY <2>1
<1> QED
  BY <1>3 DEF T

LEMMA AfterIs ==
  ASSUME NEW p, NEW ss, Len(ss) \in Nat, NEW f, NEW bulk
  PROVE  LET g == After(p, ss, f, bulk)
         IN  /\ g[0] = p
             /\ \A k \in 1 .. Len(ss) : g[k] = Upsert(g[k - 1], ss[k], f, bulk)
<1> DEFINE g == After(p, ss, f, bulk)
<1>1. \E h : h = [k \in 0 .. Len(ss) |->
                    IF k = 0 THEN p ELSE Upsert(h[k - 1], ss[k], f, bulk)]
  <2>1. PICK h : StepsOf(h, Len(ss), p, ss, f, bulk)
    BY StepsExist
  <2> QED
    BY <2>1, Zenon DEF StepsOf
<1>2. g = [k \in 0 .. Len(ss) |-> IF k = 0 THEN p ELSE Upsert(g[k - 1], ss[k], f, bulk)]
  BY <1>1, Zenon DEF After
<1> HIDE DEF g
<1>3. g[0] = p
  BY <1>2
<1>4. ASSUME NEW k \in 1 .. Len(ss) PROVE g[k] = Upsert(g[k - 1], ss[k], f, bulk)
  <2>1. k \in 0 .. Len(ss) /\ k # 0
    OBVIOUS
  <2> QED
    BY <1>2, <2>1
<1> QED
  BY <1>3, <1>4 DEF g

(* A list of snapshots leaves the page saying of each what it was given,   *)
(* and of the others what it said.                                         *)
LEMMA Loaded ==
  ASSUME NEW p, Tidy(p), NEW ss, IsSeq(ss), \A k \in 1 .. Len(ss) : ss[k] \in Live,
         Single(ss), NEW f, NEW bulk \in BOOLEAN
  PROVE  LET q == Load(p, ss, f, bulk)
         IN  /\ Tidy(q)
             /\ \A k \in 1 .. Len(ss) : Seen(q, ss[k].id) = Kept(ss[k], f)
             /\ \A i \in RowIds : (\A k \in 1 .. Len(ss) : ss[k].id # i)
                                    => Seen(q, i) = Seen(p, i)
<1> DEFINE g == After(p, ss, f, bulk)
           n == Len(ss)
           Right(m) ==
             /\ Tidy(g[m])
             /\ \A k \in 1 .. m : Seen(g[m], ss[k].id) = Kept(ss[k], f)
             /\ \A i \in RowIds : (\A k \in 1 .. m : ss[k].id # i)
                                    => Seen(g[m], i) = Seen(p, i)
           T == {m \in 0 .. n : Right(m)}
<1>1. n \in Nat
  BY DomainOfSeq
<1>2. g[0] = p /\ \A k \in 1 .. n : g[k] = Upsert(g[k - 1], ss[k], f, bulk)
  BY <1>1, AfterIs
<1> HIDE DEF g
<1>3. 0 \in T
  <2>1. \A k : k \notin 1 .. 0
    OBVIOUS
  <2> QED
    BY <1>1, <1>2, <2>1
<1>4. ASSUME NEW m \in 1 .. n, m - 1 \in T PROVE m \in T
  <2>1. Right(m - 1) /\ m \in Nat /\ ss[m] \in Live /\ m \in 0 .. n
    BY <1>1, <1>4
  <2>2. /\ Tidy(g[m])
        /\ \A i \in RowIds : Seen(g[m], i) = IF i = ss[m].id THEN Kept(ss[m], f)
                                             ELSE Seen(g[m - 1], i)
    BY <1>2, <2>1, Upserted DEF Says
  <2>3. \A k \in 1 .. n : ss[k].id \in RowIds
    BY CellsAre
  <2>4. ASSUME NEW k \in 1 .. m PROVE Seen(g[m], ss[k].id) = Kept(ss[k], f)
    <3>1. CASE k = m
      BY <2>2, <2>3, <3>1
    <3>2. CASE k # m
      <4>1. k \in 1 .. m - 1 /\ k \in 1 .. n
        BY <1>1, <2>1, <3>2
      <4>2. ss[k].id # ss[m].id
        BY <3>2, <4>1 DEF Single
      <4> QED
        BY <2>1, <2>2, <2>3, <4>1, <4>2
    <3> QED
      BY <3>1, <3>2
  <2>5. ASSUME NEW i \in RowIds, \A k \in 1 .. m : ss[k].id # i
        PROVE  Seen(g[m], i) = Seen(p, i)
    <3>1. \A k \in 1 .. m - 1 : k \in 1 .. m
      BY <2>1
    <3>2. m \in 1 .. m
      BY <2>1
    <3> QED
      BY <2>1, <2>2, <2>5, <3>1, <3>2
  <2>6. Right(m)
    BY <2>2, <2>4, <2>5
  <2> QED
    BY <2>1, <2>6
<1> HIDE DEF T
<1>5. n \in T
  <2>1. \A k \in 0 .. n : k \in T
    BY <1>1, <1>3, <1>4, Upward
  <2> QED
    BY <1>1, <2>1
<1>6. Right(n)
  BY <1>5 DEF T
<1>7. Load(p, ss, f, bulk) = g[n]
  BY LoadIs DEF g
<1> HIDE DEF n
<1> QED
  BY <1>6, <1>7 DEF n

\* What a list makes of a page p
Listed(ss) == IsSeq(ss) /\ Single(ss) /\ \A k \in 1 .. Len(ss) : ss[k] \in Live
ListSaid(p, q, ss, f) ==
  /\ Tidy(q)
  /\ \A k \in 1 .. Len(ss) : Seen(q, ss[k].id) = Kept(ss[k], f)
  /\ \A i \in RowIds : (\A k \in 1 .. Len(ss) : ss[k].id # i) => Seen(q, i) = Seen(p, i)

LEMMA LoadSays ==
  ASSUME NEW p, Tidy(p), NEW ss, Listed(ss), NEW f, NEW bulk \in BOOLEAN
  PROVE  ListSaid(p, Load(p, ss, f, bulk), ss, f)
<1>1. IsSeq(ss) /\ Single(ss) /\ \A k \in 1 .. Len(ss) : ss[k] \in Live
  BY DEF Listed
<1> DEFINE q == Load(p, ss, f, bulk)
<1>2. /\ Tidy(q)
      /\ \A k \in 1 .. Len(ss) : Seen(q, ss[k].id) = Kept(ss[k], f)
      /\ \A i \in RowIds : (\A k \in 1 .. Len(ss) : ss[k].id # i)
                             => Seen(q, i) = Seen(p, i)
  BY <1>1, Loaded
<1> HIDE DEF q
<1>3. ListSaid(p, q, ss, f)
  BY <1>2 DEF ListSaid
<1> QED
  BY <1>3 DEF q

LEMMA BlankIs ==
  /\ Tidy(Blank) /\ ~Blank.empty /\ Blank.table = <<>>
  /\ \A i \in RowIds : Seen(Blank, i) = "none"
<1> DEFINE b == Blank
<1>1. /\ b \in PageRec /\ ~b.empty /\ b.table = <<>> /\ b.ids = <<>>
      /\ \A i \in RowIds : b.rows[i] = 0
  BY EmptySeq DEF Blank, PageRec
<1>2. Len(b.table) = 0 /\ Len(b.ids) = 0
  BY <1>1, EmptyIsSeq
<1> HIDE DEF b
<1>3. Tidy(b)
  <2>1. \A k : k \notin 1 .. 0
    OBVIOUS
  <2> QED
    BY <1>1, <1>2, <2>1 DEF Tidy
<1>4. \A i \in RowIds : Seen(b, i) = "none"
  BY <1>1 DEF Seen
<1> QED
  BY <1>1, <1>3, <1>4 DEF b

\* The page before a load in slices: the placeholder only
LEMMA PlaceholderAlone ==
  LET q == [Blank EXCEPT !.table = <<Placeholder>>, !.empty = TRUE]
  IN  Tidy(q) /\ \A i \in RowIds : Seen(q, i) = "none"
<1> DEFINE q == UpdateEmptyState(Blank)
<1>1. q = [Blank EXCEPT !.table = <<Placeholder>>, !.empty = TRUE]
  BY BlankIs DEF UpdateEmptyState
<1>2. Tidy(q) /\ \A i \in RowIds : Seen(q, i) = "none"
  BY BlankIs, Settled
<1> HIDE DEF q
<1> QED
  BY <1>1, <1>2

LEMMA DirtyOnly ==
  ASSUME NEW p, Tidy(p), NEW b \in BOOLEAN
  PROVE  LET q == [p EXCEPT !.dirty = b]
         IN  Tidy(q) /\ \A i \in RowIds : Seen(q, i) = Seen(p, i)
<1> DEFINE q == [p EXCEPT !.dirty = b]
<1>1. /\ q \in PageRec /\ q.table = p.table /\ q.ids = p.ids /\ q.rows = p.rows
      /\ q.empty = p.empty
  BY DEF Tidy, PageRec
<1> HIDE DEF q
<1>2. Tidy(q) /\ \A i \in RowIds : Seen(q, i) = Seen(p, i)
  BY <1>1 DEF Tidy, Seen
<1> QED
  BY <1>2 DEF q

(* What list_snapshots gives: every row that is there, once, as it is.     *)
LEMMA SnapshotsAre ==
  ASSUME NEW ids, ids \subseteq RowIds, stored \in [RowIds -> {"none", "active", "done"}]
  PROVE  LET ss == Snapshots(ids)
         IN  /\ ss \in Seq(Snapshot) /\ Single(ss)
             /\ \A k \in 1 .. Len(ss) : /\ ss[k] \in Live /\ ss[k].id \in ids
                                        /\ ss[k].st = stored[ss[k].id]
             /\ \A i \in ids : stored[i] # "none" => \E k \in 1 .. Len(ss) : ss[k].id = i
<1> DEFINE there == {i \in ids : stored[i] # "none"}
           new   == Newest(there)
           n     == Cardinality(there)
           ss    == [k \in 1 .. n |-> [id |-> new[k], st |-> stored[new[k]]]]
<1>1. IsFiniteSet(there) /\ there \subseteq Nat
  BY PageAssumption, FS_Subset
<1>2. /\ n \in Nat /\ new \in [1 .. n -> there]
      /\ \A i \in there : \E k \in 1 .. n : new[k] = i
      /\ \A j, k \in 1 .. n : new[j] = new[k] => j = k
  <2> HIDE DEF there
  <2> QED
    BY <1>1, NewestIs
<1>3. Snapshots(ids) = ss
  <2>1. DOMAIN new = 1 .. n
    BY <1>2
  <2>2. Snapshots(ids) = [k \in DOMAIN new |-> [id |-> new[k], st |-> stored[new[k]]]]
    BY DEF Snapshots
  <2> HIDE DEF new, n
  <2> QED
    BY <2>1, <2>2
<1> HIDE DEF new, n
<1>4. \A k \in 1 .. n : /\ ss[k] \in Live /\ ss[k] \in Snapshot
                        /\ ss[k].id = new[k] /\ ss[k].st = stored[new[k]] /\ new[k] \in there
  <2> SUFFICES ASSUME NEW k \in 1 .. n
               PROVE  /\ [id |-> new[k], st |-> stored[new[k]]] \in Live
                      /\ [id |-> new[k], st |-> stored[new[k]]] \in Snapshot
                      /\ new[k] \in there
    OBVIOUS
  <2>1. new[k] \in RowIds /\ stored[new[k]] # "none" /\ new[k] \in there
    BY <1>2
  <2> QED
    BY <2>1 DEF Live, Snapshot
<1>5. ss \in Seq(Snapshot) /\ Len(ss) = n
  <2>1. ss \in [1 .. n -> Snapshot]
    <3>1. \A k \in 1 .. n : ss[k] \in Snapshot
      BY <1>4
    <3>2. ss = [k \in 1 .. n |-> ss[k]]
      OBVIOUS
    <3> HIDE DEF ss
    <3> QED
      BY <3>1, <3>2
  <2>2. DOMAIN ss = 1 .. n
    OBVIOUS
  <2> HIDE DEF ss
  <2>3. ss \in Seq(Snapshot)
    BY <1>2, <2>1
  <2>4. Len(ss) \in Nat /\ DOMAIN ss = 1 .. Len(ss)
    BY <2>3, LenProperties
  <2> QED
    BY <1>2, <2>2, <2>3, <2>4
<1> HIDE DEF ss
<1>6. Single(ss)
  BY <1>2, <1>4, <1>5 DEF Single
<1>7. \A i \in ids : stored[i] # "none" => \E k \in 1 .. Len(ss) : ss[k].id = i
  <2> SUFFICES ASSUME NEW i \in ids, stored[i] # "none" PROVE \E k \in 1 .. n : new[k] = i
    BY <1>4, <1>5
  <2> QED
    BY <1>2
<1> QED
  BY <1>3, <1>4, <1>5, <1>6, <1>7

-----------------------------------------------------------------------------
(* The page mirrors the table, but for what has yet to reach it            *)

\* The last word of a queue on a row is v
LastTells(queue, i, v) ==
  \A k \in DOMAIN queue :
    queue[k].id = i /\ (\A j \in DOMAIN queue : j > k => queue[j].id # i) => queue[k].st = v

UpToDate(i) ==
  /\ LastTells(posted, i, stored[i])
  /\ ~Waiting(i, posted) =>
       /\ \A k \in 1 .. Len(pending) : pending[k].id = i => pending[k].st = stored[i]
       /\ ~Waiting(i, pending) =>
            Seen(page, i) = Kept([id |-> i, st |-> stored[i]], shows)

Queues ==
  /\ stored \in [RowIds -> {"none", "active", "done"}]
  /\ hosted \subseteq changed /\ changed \subseteq RowIds /\ raced \subseteq RowIds
  /\ posted \in Seq(Snapshot) /\ Len(posted) <= MaxPosted
  /\ shows \in Filters /\ loading \in BOOLEAN
  /\ pending \in Seq(Snapshot) /\ Single(pending)
  /\ \A k \in 1 .. Len(pending) : pending[k] \in Live
  /\ ~loading => pending = <<>>

Mirrored ==
  \A i \in RowIds \ raced : (i \in hosted => stored[i] = "none") => UpToDate(i)

Mirrors == Queues /\ Tidy(page) /\ Mirrored

LEMMA QueueIs ==
  ASSUME NEW queue \in Seq(Snapshot)
  PROVE  /\ IsSeq(queue) /\ Len(queue) \in Nat /\ DOMAIN queue = 1 .. Len(queue)
         /\ (queue = <<>> <=> Len(queue) = 0)
         /\ \A k \in 1 .. Len(queue) : queue[k] \in Snapshot
<1>1. IsSeq(queue)
  BY DEF IsSeq
<1> QED
  BY <1>1, DomainOfSeq, ElementOfSeq

LEMMA NoneWaits ==
  ASSUME NEW i
  PROVE  ~Waiting(i, <<>>) /\ \A v : LastTells(<<>>, i, v)
BY EmptyIsSeq DEF Waiting, LastTells

(* An event at the end of the queue has the last word on its row.          *)
LEMMA Posting ==
  ASSUME NEW queue \in Seq(Snapshot), NEW s \in Snapshot, NEW i, NEW v
  PROVE  LET longer == Append(queue, s)
         IN  /\ longer \in Seq(Snapshot)
             /\ Waiting(i, longer) <=> Waiting(i, queue) \/ s.id = i
             /\ s.id = i => (LastTells(longer, i, v) <=> s.st = v)
             /\ s.id # i => (LastTells(longer, i, v) <=> LastTells(queue, i, v))
<1> DEFINE longer == Append(queue, s)
           n == Len(queue)
<1>1. n \in Nat /\ DOMAIN queue = 1 .. n
  BY QueueIs
<1>2. /\ longer \in Seq(Snapshot) /\ Len(longer) = n + 1 /\ longer[n + 1] = s
      /\ \A k \in 1 .. n : longer[k] = queue[k]
  BY AppendProperties
<1>3. DOMAIN longer = 1 .. n + 1
  BY <1>2, QueueIs
<1> HIDE DEF longer, n
<1>4. n + 1 \in 1 .. n + 1 /\ \A k \in 1 .. n : k \in 1 .. n + 1 /\ ~(k > n + 1) /\ n + 1 > k
  BY <1>1
<1>5. \A k \in 1 .. n + 1 : k = n + 1 \/ k \in 1 .. n
  BY <1>1
<1>6. Waiting(i, longer) <=> Waiting(i, queue) \/ s.id = i
  BY <1>1, <1>2, <1>3, <1>4, <1>5 DEF Waiting
<1>7. s.id = i => (LastTells(longer, i, v) <=> s.st = v)
  <2>1. \A j \in 1 .. n + 1 : ~(j > n + 1)
    BY <1>1
  <2> QED
    BY <1>2, <1>3, <1>4, <1>5, <2>1 DEF LastTells
<1>8. s.id # i => (LastTells(longer, i, v) <=> LastTells(queue, i, v))
  BY <1>1, <1>2, <1>3, <1>4, <1>5 DEF LastTells
<1> QED
  BY <1>2, <1>6, <1>7, <1>8 DEF longer

(* The oldest leaves the last word to the others, if one of its row waits. *)
LEMMA Taking ==
  ASSUME NEW queue \in Seq(Snapshot), queue # <<>>, NEW i, NEW v
  PROVE  LET s == Head(queue)
             rest == Tail(queue)
         IN  /\ rest \in Seq(Snapshot) /\ s \in Snapshot /\ Len(rest) = Len(queue) - 1
             /\ Waiting(i, queue) <=> Waiting(i, rest) \/ s.id = i
             /\ LastTells(queue, i, v) => /\ LastTells(rest, i, v)
                                          /\ s.id = i /\ ~Waiting(i, rest) => s.st = v
<1> DEFINE s == Head(queue)
           rest == Tail(queue)
           n == Len(rest)
<1>1. /\ Len(queue) = n + 1 /\ n \in Nat /\ s = queue[1] /\ s \in Snapshot
      /\ rest \in Seq(Snapshot)
      /\ \A k \in 1 .. n : rest[k] = queue[k + 1]
  <2>1. IsSeq(queue) /\ Len(queue) \in Nat /\ Len(queue) # 0
    BY QueueIs
  <2>2. /\ Len(rest) = Len(queue) - 1 /\ s = queue[1]
        /\ \A k \in 1 .. Len(rest) : rest[k] = queue[k + 1]
    BY <2>1, TailOfSeq
  <2>3. rest \in Seq(Snapshot) /\ s \in Snapshot
    BY HeadTailProperties
  <2> HIDE DEF rest, s
  <2> QED
    BY <2>1, <2>2, <2>3
<1>2. DOMAIN queue = 1 .. n + 1 /\ DOMAIN rest = 1 .. n
  <2>1. DOMAIN queue = 1 .. Len(queue) /\ DOMAIN rest = 1 .. Len(rest)
    BY <1>1, QueueIs
  <2> QED
    BY <1>1, <2>1
<1> HIDE DEF s, rest, n
<1>3. /\ 1 \in 1 .. n + 1 /\ \A k \in 1 .. n : k + 1 \in 1 .. n + 1 /\ k + 1 > 1 /\ ~(1 > k + 1)
      /\ \A k \in 1 .. n + 1 : k = 1 \/ \E m \in 1 .. n : k = m + 1
  <2>1. \A k \in 1 .. n + 1 : k = 1 \/ (k - 1 \in 1 .. n /\ k = (k - 1) + 1)
    BY <1>1
  <2> QED
    BY <1>1, <2>1
<1>4. \A j, k \in 1 .. n : j + 1 > k + 1 <=> j > k
  BY <1>1
<1>5. Waiting(i, queue) <=> Waiting(i, rest) \/ s.id = i
  <2>1. ASSUME NEW k \in 1 .. n + 1, queue[k].id = i PROVE Waiting(i, rest) \/ s.id = i
    <3>1. k = 1 \/ \E m \in 1 .. n : k = m + 1
      BY <1>3
    <3> QED
      BY <1>1, <1>2, <2>1, <3>1 DEF Waiting
  <2>2. ASSUME NEW k \in 1 .. n, rest[k].id = i PROVE \E m \in 1 .. n + 1 : queue[m].id = i
    BY <1>1, <1>3, <2>2
  <2>3. s.id = i => \E m \in 1 .. n + 1 : queue[m].id = i
    BY <1>1, <1>3
  <2> QED
    BY <1>2, <2>1, <2>2, <2>3 DEF Waiting
<1>6. ASSUME LastTells(queue, i, v) PROVE LastTells(rest, i, v)
  <2> SUFFICES ASSUME NEW k \in 1 .. n, rest[k].id = i,
                      \A j \in 1 .. n : j > k => rest[j].id # i
               PROVE  rest[k].st = v
    BY <1>2 DEF LastTells
  <2>1. ASSUME NEW j \in 1 .. n + 1, j > k + 1 PROVE queue[j].id # i
    <3>1. j # 1
      BY <2>1
    <3>2. PICK m \in 1 .. n : j = m + 1
      BY <1>3, <3>1
    <3>3. m > k /\ queue[j] = rest[m]
      BY <1>1, <1>4, <2>1, <3>2
    <3> QED
      BY <3>3
  <2>2. k + 1 \in 1 .. n + 1 /\ queue[k + 1] = rest[k]
    BY <1>1, <1>3
  <2> QED
    BY <1>2, <1>6, <2>1, <2>2 DEF LastTells
<1>7. ASSUME LastTells(queue, i, v), s.id = i, ~Waiting(i, rest) PROVE s.st = v
  <2>1. ASSUME NEW j \in 1 .. n + 1, j > 1 PROVE queue[j].id # i
    <3>1. PICK m \in 1 .. n : j = m + 1
      BY <1>3, <2>1
    <3> QED
      BY <1>1, <1>2, <1>7, <3>1 DEF Waiting
  <2> QED
    BY <1>1, <1>2, <1>3, <1>7, <2>1 DEF LastTells
<1>8. Len(rest) = Len(queue) - 1
  BY <1>1 DEF n
<1> QED
  BY <1>1, <1>5, <1>6, <1>7, <1>8 DEF s, rest

(* A slice of the history, and the rest of it.                             *)
LEMMA Slicing ==
  ASSUME NEW queue \in Seq(Snapshot), Single(queue), \A k \in 1 .. Len(queue) : queue[k] \in Live,
         NEW n \in 1 .. Len(queue)
  PROVE  LET slice == SubSeq(queue, 1, n)
             rest  == SubSeq(queue, n + 1, Len(queue))
         IN  /\ IsSeq(slice) /\ Len(slice) = n /\ Single(slice)
             /\ \A k \in 1 .. n : slice[k] = queue[k] /\ slice[k] \in Live
             /\ rest \in Seq(Snapshot) /\ Single(rest)
             /\ \A k \in 1 .. Len(rest) : rest[k] \in Live
             /\ \A k \in 1 .. Len(rest) : \E m \in 1 .. Len(queue) : m > n /\ rest[k] = queue[m]
             /\ \A m \in 1 .. Len(queue) : m > n => \E k \in 1 .. Len(rest) : rest[k] = queue[m]
<1> DEFINE slice == SubSeq(queue, 1, n)
           rest  == SubSeq(queue, n + 1, Len(queue))
           l     == Len(queue)
<1>1. l \in Nat /\ n \in Nat /\ 1 <= n /\ n <= l /\ \A k \in 1 .. l : queue[k] \in Snapshot
  BY QueueIs
<1>2. /\ slice \in Seq(Snapshot) /\ Len(slice) = n
      /\ \A k \in 1 .. n : slice[k] = queue[k]
  <2>1. \A k \in 1 .. n : queue[k] \in Snapshot
    BY <1>1
  <2>2. /\ slice \in Seq(Snapshot) /\ Len(slice) = IF 1 <= n THEN n - 1 + 1 ELSE 0
        /\ \A k \in 1 .. n - 1 + 1 : slice[k] = queue[1 + k - 1]
    BY <1>1, <2>1, SubSeqProperties
  <2> HIDE DEF slice
  <2>3. (IF 1 <= n THEN n - 1 + 1 ELSE 0) = n /\ n - 1 + 1 = n
        /\ \A k \in 1 .. n : 1 + k - 1 = k
    BY <1>1
  <2> QED
    BY <2>2, <2>3
<1>3. /\ rest \in Seq(Snapshot) /\ Len(rest) = l - n
      /\ \A k \in 1 .. l - n : rest[k] = queue[n + k]
  <2>1. \A k \in n + 1 .. l : queue[k] \in Snapshot
    BY <1>1
  <2>2. /\ rest \in Seq(Snapshot) /\ Len(rest) = IF n + 1 <= l THEN l - (n + 1) + 1 ELSE 0
        /\ \A k \in 1 .. l - (n + 1) + 1 : rest[k] = queue[(n + 1) + k - 1]
    <3>1. n + 1 \in Int /\ l \in Int
      BY <1>1
    <3> QED
      BY <2>1, <3>1, SubSeqProperties
  <2> HIDE DEF rest, l
  <2>3. /\ (IF n + 1 <= l THEN l - (n + 1) + 1 ELSE 0) = l - n /\ l - (n + 1) + 1 = l - n
        /\ \A k \in 1 .. l - n : (n + 1) + k - 1 = n + k
    BY <1>1
  <2> QED
    BY <2>2, <2>3
<1> HIDE DEF slice, rest
<1>4. \A k \in 1 .. l - n : n + k \in 1 .. l /\ n + k > n
  BY <1>1
<1>5. \A k \in 1 .. n : k \in 1 .. l
  BY <1>1
<1>6. Single(slice) /\ \A k \in 1 .. n : slice[k] \in Live
  BY <1>2, <1>5 DEF Single
<1>7. Single(rest) /\ \A k \in 1 .. Len(rest) : rest[k] \in Live
  <2>1. ASSUME NEW j \in 1 .. l - n, NEW k \in 1 .. l - n, rest[j].id = rest[k].id
        PROVE  j = k
    <3>1. n + j = n + k
      <4>1. queue[n + j].id = queue[n + k].id
        BY <1>3, <2>1
      <4>2. n + j \in 1 .. l /\ n + k \in 1 .. l
        BY <1>4
      <4> QED
        BY <4>1, <4>2 DEF Single
    <3> QED
      BY <1>1, <3>1
  <2> QED
    BY <1>3, <1>4, <2>1 DEF Single
<1>8. \A k \in 1 .. Len(rest) : \E m \in 1 .. l : m > n /\ rest[k] = queue[m]
  BY <1>3, <1>4
<1>9. \A m \in 1 .. l : m > n => \E k \in 1 .. Len(rest) : rest[k] = queue[m]
  <2> SUFFICES ASSUME NEW m \in 1 .. l, m > n PROVE \E k \in 1 .. l - n : rest[k] = queue[m]
    BY <1>3
  <2>1. m - n \in 1 .. l - n /\ n + (m - n) = m
    BY <1>1
  <2> QED
    BY <1>3, <2>1
<1>10. IsSeq(slice)
  BY <1>2 DEF IsSeq
<1> QED
  BY <1>2, <1>3, <1>6, <1>7, <1>8, <1>9, <1>10 DEF slice, rest, l

LEMMA MirrorsInit == PageInit => Mirrors
<1> SUFFICES ASSUME PageInit PROVE Mirrors
  OBVIOUS
<1>1. /\ stored \in [RowIds -> {"none", "active", "done"}] /\ \A i \in RowIds : stored[i] = "none"
      /\ changed = {} /\ posted = <<>> /\ shows = "all" /\ page = UpdateEmptyState(Blank)
      /\ pending = <<>> /\ ~loading /\ loading \in BOOLEAN /\ raced = {} /\ hosted = {}
  BY DEF PageInit
<1>2. Tidy(page) /\ \A i \in RowIds : Seen(page, i) = "none"
  BY <1>1, BlankIs, Settled
<1>3. Queues
  <2>1. <<>> \in Seq(Snapshot) /\ Len(<<>>) = 0 /\ \A k : k \notin 1 .. 0
    BY EmptySeq
  <2>2. 0 <= MaxPosted
    BY PageAssumption
  <2> QED
    BY <1>1, <2>1, <2>2 DEF Queues, Single, Filters
<1>4. Mirrored
  <2> SUFFICES ASSUME NEW i \in RowIds PROVE UpToDate(i)
    BY DEF Mirrored
  <2>1. Kept([id |-> i, st |-> stored[i]], shows) = "none"
    BY <1>1 DEF Kept
  <2>2. \A k : k \notin 1 .. Len(pending)
    BY <1>1, EmptyIsSeq
  <2> QED
    BY <1>1, <1>2, <2>1, <2>2, NoneWaits DEF UpToDate
<1> QED
  BY <1>2, <1>3, <1>4 DEF Mirrors

LEMMA NobodySpeaks ==
  ASSUME NEW queue, NEW i, ~Waiting(i, queue)
  PROVE  \A v : LastTells(queue, i, v)
BY DEF Waiting, LastTells

(* A row is written, or read again, and shown on the spot.                 *)
LEMMA ShownNow ==
  ASSUME Mirrors, NEW id \in RowIds,
         Tidy(page'), Says(page, page', id, Kept([id |-> id, st |-> stored'[id]], shows)),
         stored' \in [RowIds -> {"none", "active", "done"}],
         \A i \in RowIds \ {id} : stored'[i] = stored[i],
         changed \subseteq changed', changed' \subseteq RowIds,
         raced' = Overtaken(id, posted),
         UNCHANGED <<posted, shows, pending, loading, hosted>>
  PROVE  Mirrors'
<1>1. Queues'
  BY DEF Mirrors, Queues, Overtaken, Single
<1>2. Mirrored'
  <2> SUFFICES ASSUME NEW i \in RowIds \ raced', i \in hosted => stored'[i] = "none"
               PROVE  UpToDate(i)'
    BY DEF Mirrored
  <2>1. CASE i = id
    <3>1. ~Waiting(id, posted) /\ ~Waiting(id, pending)
      BY <2>1 DEF Overtaken
    <3>2. Len(pending) \in Nat /\ DOMAIN pending = 1 .. Len(pending)
      BY QueueIs DEF Mirrors, Queues
    <3>3. \A k \in 1 .. Len(pending) : pending[k].id # id
      BY <3>1, <3>2 DEF Waiting
    <3>4. Seen(page', id) = Kept([id |-> id, st |-> stored'[id]], shows)
      BY DEF Says
    <3>5. LastTells(posted, id, stored'[id])
      BY <3>1, NobodySpeaks
    <3> QED
      BY <2>1, <3>3, <3>4, <3>5 DEF UpToDate
  <2>2. CASE i # id
    <3>1. i \notin raced
      BY <2>2 DEF Overtaken
    <3>2. UpToDate(i) /\ stored'[i] = stored[i]
      BY <2>2, <3>1 DEF Mirrors, Mirrored
    <3>3. Seen(page', i) = Seen(page, i)
      BY <2>2 DEF Says
    <3> QED
      BY <3>2, <3>3 DEF UpToDate
  <2> QED
    BY <2>1, <2>2
<1> QED
  BY <1>1, <1>2 DEF Mirrors

LEMMA Writing ==
  ASSUME Mirrors, NEW id \in RowIds, NEW st \in {"none", "active", "done"}, Write(id, st)
  PROVE  /\ stored' \in [RowIds -> {"none", "active", "done"}] /\ stored'[id] = st
         /\ \A i \in RowIds \ {id} : stored'[i] = stored[i]
         /\ changed' = changed \cup {id} /\ changed' \subseteq RowIds
         /\ [id |-> id, st |-> st] \in Snapshot
BY DEF Mirrors, Queues, Write, Snapshot

LEMMA HereKept ==
  ASSUME Mirrors, NEW id \in RowIds, NEW st \in {"none", "active", "done"}, WriteHere(id, st)
  PROVE  Mirrors'
<1> DEFINE s == [id |-> id, st |-> st]
<1>1. /\ Write(id, st) /\ page' = Handle(page, s, shows) /\ raced' = Overtaken(id, posted)
      /\ UNCHANGED <<posted, shows, pending, loading, hosted>>
  BY DEF WriteHere
<1>2. s \in Snapshot /\ s.id = id /\ stored'[id] = st
  BY <1>1, Writing
<1> HIDE DEF s
<1>3. Tidy(page') /\ Says(page, page', id, Kept(s, shows))
  BY <1>1, <1>2, Handled DEF Mirrors
<1>4. s = [id |-> id, st |-> stored'[id]]
  BY <1>2 DEF s
<1> QED
  BY <1>1, <1>3, <1>4, Writing, ShownNow

LEMMA ProgressKept ==
  ASSUME Mirrors, NEW id \in RowIds, Progress(id)
  PROVE  Mirrors'
<1> DEFINE s == [id |-> id, st |-> stored[id]]
<1>1. /\ stored[id] = "active" /\ page' = Upsert(page, s, shows, FALSE)
      /\ raced' = Overtaken(id, posted)
      /\ UNCHANGED <<stored, changed, posted, shows, pending, loading, hosted>>
  BY DEF Progress
<1>2. s \in Live /\ s.id = id
  BY <1>1 DEF Live, Snapshot
<1> HIDE DEF s
<1>3. Tidy(page') /\ Says(page, page', id, Kept(s, shows))
  BY <1>1, <1>2, Upserted DEF Mirrors
<1>4. s = [id |-> id, st |-> stored'[id]]
  BY <1>1 DEF s
<1>5. /\ stored' \in [RowIds -> {"none", "active", "done"}] /\ changed \subseteq changed'
      /\ changed' \subseteq RowIds
  BY <1>1 DEF Mirrors, Queues
<1> QED
  BY <1>1, <1>3, <1>4, <1>5, ShownNow

LEMMA ElsewhereKept ==
  ASSUME Mirrors, NEW id \in RowIds, NEW st \in {"none", "active", "done"},
         WriteElsewhere(id, st)
  PROVE  Mirrors'
<1> DEFINE s == [id |-> id, st |-> st]
<1>1. /\ Len(posted) < MaxPosted /\ Write(id, st) /\ posted' = Append(posted, s)
      /\ UNCHANGED <<shows, page, pending, loading, raced, hosted>>
  BY DEF WriteElsewhere
<1>2. s \in Snapshot /\ s.id = id /\ s.st = st
  BY <1>1, Writing
<1>w. stored'[id] = st /\ \A i \in RowIds \ {id} : stored'[i] = stored[i]
  BY <1>1, Writing
<1> HIDE DEF s
<1>3. posted \in Seq(Snapshot) /\ Len(posted) \in Nat /\ MaxPosted \in Nat
  BY QueueIs, PageAssumption DEF Mirrors, Queues
<1>4. posted' \in Seq(Snapshot) /\ Len(posted') <= MaxPosted
  <2>1. posted' \in Seq(Snapshot) /\ Len(posted') = Len(posted) + 1
    BY <1>1, <1>2, <1>3, AppendProperties
  <2> QED
    BY <1>1, <1>3, <2>1
<1>5. Queues'
  BY <1>1, <1>4, Writing DEF Mirrors, Queues, Single
<1>6. Mirrored'
  <2> SUFFICES ASSUME NEW i \in RowIds \ raced, i \in hosted => stored'[i] = "none"
               PROVE  UpToDate(i)'
    BY <1>1 DEF Mirrored
  <2>1. CASE i = id
    <3>1. Waiting(i, posted') /\ LastTells(posted', i, stored'[i])
      <4>1. stored'[i] = st /\ s.id = i /\ s.st = st
        BY <1>w, <1>2, <2>1
      <4>2. Waiting(i, Append(posted, s)) /\ LastTells(Append(posted, s), i, st)
        BY <1>2, <1>3, <4>1, Posting
      <4> QED
        BY <1>1, <4>1, <4>2
    <3> QED
      BY <3>1 DEF UpToDate
  <2>2. CASE i # id
    <3>1. stored'[i] = stored[i]
      BY <1>w, <2>2
    <3>2. UpToDate(i)
      BY <3>1 DEF Mirrors, Mirrored
    <3>3. /\ Waiting(i, posted') <=> Waiting(i, posted)
          /\ LastTells(posted', i, stored[i]) <=> LastTells(posted, i, stored[i])
      BY <1>1, <1>2, <1>3, <2>2, Posting
    <3> QED
      BY <1>1, <3>1, <3>2, <3>3 DEF UpToDate
  <2> QED
    BY <2>1, <2>2
<1> QED
  BY <1>1, <1>5, <1>6 DEF Mirrors

LEMMA DispatchKept ==
  ASSUME Mirrors, Dispatch
  PROVE  Mirrors'
<1> DEFINE s == Head(posted)
<1>1. /\ posted # <<>> /\ posted' = Tail(posted) /\ page' = Handle(page, s, shows)
      /\ raced' = IF Waiting(s.id, pending) THEN raced \cup {s.id} ELSE raced
      /\ UNCHANGED <<stored, changed, shows, pending, loading, hosted>>
  BY DEF Dispatch
<1>2. posted \in Seq(Snapshot) /\ Len(posted) \in Nat /\ MaxPosted \in Nat
  BY QueueIs, PageAssumption DEF Mirrors, Queues
<1>3. posted' \in Seq(Snapshot) /\ Len(posted') = Len(posted) - 1 /\ s \in Snapshot
  BY <1>1, <1>2, Taking
<1>4. ASSUME NEW i, NEW v
      PROVE  /\ Waiting(i, posted) <=> Waiting(i, posted') \/ s.id = i
             /\ LastTells(posted, i, v) => /\ LastTells(posted', i, v)
                                           /\ s.id = i /\ ~Waiting(i, posted') => s.st = v
  BY <1>1, <1>2, Taking
<1> HIDE DEF s
<1>5. s.id \in RowIds /\ s = [id |-> s.id, st |-> s.st]
  BY <1>3 DEF Snapshot
<1>6. Tidy(page') /\ Says(page, page', s.id, Kept(s, shows))
  BY <1>1, <1>3, Handled DEF Mirrors
<1>7. Queues'
  <2>1. Len(posted') <= MaxPosted
    BY <1>2, <1>3 DEF Mirrors, Queues
  <2> QED
    BY <1>1, <1>3, <1>5, <2>1 DEF Mirrors, Queues, Single
<1>8. Mirrored'
  <2> SUFFICES ASSUME NEW i \in RowIds \ raced', i \in hosted => stored[i] = "none"
               PROVE  UpToDate(i)'
    BY <1>1 DEF Mirrored
  <2>1. UpToDate(i)
    BY <1>1 DEF Mirrors, Mirrored
  <2>2. LastTells(posted', i, stored[i])
    BY <1>4, <2>1 DEF UpToDate
  <2>3. CASE i = s.id
    <3>1. ~Waiting(i, pending)
      BY <1>1, <2>3
    <3>2. \A k \in 1 .. Len(pending) : pending[k].id # i
      <4>1. DOMAIN pending = 1 .. Len(pending)
        BY QueueIs DEF Mirrors, Queues
      <4> QED
        BY <3>1, <4>1 DEF Waiting
    <3>3. ~Waiting(i, posted') => s.st = stored[i]
      BY <1>4, <2>1, <2>3 DEF UpToDate
    <3>4. Seen(page', i) = Kept(s, shows)
      BY <1>6, <2>3 DEF Says
    <3>5. ~Waiting(i, posted') => Seen(page', i) = Kept([id |-> i, st |-> stored[i]], shows)
      BY <1>5, <2>3, <3>3, <3>4
    <3> QED
      BY <1>1, <2>2, <3>2, <3>5 DEF UpToDate
  <2>4. CASE i # s.id
    <3>1. Waiting(i, posted') <=> Waiting(i, posted)
      BY <1>4, <2>4
    <3>2. Seen(page', i) = Seen(page, i)
      BY <1>6, <2>4 DEF Says
    <3> QED
      BY <1>1, <2>1, <2>2, <3>1, <3>2 DEF UpToDate
  <2> QED
    BY <2>3, <2>4
<1> QED
  BY <1>6, <1>7, <1>8 DEF Mirrors

LEMMA HostKept ==
  ASSUME Mirrors, NEW id \in RowIds, NEW st \in {"active", "done"}, HostWrites(id, st)
  PROVE  Mirrors'
<1>1. /\ Write(id, st) /\ hosted' = hosted \cup {id} /\ st # "none"
      /\ UNCHANGED <<posted, shows, page, pending, loading, raced>>
  BY DEF HostWrites
<1>2. /\ stored' \in [RowIds -> {"none", "active", "done"}] /\ stored'[id] = st
      /\ \A i \in RowIds \ {id} : stored'[i] = stored[i]
      /\ changed' = changed \cup {id} /\ changed' \subseteq RowIds
  BY <1>1, Writing
<1>3. Queues'
  BY <1>1, <1>2 DEF Mirrors, Queues, Single
<1>4. Mirrored'
  <2> SUFFICES ASSUME NEW i \in RowIds \ raced, i \in hosted' => stored'[i] = "none"
               PROVE  UpToDate(i)'
    BY <1>1 DEF Mirrored
  <2>1. i # id
    BY <1>1, <1>2
  <2>2. stored'[i] = stored[i] /\ (i \in hosted => stored[i] = "none")
    BY <1>1, <1>2, <2>1
  <2>3. UpToDate(i)
    BY <2>2 DEF Mirrors, Mirrored
  <2> QED
    BY <1>1, <2>2, <2>3 DEF UpToDate
<1> QED
  BY <1>1, <1>3, <1>4 DEF Mirrors

LEMMA SyncKept ==
  ASSUME Mirrors, SyncDownloads
  PROVE  Mirrors'
<1> DEFINE fresh == Snapshots(changed)
           ids   == {fresh[k].id : k \in DOMAIN fresh}
           late  == {i \in ids : Waiting(i, posted) \/ Waiting(i, pending)}
<1>1. /\ changed' = {} /\ hosted' = {} /\ page' = Load(page, fresh, shows, FALSE)
      /\ raced' = (raced \ ids) \cup late
      /\ UNCHANGED <<stored, posted, shows, pending, loading>>
  BY DEF SyncDownloads
<1>2. /\ fresh \in Seq(Snapshot) /\ Single(fresh)
      /\ \A k \in 1 .. Len(fresh) : /\ fresh[k] \in Live /\ fresh[k].id \in changed
                                    /\ fresh[k].st = stored[fresh[k].id]
      /\ \A i \in changed : stored[i] # "none" => \E k \in 1 .. Len(fresh) : fresh[k].id = i
  BY SnapshotsAre DEF Mirrors, Queues
<1> HIDE DEF fresh
<1>3. DOMAIN fresh = 1 .. Len(fresh) /\ IsSeq(fresh)
  BY <1>2, QueueIs
<1>4. /\ Tidy(page')
      /\ \A k \in 1 .. Len(fresh) : Seen(page', fresh[k].id) = Kept(fresh[k], shows)
      /\ \A i \in RowIds : (\A k \in 1 .. Len(fresh) : fresh[k].id # i)
                             => Seen(page', i) = Seen(page, i)
  <2>1. Listed(fresh)
    BY <1>2, <1>3 DEF Listed
  <2>2. Tidy(page)
    BY DEF Mirrors
  <2>3. ListSaid(page, Load(page, fresh, shows, FALSE), fresh, shows)
    BY <2>1, <2>2, LoadSays
  <2>4. ListSaid(page, page', fresh, shows)
    BY <1>1, <2>3
  <2> QED
    BY <2>4 DEF ListSaid
<1>5. changed \subseteq RowIds /\ ids \subseteq changed
  BY <1>2, <1>3 DEF Mirrors, Queues
<1>6. Queues'
  <2>1. raced' \subseteq RowIds
    BY <1>1, <1>5 DEF Mirrors, Queues
  <2> QED
    BY <1>1, <2>1 DEF Mirrors, Queues, Single
<1>7. Mirrored'
  <2> SUFFICES ASSUME NEW i \in RowIds \ raced' PROVE UpToDate(i)'
    BY DEF Mirrored
  <2>1. CASE i \in ids
    <3>1. PICK k \in 1 .. Len(fresh) : fresh[k].id = i
      BY <1>3, <2>1
    <3>2. ~Waiting(i, posted) /\ ~Waiting(i, pending)
      BY <1>1, <2>1
    <3>3. fresh[k] = [id |-> i, st |-> stored[i]]
      BY <1>2, <3>1 DEF Live, Snapshot
    <3>4. Seen(page', i) = Kept([id |-> i, st |-> stored[i]], shows)
      BY <1>4, <3>1, <3>3
    <3>5. \A m \in 1 .. Len(pending) : pending[m].id # i
      <4>1. DOMAIN pending = 1 .. Len(pending)
        BY QueueIs DEF Mirrors, Queues
      <4> QED
        BY <3>2, <4>1 DEF Waiting
    <3>6. LastTells(posted, i, stored[i])
      BY <3>2, NobodySpeaks
    <3> QED
      BY <1>1, <3>4, <3>5, <3>6 DEF UpToDate
  <2>2. CASE i \notin ids
    <3>1. i \notin raced
      BY <1>1, <2>2
    <3>2. i \in hosted => stored[i] = "none"
      BY <1>2, <1>3, <2>2 DEF Mirrors, Queues
    <3>3. UpToDate(i)
      BY <3>1, <3>2 DEF Mirrors, Mirrored
    <3>4. Seen(page', i) = Seen(page, i)
      BY <1>3, <1>4, <2>2
    <3> QED
      BY <1>1, <3>3, <3>4 DEF UpToDate
  <2> QED
    BY <2>1, <2>2
<1> QED
  BY <1>4, <1>6, <1>7 DEF Mirrors

(* The page read afresh, at once or in slices.                             *)
LEMMA RefreshKept ==
  ASSUME Mirrors, Refresh(shows'), shows' \in Filters, UNCHANGED <<stored, changed, posted>>
  PROVE  Mirrors'
<1> DEFINE all == Snapshots(RowIds)
<1>1. /\ all \in Seq(Snapshot) /\ Single(all) /\ IsSeq(all) /\ DOMAIN all = 1 .. Len(all)
      /\ \A k \in 1 .. Len(all) : /\ all[k] \in Live /\ all[k].id \in RowIds
                                  /\ all[k].st = stored[all[k].id]
      /\ \A i \in RowIds : stored[i] # "none" => \E k \in 1 .. Len(all) : all[k].id = i
  <2>1. stored \in [RowIds -> {"none", "active", "done"}]
    BY DEF Mirrors, Queues
  <2>2. /\ all \in Seq(Snapshot) /\ Single(all)
        /\ \A k \in 1 .. Len(all) : /\ all[k] \in Live /\ all[k].id \in RowIds
                                    /\ all[k].st = stored[all[k].id]
        /\ \A i \in RowIds : stored[i] # "none" => \E k \in 1 .. Len(all) : all[k].id = i
    BY <2>1, SnapshotsAre
  <2> HIDE DEF all
  <2> QED
    BY <2>2, QueueIs
<1>2. /\ \/ /\ page' = [Blank EXCEPT !.table = <<Placeholder>>, !.empty = TRUE]
            /\ pending' = all /\ loading' = TRUE
         \/ /\ page' = [UpdateEmptyState(Load(Blank, all, shows', TRUE)) EXCEPT !.dirty = FALSE]
            /\ pending' = <<>> /\ loading' = FALSE
      /\ raced' = {i \in raced : Waiting(i, posted)}
      /\ hosted' = {i \in hosted : Waiting(i, posted)}
  BY DEF Refresh
<1> HIDE DEF all
<1>3. Queues'
  <2>1. pending' \in Seq(Snapshot) /\ Single(pending')
        /\ \A k \in 1 .. Len(pending') : pending'[k] \in Live
    <3>1. <<>> \in Seq(Snapshot) /\ Len(<<>>) = 0 /\ \A k : k \notin 1 .. 0
      BY EmptySeq
    <3>2. Single(<<>>)
      BY <3>1 DEF Single
    <3> QED
      BY <1>1, <1>2, <3>1, <3>2
  <2>2. loading' \in BOOLEAN /\ (~loading' => pending' = <<>>)
    BY <1>2
  <2>3. Single(pending)'
    BY <2>1 DEF Single
  <2> QED
    BY <1>2, <2>1, <2>2, <2>3 DEF Mirrors, Queues
\* What it says, or will say, of each row
<1>4. Tidy(page') /\ \A i \in RowIds :
        /\ \A k \in 1 .. Len(pending') : pending'[k].id = i => pending'[k].st = stored[i]
        /\ ~Waiting(i, pending') => Seen(page', i) = Kept([id |-> i, st |-> stored[i]], shows')
  <2>1. CASE /\ page' = [Blank EXCEPT !.table = <<Placeholder>>, !.empty = TRUE]
             /\ pending' = all
    <3>1. Tidy(page') /\ \A i \in RowIds : Seen(page', i) = "none"
      BY <2>1, PlaceholderAlone
    <3>2. ASSUME NEW i \in RowIds, ~Waiting(i, pending') PROVE stored[i] = "none"
      BY <1>1, <2>1, <3>2 DEF Waiting
    <3>3. ASSUME NEW i \in RowIds, stored[i] = "none"
          PROVE  Kept([id |-> i, st |-> stored[i]], shows') = "none"
      BY <3>3 DEF Kept
    <3> QED
      BY <1>1, <2>1, <3>1, <3>2, <3>3
  <2>2. CASE /\ page' = [UpdateEmptyState(Load(Blank, all, shows', TRUE)) EXCEPT !.dirty = FALSE]
             /\ pending' = <<>>
    <3> DEFINE q == Load(Blank, all, shows', TRUE)
    <3>1. /\ Tidy(q)
          /\ \A k \in 1 .. Len(all) : Seen(q, all[k].id) = Kept(all[k], shows')
          /\ \A i \in RowIds : (\A k \in 1 .. Len(all) : all[k].id # i)
                                 => Seen(q, i) = Seen(Blank, i)
      <4>1. Listed(all) /\ Tidy(Blank)
        BY <1>1, BlankIs DEF Listed
      <4>2. ListSaid(Blank, q, all, shows')
        BY <4>1, LoadSays
      <4> HIDE DEF q
      <4> QED
        BY <4>2 DEF ListSaid
    <3> HIDE DEF q
    <3> DEFINE u == UpdateEmptyState(q)
    <3>2. Tidy(u) /\ \A i \in RowIds : Seen(u, i) = Seen(q, i)
      BY <3>1, Settled
    <3>3. page' = [u EXCEPT !.dirty = FALSE]
      BY <2>2 DEF q
    <3> HIDE DEF u
    <3>4. Tidy(page') /\ \A i \in RowIds : Seen(page', i) = Seen(u, i)
      BY <3>2, <3>3, DirtyOnly
    <3>5. \A k : k \notin 1 .. Len(pending')
      BY <2>2, EmptyIsSeq
    <3>6. ASSUME NEW i \in RowIds
          PROVE  Seen(page', i) = Kept([id |-> i, st |-> stored[i]], shows')
      <4>1. Seen(page', i) = Seen(q, i)
        BY <3>2, <3>4
      <4>2. CASE stored[i] # "none"
        <5>1. PICK k \in 1 .. Len(all) : all[k].id = i
          BY <1>1, <4>2
        <5>2. all[k] = [id |-> i, st |-> stored[i]]
          BY <1>1, <5>1 DEF Live, Snapshot
        <5> QED
          BY <3>1, <4>1, <5>1, <5>2
      <4>3. CASE stored[i] = "none"
        <5>1. \A k \in 1 .. Len(all) : all[k].id # i
          BY <1>1, <4>3 DEF Live
        <5>2. Kept([id |-> i, st |-> stored[i]], shows') = "none"
          BY <4>3 DEF Kept
        <5>3. Seen(q, i) = "none"
          BY <3>1, <5>1, BlankIs
        <5> QED
          BY <4>1, <5>2, <5>3
      <4> QED
        BY <4>2, <4>3
    <3> QED
      BY <3>4, <3>5, <3>6
  <2> QED
    BY <1>2, <2>1, <2>2
<1>5. Mirrored'
  <2> SUFFICES ASSUME NEW i \in RowIds \ raced', i \in hosted' => stored[i] = "none"
               PROVE  UpToDate(i)'
    BY DEF Mirrored
  <2>1. CASE Waiting(i, posted)
    <3>1. UpToDate(i)
      BY <1>2, <2>1 DEF Mirrors, Mirrored
    <3> QED
      BY <2>1, <3>1 DEF UpToDate
  <2>2. CASE ~Waiting(i, posted)
    <3>1. LastTells(posted, i, stored[i])
      BY <2>2, NobodySpeaks
    <3> QED
      BY <1>4, <2>2, <3>1 DEF UpToDate
  <2> QED
    BY <2>1, <2>2
<1> QED
  BY <1>3, <1>4, <1>5 DEF Mirrors

(* A slice of the history is shown.                                        *)
LEMMA SliceKept ==
  ASSUME Mirrors, NEW n, n \in 1 .. Len(pending),
         page' = Load(ClearEmptyRow(page), SubSeq(pending, 1, n), shows, TRUE),
         pending' = SubSeq(pending, n + 1, Len(pending)), loading,
         UNCHANGED <<stored, changed, posted, shows, loading, raced, hosted>>
  PROVE  Mirrors'
<1> DEFINE slice == SubSeq(pending, 1, n)
           c     == ClearEmptyRow(page)
<1>1. /\ IsSeq(slice) /\ Len(slice) = n /\ Single(slice)
      /\ \A k \in 1 .. n : slice[k] = pending[k] /\ slice[k] \in Live
      /\ pending' \in Seq(Snapshot) /\ Single(pending')
      /\ \A k \in 1 .. Len(pending') : pending'[k] \in Live
      /\ \A k \in 1 .. Len(pending') : \E m \in 1 .. Len(pending) : m > n /\ pending'[k] = pending[m]
      /\ \A m \in 1 .. Len(pending) : m > n => \E k \in 1 .. Len(pending') : pending'[k] = pending[m]
  <2>1. pending \in Seq(Snapshot) /\ Single(pending) /\ \A k \in 1 .. Len(pending) : pending[k] \in Live
    BY DEF Mirrors, Queues
  <2> DEFINE rest == SubSeq(pending, n + 1, Len(pending))
  <2>2. /\ IsSeq(slice) /\ Len(slice) = n /\ Single(slice)
        /\ \A k \in 1 .. n : slice[k] = pending[k] /\ slice[k] \in Live
        /\ rest \in Seq(Snapshot) /\ Single(rest)
        /\ \A k \in 1 .. Len(rest) : rest[k] \in Live
        /\ \A k \in 1 .. Len(rest) : \E m \in 1 .. Len(pending) : m > n /\ rest[k] = pending[m]
        /\ \A m \in 1 .. Len(pending) : m > n => \E k \in 1 .. Len(rest) : rest[k] = pending[m]
    BY <2>1, Slicing
  <2>3. pending' = rest
    OBVIOUS
  <2> DEFINE Sliced(q) ==
        /\ IsSeq(slice) /\ Len(slice) = n /\ Single(slice)
        /\ \A k \in 1 .. n : slice[k] = pending[k] /\ slice[k] \in Live
        /\ q \in Seq(Snapshot) /\ Single(q)
        /\ \A k \in 1 .. Len(q) : q[k] \in Live
        /\ \A k \in 1 .. Len(q) : \E m \in 1 .. Len(pending) : m > n /\ q[k] = pending[m]
        /\ \A m \in 1 .. Len(pending) : m > n => \E k \in 1 .. Len(q) : q[k] = pending[m]
  <2>4. Sliced(rest)
    BY <2>2
  <2> HIDE DEF slice, rest, Sliced
  <2>5. Sliced(pending')
    BY <2>3, <2>4
  <2> QED
    BY <2>5 DEF Sliced
<1>2. /\ DOMAIN pending = 1 .. Len(pending) /\ DOMAIN pending' = 1 .. Len(pending')
      /\ Len(pending) \in Nat /\ Single(pending)
  BY <1>1, QueueIs DEF Mirrors, Queues
<1>w. \A i : /\ Waiting(i, pending) <=> \E k \in 1 .. Len(pending) : pending[k].id = i
            /\ Waiting(i, pending') <=> \E k \in 1 .. Len(pending') : pending'[k].id = i
  BY ONLY <1>2 DEF Waiting
<1>8. n \in Nat /\ 1 <= n /\ n <= Len(pending)
  <2> DEFINE l == Len(pending)
  <2>1. l \in Nat /\ n \in 1 .. l
    BY ONLY <1>2, n \in 1 .. Len(pending)
  <2> HIDE DEF l
  <2>2. n \in Nat /\ 1 <= n /\ n <= l
    BY ONLY <2>1
  <2> QED
    BY <2>2 DEF l
<1>3. /\ Tidy(c) /\ \A i \in RowIds : Seen(c, i) = Seen(page, i)
  BY Cleared DEF Mirrors
<1>4. page' = Load(c, slice, shows, TRUE)
  OBVIOUS
<1> HIDE DEF slice, c
<1>5. /\ Tidy(page')
      /\ \A k \in 1 .. n : Seen(page', pending[k].id) = Kept(pending[k], shows)
      /\ \A i \in RowIds : (\A k \in 1 .. n : pending[k].id # i) => Seen(page', i) = Seen(page, i)
  <2>1. /\ Tidy(page')
        /\ \A k \in 1 .. Len(slice) : Seen(page', slice[k].id) = Kept(slice[k], shows)
        /\ \A i \in RowIds : (\A k \in 1 .. Len(slice) : slice[k].id # i)
                               => Seen(page', i) = Seen(c, i)
    <3>1. Listed(slice)
      BY <1>1 DEF Listed
    <3>2. ListSaid(c, Load(c, slice, shows, TRUE), slice, shows)
      BY <1>3, <3>1, LoadSays
    <3> QED
      BY <1>4, <3>2 DEF ListSaid
  <2>2. Len(slice) = n /\ \A k \in 1 .. n : slice[k] = pending[k]
    BY <1>1
  <2>3. \A k \in 1 .. n : Seen(page', pending[k].id) = Kept(pending[k], shows)
    BY ONLY <2>1, <2>2
  <2>4. ASSUME NEW i \in RowIds, \A k \in 1 .. n : pending[k].id # i
        PROVE  Seen(page', i) = Seen(page, i)
    <3>1. \A k \in 1 .. Len(slice) : slice[k].id # i
      BY ONLY <2>2, <2>4
    <3>2. Seen(c, i) = Seen(page, i)
      BY <1>3
    <3> QED
      BY <2>1, <3>1, <3>2
  <2> QED
    BY <2>1, <2>3, <2>4
<1>6. Queues'
  <2>1. Single(pending)'
    BY <1>1 DEF Single
  <2> QED
    BY <1>1, <2>1 DEF Mirrors, Queues
<1>7. Mirrored'
  <2> SUFFICES ASSUME NEW i \in RowIds \ raced, i \in hosted => stored[i] = "none"
               PROVE  UpToDate(i)'
    BY DEF Mirrored
  <2>1. UpToDate(i)
    BY DEF Mirrors, Mirrored
  <2>2. ASSUME ~Waiting(i, posted)
        PROVE  /\ \A k \in 1 .. Len(pending') : pending'[k].id = i => pending'[k].st = stored[i]
               /\ ~Waiting(i, pending') => Seen(page', i) = Kept([id |-> i, st |-> stored[i]], shows)
    <3>1. /\ \A k \in 1 .. Len(pending) : pending[k].id = i => pending[k].st = stored[i]
          /\ ~Waiting(i, pending) => Seen(page, i) = Kept([id |-> i, st |-> stored[i]], shows)
      BY <2>1, <2>2 DEF UpToDate
    <3>2. \A k \in 1 .. Len(pending') : pending'[k].id = i => pending'[k].st = stored[i]
      <4> SUFFICES ASSUME NEW k \in 1 .. Len(pending'), pending'[k].id = i
                   PROVE  pending'[k].st = stored[i]
        OBVIOUS
      <4>1. PICK m \in 1 .. Len(pending) : pending'[k] = pending[m]
        BY <1>1
      <4> QED
        BY <3>1, <4>1
    <3>3. ASSUME ~Waiting(i, pending')
          PROVE  Seen(page', i) = Kept([id |-> i, st |-> stored[i]], shows)
      <4>1. \A m \in 1 .. Len(pending) : m > n => pending[m].id # i
        <5> SUFFICES ASSUME NEW m \in 1 .. Len(pending), m > n, pending[m].id = i
                     PROVE  FALSE
          OBVIOUS
        <5>1. PICK k \in 1 .. Len(pending') : pending'[k] = pending[m]
          BY <1>1
        <5> QED
          BY <1>w, <3>3, <5>1
      <4>2. CASE \E k \in 1 .. n : pending[k].id = i
        <5>1. PICK k \in 1 .. n : pending[k].id = i
          BY <4>2
        <5>2. k \in 1 .. Len(pending) /\ pending[k] \in Live
          <6>1. k \in 1 .. Len(pending)
            BY ONLY <1>8, <1>2, k \in 1 .. n
          <6> QED
            BY <6>1 DEF Mirrors, Queues
        <5>3. pending[k] = [id |-> i, st |-> stored[i]]
          BY <3>1, <5>1, <5>2 DEF Live, Snapshot
        <5> QED
          BY <1>5, <5>1, <5>3
      <4>3. CASE \A k \in 1 .. n : pending[k].id # i
        <5>1. ~Waiting(i, pending)
          <6>1. \A m \in 1 .. Len(pending) : m > n \/ m \in 1 .. n
            BY ONLY <1>8, <1>2
          <6>2. \A m \in 1 .. Len(pending) : pending[m].id # i
            BY ONLY <4>1, <4>3, <6>1
          <6> QED
            BY ONLY <1>2, <6>2 DEF Waiting
        <5> QED
          BY <1>5, <3>1, <4>3, <5>1
      <4> QED
        BY <4>2, <4>3
    <3> QED
      BY <3>2, <3>3
  <2> QED
    BY <2>1, <2>2 DEF UpToDate
<1> QED
  BY <1>5, <1>6, <1>7 DEF Mirrors

LEMMA ChunkKept ==
  ASSUME Mirrors, LoadChunk
  PROVE  Mirrors'
<1>1. loading /\ UNCHANGED <<stored, changed, posted, shows, raced, hosted>>
  BY DEF LoadChunk
<1>2. CASE /\ pending = <<>> /\ loading' = FALSE
           /\ page' = UpdateEmptyState([page EXCEPT !.dirty = FALSE])
           /\ UNCHANGED pending
  <2> DEFINE q == [page EXCEPT !.dirty = FALSE]
  <2>1. Tidy(q) /\ \A i \in RowIds : Seen(q, i) = Seen(page, i)
    BY DirtyOnly DEF Mirrors
  <2>2. page' = UpdateEmptyState(q)
    BY <1>2
  <2> HIDE DEF q
  <2>3. Tidy(page') /\ \A i \in RowIds : Seen(page', i) = Seen(page, i)
    BY <2>1, <2>2, Settled
  <2>4. Queues'
    BY <1>1, <1>2 DEF Mirrors, Queues, Single
  <2>5. Mirrored'
    <3> SUFFICES ASSUME NEW i \in RowIds \ raced, i \in hosted => stored[i] = "none"
                 PROVE  UpToDate(i)'
      BY <1>1 DEF Mirrored
    <3>1. UpToDate(i)
      BY DEF Mirrors, Mirrored
    <3> QED
      BY <1>1, <1>2, <2>3, <3>1 DEF UpToDate
  <2> QED
    BY <2>3, <2>4, <2>5 DEF Mirrors
<1>3. CASE \E n \in 1 .. Len(pending) :
             /\ page' = Load(ClearEmptyRow(page), SubSeq(pending, 1, n), shows, TRUE)
             /\ pending' = SubSeq(pending, n + 1, Len(pending))
             /\ UNCHANGED loading
  BY <1>1, <1>3, SliceKept
<1> QED
  BY <1>2, <1>3 DEF LoadChunk

LEMMA MirrorsStep == Mirrors /\ [PageNext]_pageVars => Mirrors'
<1> SUFFICES ASSUME Mirrors, [PageNext]_pageVars PROVE Mirrors'
  OBVIOUS
<1>1. CASE \E f \in Filters : SetFilter(f)
  BY <1>1, RefreshKept DEF SetFilter
<1>2. CASE Navigate
  <2>1. shows' \in Filters /\ shows' = shows
    BY <1>2 DEF Navigate, Mirrors, Queues
  <2> QED
    BY <1>2, <2>1, RefreshKept DEF Navigate
<1>3. CASE LoadChunk
  BY <1>3, ChunkKept
<1>4. CASE \E id \in RowIds, st \in {"none", "active", "done"} :
             WriteHere(id, st) \/ WriteElsewhere(id, st)
  BY <1>4, HereKept, ElsewhereKept
<1>5. CASE Dispatch
  BY <1>5, DispatchKept
<1>6. CASE \E id \in RowIds : Progress(id)
  BY <1>6, ProgressKept
<1>7. CASE \E id \in RowIds, st \in {"active", "done"} : HostWrites(id, st)
  BY <1>7, HostKept
<1>8. CASE SyncDownloads
  BY <1>8, SyncKept
<1>9. CASE UNCHANGED pageVars
  BY <1>9 DEF pageVars, Mirrors, Queues, Mirrored, UpToDate, Single
<1> QED
  BY <1>1, <1>2, <1>3, <1>4, <1>5, <1>6, <1>7, <1>8, <1>9 DEF PageNext

-----------------------------------------------------------------------------
(* What it comes to                                                        *)

LEMMA MirrorsAlways == PageSpec => []Mirrors
<1>1. Mirrors /\ [PageNext]_pageVars => Mirrors'
  BY MirrorsStep
<1> QED
  BY <1>1, MirrorsInit, PTL DEF PageSpec

(* The widget's rows below the placeholder.                                *)
LEMMA RealIs ==
  ASSUME NEW p, Tidy(p)
  PROVE  LET real == IF p.empty THEN Tail(p.table) ELSE p.table
         IN  /\ Len(real) = Len(p.ids) /\ DOMAIN real = 1 .. Len(p.ids)
             /\ \A k \in 1 .. Len(p.ids) : /\ real[k] \in Live /\ real[k].id = p.ids[k]
                                           /\ p.rows[real[k].id] = k
             /\ \A i \in RowIds : p.rows[i] # 0 => real[p.rows[i]] = p.table[p.rows[i]]
<1> DEFINE real == IF p.empty THEN Tail(p.table) ELSE p.table
<1>1. CASE p.empty
  <2>1. p.table = <<Placeholder>> /\ p.ids = <<>> /\ p \in PageRec
    BY <1>1 DEF Tidy
  <2>2. Len(p.ids) = 0
    BY <2>1, Lengths
  <2>3. real = <<>>
    BY <1>1, <2>1
  <2>4. DOMAIN real = 1 .. 0 /\ Len(real) = 0
    <3>1. IsSeq(<<>>) /\ Len(<<>>) = 0
      BY EmptyIsSeq
    <3> QED
      BY <2>3, <3>1, DomainOfSeq
  <2>5. \A i \in RowIds : p.rows[i] = 0
    BY <2>2 DEF Tidy
  <2>6. \A k : k \notin 1 .. Len(p.ids)
    BY <2>2
  <2> HIDE DEF real
  <2>7. Len(real) = Len(p.ids) /\ DOMAIN real = 1 .. Len(p.ids)
    BY <2>2, <2>4
  <2> QED
    BY <2>5, <2>6, <2>7 DEF real
<1>2. CASE ~p.empty
  <2>1. real = p.table /\ p \in PageRec
    BY <1>2 DEF Tidy
  <2>2. IsSeq(p.table) /\ Len(p.table) = Len(p.ids)
    BY <1>2, <2>1, Lengths DEF Tidy
  <2>3. DOMAIN p.table = 1 .. Len(p.table)
    BY <2>2, DomainOfSeq
  <2>4. \A k \in 1 .. Len(p.ids) : /\ p.table[k] \in Live /\ p.table[k].id = p.ids[k]
                                   /\ p.rows[p.ids[k]] = k
    BY <1>2 DEF Tidy
  <2>5. \A k \in 1 .. Len(p.ids) : p.rows[p.table[k].id] = k
    BY <2>4
  <2> HIDE DEF real
  <2>6. Len(real) = Len(p.ids) /\ DOMAIN real = 1 .. Len(p.ids)
    BY <2>1, <2>2, <2>3
  <2> QED
    BY <2>1, <2>4, <2>5, <2>6 DEF real
<1> QED
  BY <1>1, <1>2

LEMMA MirrorsShow == Mirrors => ShowsTable
<1> SUFFICES ASSUME Mirrors PROVE ShowsTable
  OBVIOUS
<1> DEFINE real == IF page.empty THEN Tail(page.table) ELSE page.table
           cells == {real[k] : k \in DOMAIN real}
<1>1. /\ Len(real) = Len(page.ids) /\ DOMAIN real = 1 .. Len(page.ids)
      /\ \A k \in 1 .. Len(page.ids) : /\ real[k] \in Live /\ real[k].id = page.ids[k]
                                       /\ page.rows[real[k].id] = k
      /\ \A i \in RowIds : page.rows[i] # 0 => real[page.rows[i]] = page.table[page.rows[i]]
  BY RealIs DEF Mirrors
<1>2. \A i \in RowIds : page.rows[i] # 0 => /\ page.rows[i] \in 1 .. Len(page.ids)
                                            /\ page.ids[page.rows[i]] = i
  BY DEF Mirrors, Tidy
<1> HIDE DEF real
<1>3. ASSUME posted = <<>>, ~loading, NEW i \in RowIds \ (raced \cup hosted),
             NEW now, now = [id |-> i, st |-> stored[i]]
      PROVE  IF stored[i] # "none" /\ Matches(now, shows) THEN now \in cells
             ELSE \A c \in cells : c.id # i
  <2>1. UpToDate(i)
    BY <1>3 DEF Mirrors, Mirrored
  <2>2. ~Waiting(i, posted) /\ ~Waiting(i, pending)
    BY <1>3, NoneWaits DEF Mirrors, Queues
  <2>3. Seen(page, i) = Kept(now, shows)
    BY <1>3, <2>1, <2>2 DEF UpToDate
  <2>4. CASE stored[i] # "none" /\ Matches(now, shows)
    <3>1. Seen(page, i) = stored[i]
      BY <1>3, <2>3, <2>4 DEF Kept
    <3>2. page.rows[i] # 0 /\ page.table[page.rows[i]].st = stored[i]
      BY <2>4, <3>1 DEF Seen
    <3>3. page.rows[i] \in 1 .. Len(page.ids) /\ page.ids[page.rows[i]] = i
      BY <1>2, <3>2
    <3>4. /\ real[page.rows[i]] \in Live /\ real[page.rows[i]].id = i
          /\ real[page.rows[i]].st = stored[i]
      BY <1>1, <3>2, <3>3
    <3>5. real[page.rows[i]] = now
      BY <1>3, <3>4 DEF Live, Snapshot
    <3> QED
      BY <1>1, <2>4, <3>3, <3>5
  <2>5. CASE ~(stored[i] # "none" /\ Matches(now, shows))
    <3>1. Seen(page, i) = "none"
      BY <1>3, <2>3, <2>5 DEF Kept
    <3>2. ASSUME NEW k \in 1 .. Len(page.ids), real[k].id = i PROVE FALSE
      <4>1. page.rows[i] = k /\ k # 0
        BY <1>1, <3>2
      <4>2. real[k] = page.table[k]
        BY <1>1, <4>1
      <4>3. page.table[k].st \in {"active", "done"}
        BY <1>1, <4>2, CellsAre
      <4> QED
        BY <3>1, <4>1, <4>3 DEF Seen
    <3> QED
      BY <1>1, <2>5, <3>2
  <2> QED
    BY <2>4, <2>5
<1> HIDE DEF cells
<1>4. (posted = <<>> /\ ~loading) =>
        \A i \in RowIds \ (raced \cup hosted) :
          LET now == [id |-> i, st |-> stored[i]]
          IN  IF stored[i] # "none" /\ Matches(now, shows) THEN now \in cells
              ELSE \A c \in cells : c.id # i
  BY <1>3
<1> QED
  BY <1>1, <1>4 DEF ShowsTable, real, cells

LEMMA MirrorsTyped == Mirrors => PageTypeOK
<1> SUFFICES ASSUME Mirrors PROVE PageTypeOK
  OBVIOUS
<1>1. page \in PageRec /\ Len(page.ids) \in Nat
  BY Lengths DEF Mirrors, Tidy
<1> DEFINE l == Len(page.ids)
<1>2. \A i \in RowIds : page.rows[i] \in Nat /\ (page.rows[i] # 0 => page.rows[i] \in 1 .. l)
  BY <1>1 DEF Mirrors, Tidy, PageRec
<1>3. \A k \in 1 .. l : page.ids[k] \in RowIds /\ page.rows[page.ids[k]] = k
  BY <1>1, ElementOfSeq DEF Mirrors, Tidy, PageRec
\* No row comes twice
<1>4. l <= Cardinality(RowIds) /\ Cardinality(RowIds) \in Nat
  <2>1. IsFiniteSet(RowIds) /\ IsFiniteSet(1 .. l) /\ Cardinality(1 .. l) = l
    <3>1. l \in Nat /\ 1 \in Int /\ l \in Int
      BY <1>1
    <3> HIDE DEF l
    <3>2. Cardinality(1 .. l) = (IF 1 > l THEN 0 ELSE l - 1 + 1) /\ IsFiniteSet(1 .. l)
      BY <3>1, FS_Interval
    <3>3. (IF 1 > l THEN 0 ELSE l - 1 + 1) = l
      BY <3>1
    <3> QED
      BY <3>2, <3>3, PageAssumption
  <2> DEFINE g == [k \in 1 .. l |-> page.ids[k]]
  <2>2. g \in Injection(1 .. l, RowIds)
    BY <1>3 DEF Injection, IsInjective
  <2>3. Cardinality(1 .. l) <= Cardinality(RowIds)
    BY <2>1, <2>2, FS_Injection
  <2> QED
    BY <2>1, <2>3, FS_CardinalityType
<1> HIDE DEF l
<1>5. \A i \in RowIds : page.rows[i] \in 0 .. Cardinality(RowIds)
  BY <1>1, <1>2, <1>4 DEF l
<1>6. page.rows \in [RowIds -> 0 .. Cardinality(RowIds)]
  BY <1>1, <1>5 DEF PageRec
<1> QED
  BY <1>1, <1>6 DEF PageTypeOK, Mirrors, Queues, PageRec

\* The table of pages/downloads.py: its list of ids and its numbers agree after every event,
\* filter, load and click, and once nothing is outstanding it shows what the database holds.
\* By Mirrors. That the numbers follow a list filled one row after another is an argument on
\* the least row where they would not, because the library's induction takes an operator.
THEOREM PageCorrect == PageSpec => [](ShowsTable /\ PageTypeOK)
<1>1. Mirrors => ShowsTable /\ PageTypeOK
  BY MirrorsShow, MirrorsTyped
<1> QED
  BY <1>1, MirrorsAlways, PTL

-----------------------------------------------------------------------------
(* Types                                                                   *)

\* What SessionTyped leaves out
SessionSets ==
  /\ handles \subseteq Torrents /\ registered \subseteq Torrents
  /\ requested \subseteq Hashes /\ closing \in BOOLEAN

LEMMA SessionSetsStep ==
  ASSUME Session, SessionSets, [SessionNext]_sessVars
  PROVE  SessionSets'
<1>1. \A t \in Torrents : hashOf[t] \in Hashes
  BY DEF Session, SessionTyped
<1>2. ASSUME NEW ts \in SUBSET Torrents, Asks(ts) PROVE requested' \subseteq Hashes
  BY <1>1, <1>2 DEF Asks, SessionSets
<1>3. CASE Relaunch \/ UNCHANGED sessVars
  BY <1>3 DEF Relaunch, sessVars, SessionSets
<1>4. CASE BeginShutdown \/ FlushAlerts
  BY <1>2, <1>4 DEF BeginShutdown, FlushAlerts, SessionSets
<1>5. ASSUME NEW h \in Hashes, Piece(h) \/ Answer(h) PROVE SessionSets'
  BY <1>5 DEF Piece, Answer, SessionSets
<1>6. ASSUME NEW t \in Torrents, Start(t) \/ Add(t) \/ Register(t) \/ Pop(t) \/ Store(t)
                                 \/ Ends(t) \/ Resume(t)
      PROVE  SessionSets'
  BY <1>6 DEF Start, Add, Holds, Register, Pop, Store, Ends, Resume, SessionSets
<1>7. ASSUME NEW t \in Torrents, AskAgain(t) \/ Pause(t) \/ Stops(t) PROVE SessionSets'
  <2>1. requested' \subseteq Hashes
    BY <1>2, <1>7 DEF AskAgain, Pause, Stops, SessionSets
  <2> QED
    BY <2>1, <1>7 DEF AskAgain, Pause, Stops, Drops, SessionSets
<1> QED
  BY <1>3, <1>4, <1>5, <1>6, <1>7 DEF SessionNext

LEMMA SessionTypes == Session /\ SessionSets => SessionTypeOK
<1> SUFFICES ASSUME Session, SessionSets PROVE SessionTypeOK
  OBVIOUS
<1>1. \A t \in Torrents : hnd[t] \in Handler
  BY DEF Session, SessionTyped
<1> QED
  BY <1>1 DEF SessionTypeOK, Session, SessionTyped, SessionSets, Handler

\* What Previews leaves out
Cache == video \in Video /\ proxy \in {"none", "part", "whole", "mixed"}

LEMMA CacheStep == Cache /\ [PreviewNext]_prevVars => Cache'
<1> SUFFICES ASSUME Cache, [PreviewNext]_prevVars PROVE Cache'
  OBVIOUS
<1>1. CASE Restart \/ UNCHANGED prevVars
  BY <1>1 DEF Restart, prevVars, Cache
<1>2. ASSUME NEW d \in Dialogs,
             \/ Open(d) \/ Watchdog(d) \/ FrameShown(d) \/ Hide(d) \/ CloseEvent(d) \/ CloseDone(d)
             \/ \E s \in Verdicts \cup {"ready", "failed"} : HearSignal(d, s)
             \/ ProbeDone(d) \/ StartEncoder(d) \/ Encoded(d) \/ EncoderFails(d)
      PROVE  Cache'
  BY <1>2 DEF Cache, Open, Watchdog, FrameShown, Hide, CloseEvent, CloseDone, HearSignal,
              ProbeDone, StartEncoder, Encoded, EncoderFails, Remains
<1> QED
  BY <1>1, <1>2 DEF PreviewNext

\* What RemoteTyped leaves out: a task that goes on has a port
Sockets ==
  /\ listening \subseteq Ports /\ Len(tasks) <= MaxTasks
  /\ \A i \in 1 .. Len(tasks) : tasks[i].st # "scheduled" => tasks[i].port \in Ports
  /\ shown \in [port : Ports \cup {0}, token : Tokens]

LEMMA TasksAre ==
  ASSUME Dashboard
  PROVE  /\ tasks \in Seq(Task) /\ Len(tasks) \in Nat /\ DOMAIN tasks = 1 .. Len(tasks)
         /\ \A i \in 1 .. Len(tasks) : tasks[i] \in Task
<1>1. tasks \in Seq(Task)
  BY DEF Dashboard, RemoteTyped
<1> QED
  BY <1>1, LenProperties, ElementOfSeq

(* A task ends, or one is scheduled.                                       *)
LEMMA TasksShift ==
  ASSUME Dashboard, Sockets
  PROVE  /\ \A i \in 1 .. Len(tasks) : TaskEnds(i) =>
              /\ Len(tasks') <= MaxTasks
              /\ \A k \in 1 .. Len(tasks') : tasks'[k].st # "scheduled" => tasks'[k].port \in Ports
         /\ \A op \in {"start", "stop", "ensure"} :
              tasks' = Append(tasks, Scheduled(op)) /\ Len(tasks) < MaxTasks =>
                /\ Len(tasks') <= MaxTasks
                /\ \A k \in 1 .. Len(tasks') :
                     tasks'[k].st # "scheduled" => tasks'[k].port \in Ports
<1>1. /\ tasks \in Seq(Task) /\ Len(tasks) \in Nat /\ MaxTasks \in Nat
      /\ Len(tasks) <= MaxTasks
      /\ \A k \in 1 .. Len(tasks) : tasks[k].st # "scheduled" => tasks[k].port \in Ports
  BY TasksAre, RemoteAssumption DEF Sockets
<1>2. ASSUME NEW i \in 1 .. Len(tasks), TaskEnds(i)
      PROVE  /\ Len(tasks') <= MaxTasks
             /\ \A k \in 1 .. Len(tasks') : tasks'[k].st # "scheduled" => tasks'[k].port \in Ports
  <2> DEFINE rest == RemoveAt(tasks, i)
  <2>1. /\ Len(rest) = Len(tasks) - 1
        /\ \A k \in 1 .. Len(tasks) - 1 : rest[k] = IF k < i THEN tasks[k] ELSE tasks[k + 1]
    BY <1>1, RemoveAtIs
  <2>2. tasks' = rest
    BY <1>2 DEF TaskEnds
  <2> HIDE DEF rest
  <2>3. \A k \in 1 .. Len(tasks) - 1 : k \in 1 .. Len(tasks) /\ k + 1 \in 1 .. Len(tasks)
    BY <1>1
  <2>4. \A k \in 1 .. Len(tasks) - 1 : rest[k].st # "scheduled" => rest[k].port \in Ports
    BY <1>1, <2>1, <2>3
  <2>5. Len(tasks) - 1 <= MaxTasks
    BY <1>1
  <2> QED
    BY <2>1, <2>2, <2>4, <2>5
<1>3. ASSUME NEW op \in {"start", "stop", "ensure"},
             tasks' = Append(tasks, Scheduled(op)), Len(tasks) < MaxTasks
      PROVE  /\ Len(tasks') <= MaxTasks
             /\ \A k \in 1 .. Len(tasks') : tasks'[k].st # "scheduled" => tasks'[k].port \in Ports
  <2> DEFINE s == Scheduled(op)
             more == Append(tasks, s)
  <2>1. s.st = "scheduled" /\ s \in Task
    BY DEF Scheduled, Task
  <2> HIDE DEF s
  <2>2. /\ Len(more) = Len(tasks) + 1 /\ more[Len(tasks) + 1] = s
        /\ \A k \in 1 .. Len(tasks) : more[k] = tasks[k]
    BY <1>1, <2>1, AppendProperties
  <2>3. tasks' = more
    BY <1>3 DEF s
  <2> HIDE DEF more
  <2>4. \A k \in 1 .. Len(tasks) + 1 : k = Len(tasks) + 1 \/ k \in 1 .. Len(tasks)
    BY <1>1
  <2>5. Len(tasks) + 1 <= MaxTasks
    BY <1>1, <1>3
  <2> QED
    BY <1>1, <2>1, <2>2, <2>3, <2>4, <2>5
<1> QED
  BY <1>2, <1>3

(* The task of the launch, alone.                                          *)
LEMMA OneTask ==
  LET one == <<Scheduled("ensure")>>
  IN  /\ Len(one) <= MaxTasks
      /\ \A i \in 1 .. Len(one) : one[i].st # "scheduled" => one[i].port \in Ports
      /\ NoAddress \in [port : Ports \cup {0}, token : Tokens]
<1> DEFINE one == <<Scheduled("ensure")>>
<1>1. Len(one) = 1 /\ one[1].st = "scheduled"
  BY DEF Scheduled
<1>2. 1 <= MaxTasks /\ \A k \in 1 .. 1 : k = 1
  BY RemoteAssumption
<1>3. NoAddress \in [port : Ports \cup {0}, token : Tokens]
  BY RemoteAssumption DEF NoAddress, Tokens
<1> HIDE DEF one
<1>4. Len(one) <= MaxTasks
      /\ \A i \in 1 .. Len(one) : one[i].st # "scheduled" => one[i].port \in Ports
  BY <1>1, <1>2
<1> QED
  BY <1>3, <1>4 DEF one

LEMMA SocketsStep ==
  ASSUME Dashboard, Sockets, [RemoteNext]_remVars
  PROVE  Sockets'
<1>1. CASE UNCHANGED remVars
  BY <1>1 DEF remVars, Sockets
<1>2. CASE NewProcess
  <2>1. tasks' = <<Scheduled("ensure")>> /\ listening' = {} /\ shown' = NoAddress
    BY <1>2 DEF NewProcess, Starts
  <2> QED
    BY <2>1, OneTask DEF Sockets
<1>3. CASE (\E f \in Form : Edit(f)) \/ RegenerateToken \/ SkipAll \/ HourPasses
  BY <1>3 DEF Edit, RegenerateToken, SkipAll, HourPasses, Sockets
<1>4. CASE ShowPairing \/ ClosePairing
  <2>1. NoAddress \in [port : Ports \cup {0}, token : Tokens]
    BY RemoteAssumption DEF NoAddress, Tokens
  <2>2. mem.token \in Tokens /\ dashboard.port \in Ports \cup {0}
    BY DEF Dashboard, RemoteTyped, Settings
  <2> QED
    BY <1>4, <2>1, <2>2 DEF ShowPairing, ClosePairing, Sockets
<1>5. CASE Save
  <2>1. UNCHANGED <<listening, shown>> /\ Len(tasks) < MaxTasks
    BY <1>5 DEF Save
  <2>2. \/ tasks' = tasks \/ \E op \in {"start", "stop", "ensure"} : tasks' = Append(tasks, Scheduled(op))
    BY <1>5 DEF Save, Apply
  <2> QED
    BY <2>1, <2>2, TasksShift DEF Sockets
<1>6. ASSUME NEW i \in DOMAIN tasks,
             Begin(i) \/ BindFails(i) \/ Bind(i) \/ Started(i) \/ Stop(i)
      PROVE  Sockets'
  <2>1. /\ i \in 1 .. Len(tasks) /\ Len(tasks) \in Nat /\ tasks \in Seq(Task)
        /\ tasks[i] \in Task
    BY TasksAre
  <2>2. shown' = shown
    BY <1>6 DEF Begin, BindFails, Bind, Started, Stop
  <2>3. listening' \subseteq Ports
    <3>1. CASE Bind(i)
      <4>1. tasks[i].port \in Ports
        BY <2>1, <3>1 DEF Bind, Sockets
      <4> QED
        BY <3>1, <4>1 DEF Bind, Sockets
    <3>2. CASE ~Bind(i)
      BY <1>6, <3>2 DEF Begin, BindFails, Started, Stop, Stopped, Sockets
    <3> QED
      BY <3>1, <3>2
  <2>4. CASE TaskEnds(i) \/ UNCHANGED tasks
    BY <2>1, <2>2, <2>3, <2>4, TasksShift DEF Sockets
  <2>5. CASE \E r \in Task : r.port \in Ports /\ tasks' = [tasks EXCEPT ![i] = r]
    <3>1. PICK r \in Task : r.port \in Ports /\ tasks' = [tasks EXCEPT ![i] = r]
      BY <2>5
    <3>2. Len(tasks') = Len(tasks)
          /\ \A k \in 1 .. Len(tasks) : tasks'[k] = IF k = i THEN r ELSE tasks[k]
      BY <2>1, <3>1, ExceptOfSeq
    <3> QED
      BY <2>2, <2>3, <3>1, <3>2 DEF Sockets
  <2>6. CASE Begin(i)
    <3> DEFINE told == IF dashboard.made THEN dashboard.port ELSE mem.port
               r == [tasks[i] EXCEPT !.st = "binding", !.port = told]
    <3>1. told \in Ports
      BY DEF Dashboard, RemoteTyped, Settings
    <3>2. \/ TaskEnds(i)
          \/ tasks' = [tasks EXCEPT ![i].st = "binding", ![i].port = told]
      BY <2>6 DEF Begin
    <3> HIDE DEF told
    <3>3. r \in Task /\ r.port = told
      BY <2>1, <3>1 DEF Task
    <3>4. [tasks EXCEPT ![i].st = "binding", ![i].port = told] = [tasks EXCEPT ![i] = r]
      OBVIOUS
    <3> HIDE DEF r
    <3> QED
      BY <2>4, <2>5, <3>1, <3>2, <3>3, <3>4
  <2>7. CASE Bind(i)
    <3> DEFINE r == [tasks[i] EXCEPT !.st = "bound"]
    <3>1. tasks[i].port \in Ports
      BY <2>1, <2>7 DEF Bind, Sockets
    <3>2. r \in Task /\ r.port = tasks[i].port
      BY <2>1 DEF Task
    <3>3. tasks' = [tasks EXCEPT ![i] = r]
      BY <2>7 DEF Bind
    <3> HIDE DEF r
    <3> QED
      BY <2>5, <3>1, <3>2, <3>3
  <2> QED
    BY <1>6, <2>4, <2>6, <2>7 DEF BindFails, Started, Stop
<1> QED
  BY <1>1, <1>2, <1>3, <1>4, <1>5, <1>6 DEF RemoteNext

LEMMA RemoteTypes == Dashboard /\ Sockets => RemoteTypeOK
<1> SUFFICES ASSUME Dashboard, Sockets PROVE RemoteTypeOK
  OBVIOUS
<1>1. ToSet(tasks) \subseteq Task
  BY TasksAre DEF ToSet
<1> QED
  BY <1>1 DEF Dashboard, RemoteTyped, Sockets, RemoteTypeOK

\* The page of the speed test
Probing == [ph : Phases, res : Result]
Gauge == [upload : BOOLEAN, down : Speeds \cup {0}, up : Speeds \cup {0}]
Sorts ==
  /\ wanted \in BOOLEAN /\ auto \in {"none", "asleep", "testing", "done"} /\ button \in BOOLEAN
  /\ tests \in Seq(Probing) /\ Len(tests) <= MaxTests
  /\ notices \in Seq(Notice) /\ history \in Seq(Result) /\ gauge \in Gauge

LEMMA NoResultIs == NoResult \in Result /\ [NoResult EXCEPT !.ok = FALSE] \in Result
  BY DEF NoResult, Result

LEMMA ShownIs == ASSUME NEW h \in Seq(Result) PROVE Shown(h) \in Gauge
<1>1. CASE h = <<>>
  BY <1>1 DEF Shown, NoResult, Gauge
<1>2. CASE h # <<>>
  <2>1. h[1] \in Result
    <3>1. Len(h) \in Nat \ {0}
      BY <1>2, EmptySeq
    <3> QED
      BY <3>1, ElementOfSeq
  <2> QED
    BY <1>2, <2>1 DEF Shown, Gauge, Result
<1> QED
  BY <1>1, <1>2

LEMMA RecordedIs ==
  ASSUME NEW res \in Result, history \in Seq(Result)
  PROVE  Recorded(res) \in Seq(Result)
<1> DEFINE all == <<res>> \o history
           m   == IF Len(history) < MaxHistory THEN Len(history) + 1 ELSE MaxHistory
<1>1. <<res>> \in Seq(Result) /\ Len(<<res>>) = 1 /\ Len(history) \in Nat
  BY LenProperties
<1>2. all \in Seq(Result) /\ Len(all) = 1 + Len(history)
  BY <1>1, ConcatProperties
<1>3. m \in Int /\ 1 \in Int /\ m <= 1 + Len(history)
  BY <1>1, SpeedAssumption
<1> HIDE DEF all, m
<1>4. \A k \in 1 .. m : all[k] \in Result
  <2>1. \A k \in 1 .. m : k \in 1 .. Len(all)
    BY <1>1, <1>2, <1>3
  <2> QED
    BY <1>2, <2>1, ElementOfSeq
<1>5. SubSeq(all, 1, m) \in Seq(Result)
  BY <1>3, <1>4, SubSeqProperties
<1> QED
  BY <1>5 DEF Recorded, all, m

LEMMA PostIs ==
  ASSUME notices \in Seq(Notice), NEW n \in Notice, Post(<<n>>)
  PROVE  notices' \in Seq(Notice)
<1>1. <<n>> \in Seq(Notice)
  OBVIOUS
<1> QED
  BY <1>1, ConcatProperties DEF Post

LEMMA WithoutIs ==
  ASSUME tests \in Seq(Probing), NEW t \in DOMAIN tests
  PROVE  Without(t) \in Seq(Probing) /\ Len(Without(t)) <= Len(tests)
<1>1. Len(tests) \in Nat /\ t \in 1 .. Len(tests)
  BY LenProperties
<1> DEFINE q == RemoveAt(tests, t)
<1>2. q \in Seq(Probing) /\ Len(q) = Len(tests) - 1
  BY <1>1, RemoveAtIs
<1>3. Without(t) = q
  BY DEF Without, RemoveAt
<1> HIDE DEF q
<1>4. Len(q) <= Len(tests)
  BY <1>1, <1>2
<1> QED
  BY <1>2, <1>3, <1>4

LEMMA SortsMeasure ==
  ASSUME Sorts, NEW t \in DOMAIN tests, NEW s \in Speeds \cup {0}, Measure(t, s)
  PROVE  Sorts'
<1>1. t \in 1 .. Len(tests) /\ tests[t] \in Probing /\ tests \in Seq(Probing)
  BY LenProperties, ElementOfSeq DEF Sorts
<1>2. ASSUME NEW r \in Probing, tests' = [tests EXCEPT ![t] = r]
      PROVE  tests' \in Seq(Probing) /\ Len(tests') = Len(tests)
  BY <1>1, <1>2, ExceptSeq
<1>3. \E r \in Probing : tests' = [tests EXCEPT ![t] = r]
  <2>1. CASE s = 0
    <3>1. [ph |-> "record", res |-> [NoResult EXCEPT !.ok = FALSE]] \in Probing
      BY NoResultIs DEF Probing, Phases
    <3> QED
      BY <2>1, <3>1 DEF Measure
  <2>2. CASE s # 0
    <3> DEFINE up == tests[t].ph = "upload"
               r == [ph |-> IF up THEN "record" ELSE "upload",
                     res |-> IF up THEN [tests[t].res EXCEPT !.up = s]
                             ELSE [tests[t].res EXCEPT !.down = s]]
    <3>1. r \in Probing
      BY <1>1 DEF Probing, Phases, Result
    <3>2. tests' = [tests EXCEPT ![t] = r]
      BY <2>2 DEF Measure
    <3> HIDE DEF r
    <3> QED
      BY <3>1, <3>2
  <2> QED
    BY <2>1, <2>2
<1>4. notices' \in Seq(Notice)
  <2>1. CASE s = 0
    BY <2>1 DEF Measure, Sorts
  <2>2. CASE s # 0
    <3> DEFINE n == ProgressNotice(tests[t].ph = "upload", s)
    <3>1. n \in Notice
      BY DEF ProgressNotice, Notice
    <3>2. Post(<<n>>)
      BY <2>2 DEF Measure
    <3> HIDE DEF n
    <3> QED
      BY <3>1, <3>2, PostIs DEF Sorts
  <2> QED
    BY <2>1, <2>2
<1> QED
  BY <1>2, <1>3, <1>4 DEF Measure, Sorts

LEMMA SortsRecord ==
  ASSUME Sorts, NEW t \in DOMAIN tests, NEW written \in BOOLEAN, Record(t, written)
  PROVE  Sorts'
<1>1. tests[t] \in Probing /\ MaxTests \in Nat /\ Len(tests) \in Nat
  BY LenProperties, ElementOfSeq, SpeedAssumption DEF Sorts
<1>2. tests' \in Seq(Probing) /\ Len(tests') <= MaxTests
  <2>1. tests' \in Seq(Probing) /\ Len(tests') <= Len(tests)
    BY WithoutIs DEF Record, Sorts
  <2>2. Len(tests') \in Nat
    BY <2>1, LenProperties
  <2> QED
    BY <1>1, <2>1, <2>2 DEF Sorts
<1>3. tests[t].res \in Result
  BY <1>1 DEF Probing
<1>4. \A res \in Result : Ended(res) \in Notice
  BY DEF Ended, Notice, Result
<1>5. notices' \in Seq(Notice)
  <2>1. \E res \in Result : Post(<<Ended(res)>>)
    BY <1>3, NoResultIs DEF Record, Raised
  <2> QED
    BY <1>4, <2>1, PostIs DEF Sorts
<1>6. history' \in Seq(Result)
  BY <1>3, RecordedIs DEF Record, Sorts
<1>7. auto' \in {"none", "asleep", "testing", "done"}
  BY DEF Record, Sorts
<1> QED
  BY <1>2, <1>5, <1>6, <1>7 DEF Record, Sorts

LEMMA SortsStep == Sorts /\ [SpeedNext]_speedVars => Sorts'
<1> SUFFICES ASSUME Sorts, [SpeedNext]_speedVars PROVE Sorts'
  OBVIOUS
<1>1. CASE SaveSetting \/ StartAuto \/ WakeAuto \/ UNCHANGED speedVars
  BY <1>1 DEF SaveSetting, StartAuto, WakeAuto, speedVars, Sorts
<1>2. ASSUME NEW res \in Result, NEW written \in BOOLEAN, AutoEnds(res, written)
      PROVE  Sorts'
  <2>1. CASE written
    <3>1. history' \in Seq(Result)
      BY <1>2, <2>1, RecordedIs DEF AutoEnds, Sorts
    <3>2. gauge' \in Gauge
      BY <1>2, <2>1, <3>1, ShownIs DEF AutoEnds
    <3> QED
      BY <1>2, <2>1, <3>1, <3>2 DEF AutoEnds, Sorts
  <2>2. CASE ~written
    BY <1>2, <2>2 DEF AutoEnds, Sorts
  <2> QED
    BY <2>1, <2>2
<1>3. ASSUME NEW upload \in BOOLEAN, RunTest(upload) PROVE Sorts'
  <2> DEFINE r == [ph |-> IF upload THEN "upload" ELSE "download", res |-> NoResult]
  <2>1. r \in Probing
    BY NoResultIs DEF Probing, Phases
  <2>2. tests' = Append(tests, r) /\ Len(tests) < MaxTests
    BY <1>3 DEF RunTest
  <2> HIDE DEF r
  <2>3. tests' \in Seq(Probing) /\ Len(tests') = Len(tests) + 1
    BY <2>1, <2>2, AppendProperties DEF Sorts
  <2>4. Len(tests') <= MaxTests
    <3>1. Len(tests) \in Nat /\ MaxTests \in Nat
      BY LenProperties, SpeedAssumption DEF Sorts
    <3> QED
      BY <2>2, <2>3, <3>1
  <2>5. gauge' \in Gauge
    BY <1>3 DEF RunTest, Gauge
  <2> QED
    BY <1>3, <2>3, <2>4, <2>5 DEF RunTest, Sorts
<1>4. CASE Hear
  <2>1. notices # <<>> /\ notices \in Seq(Notice)
    BY <1>4 DEF Hear, Sorts
  <2>2. notices' \in Seq(Notice) /\ Head(notices) \in Notice
    BY <1>4, <2>1, HeadTailProperties DEF Hear
  <2>3. Shown(history) \in Gauge
    BY ShownIs DEF Sorts
  <2>4. gauge' \in Gauge
    BY <1>4, <2>2, <2>3 DEF Hear, Sorts, Gauge, Notice
  <2> QED
    BY <1>4, <2>2, <2>4 DEF Hear, Sorts
<1>5. CASE Revisit
  BY <1>5, ShownIs DEF Revisit, Sorts
<1> QED
  BY <1>1, <1>2, <1>3, <1>4, <1>5, SortsMeasure, SortsRecord DEF SpeedNext

LEMMA SortsInit == SpeedInit => Sorts
<1> SUFFICES ASSUME SpeedInit PROVE Sorts
  OBVIOUS
<1>1. <<>> \in Seq(Probing) /\ <<>> \in Seq(Notice) /\ <<>> \in Seq(Result) /\ Len(<<>>) = 0
  BY EmptySeq
<1>2. 0 <= MaxTests
  BY SpeedAssumption
<1> QED
  BY <1>1, <1>2, ShownIs DEF SpeedInit, OpenPage, Sorts

LEMMA SpeedTypes == Sorts => SpeedTypeOK
<1> SUFFICES ASSUME Sorts PROVE SpeedTypeOK
  OBVIOUS
<1>1. /\ \A t \in DOMAIN tests : tests[t] \in Probing
      /\ \A n \in DOMAIN notices : notices[n] \in Notice
      /\ \A h \in DOMAIN history : history[h] \in Result
  BY LenProperties, ElementOfSeq DEF Sorts
<1> QED
  BY <1>1 DEF Sorts, SpeedTypeOK, Probing, Gauge

\* The processes
AppSorts ==
  /\ ph \in [Launches -> Fates] /\ stage \in 0 .. Awaited
  /\ visible \in [Launches -> BOOLEAN]
  /\ lock \in Launches \cup {0} /\ server \in Launches \cup {0}
  /\ where \in [Launches -> Delivery]
  /\ licence \in {"off", "trial", "serial", "over"}

LEMMA MoveIs ==
  ASSUME ph \in [Launches -> Fates], NEW p \in Launches, NEW to \in Fates, Moves(p, to)
  PROVE  ph' \in [Launches -> Fates]
  BY DEF Moves

LEMMA SentIs ==
  ASSUME where \in [Launches -> Delivery], NEW p \in Launches, NEW e \in Delivery,
         where' = [where EXCEPT ![p] = e]
  PROVE  where' \in [Launches -> Delivery]
  OBVIOUS

LEMMA AppSortsStep ==
  ASSUME AppSorts, NEW p \in Launches, AppStep(p)
  PROVE  AppSorts'
<1>1. ph \in [Launches -> Fates] /\ where \in [Launches -> Delivery]
  BY DEF AppSorts
<1>2. ASSUME NEW given \in BOOLEAN, Launch(p, given) PROVE AppSorts'
  <2>1. ph' \in [Launches -> Fates]
    BY <1>1, <1>2, MoveIs DEF Launch, Fates
  <2>2. where' \in [Launches -> Delivery]
    <3>1. [st |-> IF given THEN "argv" ELSE "none", at |-> 0] \in Delivery
      BY DEF Delivery
    <3> QED
      BY <1>1, <1>2, <3>1, SentIs DEF Launch
  <2> QED
    BY <1>2, <2>1, <2>2 DEF Launch, AppSorts
<1>3. CASE TryLock(p)
  <2>1. ph' \in [Launches -> Fates]
    BY <1>1, <1>3, MoveIs DEF TryLock, Fates
  <2> QED
    BY <1>3, <2>1 DEF TryLock, Listens, AppSorts
<1>4. CASE Forward(p)
  <2>1. ph' \in [Launches -> Fates]
    BY <1>1, <1>4, MoveIs DEF Forward, Fates
  <2>2. where' \in [Launches -> Delivery]
    <3>1. [st |-> "sent", at |-> server] \in Delivery
      BY DEF Delivery, AppSorts
    <3> QED
      BY <1>1, <1>4, <3>1, SentIs DEF Forward
  <2> QED
    BY <1>4, <2>1, <2>2 DEF Forward, AppSorts
<1>5. CASE Gate(p) \/ Submit(p) \/ QuitGate(p)
  <2>1. ph' \in [Launches -> Fates]
    <3>1. CASE Gate(p)
      BY <1>1, <3>1, MoveIs DEF Gate, Fates
    <3>2. CASE Submit(p)
      BY <1>1, <3>2, MoveIs DEF Submit, Fates
    <3>3. CASE QuitGate(p)
      BY <1>1, <3>3, MoveIs DEF QuitGate, Fates
    <3> QED
      BY <1>5, <3>1, <3>2, <3>3
  <2> QED
    BY <1>5, <2>1 DEF Gate, Submit, QuitGate, AppSorts
<1>6. CASE PassGate(p)
  <2>1. ph' \in [Launches -> Fates]
    BY <1>1, <1>6, MoveIs DEF PassGate, Fates
  <2> QED
    BY <1>6, <2>1 DEF PassGate, Listens, AppSorts
<1>7. ASSUME NEW how \in {"valid", "network", "refused"}, Answered(p, how) PROVE AppSorts'
  <2>1. ph' \in [Launches -> Fates]
    BY <1>1, <1>7, MoveIs DEF Answered, Fates
  <2> QED
    BY <1>7, <2>1 DEF Answered, AppSorts
<1>8. CASE ShowWindow(p)
  <2>1. ph' \in [Launches -> Fates]
    BY <1>1, <1>8, MoveIs DEF ShowWindow, Fates
  <2>2. where' \in [Launches -> Delivery]
    <3>1. [st |-> "timed", at |-> p] \in Delivery
      BY DEF Delivery
    <3> QED
      BY <1>1, <1>8, <3>1, SentIs DEF ShowWindow
  <2> QED
    BY <1>8, <2>1, <2>2 DEF ShowWindow, AppSorts
<1>9. CASE TakeConnections(p)
  <2>1. [st |-> "timed", at |-> p] \in Delivery
    BY DEF Delivery
  <2>2. where' \in [Launches -> Delivery]
    BY <1>1, <1>9, <2>1 DEF TakeConnections
  <2> QED
    BY <1>9, <2>2 DEF TakeConnections, AppSorts
<1>10. ASSUME NEW q \in Launches, OpenPayload(p, q) PROVE AppSorts'
  <2>1. where' \in [Launches -> Delivery]
    <3>1. [where[q] EXCEPT !.st = "opened"] \in Delivery
      BY <1>1 DEF Delivery
    <3> QED
      BY <1>1, <1>10, <3>1, SentIs DEF OpenPayload
  <2> QED
    BY <1>10, <2>1 DEF OpenPayload, AppSorts
<1>11. CASE OpenFromTray(p) \/ CloseWindow(p) \/ Unlock(p)
  BY <1>11 DEF OpenFromTray, CloseWindow, Unlock, AppSorts
<1>12. CASE SeeClosed(p) \/ LoopEnds(p)
  <2>1. ph' \in [Launches -> Fates]
    <3>1. CASE SeeClosed(p)
      BY <1>1, <3>1, MoveIs DEF SeeClosed, Fates
    <3>2. CASE LoopEnds(p)
      BY <1>1, <3>2, MoveIs DEF LoopEnds, Fates
    <3> QED
      BY <1>12, <3>1, <3>2
  <2> QED
    BY <1>12, <2>1 DEF SeeClosed, LoopEnds, Awaited, AppSorts
<1>13. CASE StopPart(p)
  <2>1. ph' \in [Launches -> Fates]
    BY <1>1, <1>13 DEF StopPart, Fates
  <2>2. stage' \in 0 .. Awaited
    BY <1>13 DEF StopPart, AppSorts, Awaited
  <2> QED
    BY <1>13, <2>1, <2>2 DEF StopPart, AppSorts
<1>14. CASE Exit(p)
  <2>1. ph' \in [Launches -> Fates]
    BY <1>1, <1>14, MoveIs DEF Exit, Fates
  <2> QED
    BY <1>14, <2>1 DEF Exit, AppSorts
<1>15. CASE Kill(p)
  <2>1. ph' \in [Launches -> Fates]
    BY <1>1, <1>15, MoveIs DEF Kill, Fates
  <2> QED
    BY <1>15, <2>1 DEF Kill, AppSorts
<1> QED
  BY <1>2, <1>3, <1>4, <1>5, <1>6, <1>7, <1>8, <1>9, <1>10, <1>11, <1>12, <1>13, <1>14, <1>15
  DEF AppStep

LEMMA AppSortsNext == AppSorts /\ [AppNext]_appVars => AppSorts'
<1> SUFFICES ASSUME AppSorts, [AppNext]_appVars PROVE AppSorts'
  OBVIOUS
<1>1. CASE TrialEnds \/ UNCHANGED appVars
  BY <1>1 DEF TrialEnds, appVars, AppSorts
<1> QED
  BY <1>1, AppSortsStep DEF AppNext

LEMMA AppTypes == AppSorts => AppTypeOK
<1> SUFFICES ASSUME AppSorts PROVE AppTypeOK
  OBVIOUS
<1>1. \A p \in Launches : where[p] \in Delivery
  BY DEF AppSorts
<1> QED
  BY <1>1 DEF AppSorts, AppTypeOK, Fates, Delivery

LEMMA AppSortsInit == AppInit \/ Running => AppSorts
<1>1. [st |-> "none", at |-> 0] \in Delivery
  BY DEF Delivery
<1>2. AppInit => AppSorts
  BY <1>1 DEF AppInit, AppSorts, Awaited, Fates
<1>3. Running => AppSorts
  BY <1>1, UpdatesAssumption DEF Running, AppSorts, Awaited, Fates
<1> QED
  BY <1>2, <1>3

\* The updates; an attempt of a batch at the swap is one of MaxSwaps
BatchFile == [by : Launches, st : {"waiting", "stopping", "swapping", "done", "failed"},
              staged : Version, tries : 0 .. MaxSwaps]
UpdateSorts ==
  /\ windows \in BOOLEAN /\ offered \in Version /\ busy \in {"", "check", "download"}
  /\ zip \in Content /\ ready \in BOOLEAN /\ installed \in Content
  /\ batches \in Seq(BatchFile) /\ Len(batches) <= MaxBatches

LEMMA UpdateSortsInit == UpdatesInit => UpdateSorts
<1> SUFFICES ASSUME UpdatesInit PROVE UpdateSorts
  OBVIOUS
<1>1. <<>> \in Seq(BatchFile) /\ Len(<<>>) = 0 /\ 0 <= MaxBatches
  BY EmptySeq, UpdatesAssumption
<1> QED
  BY <1>1 DEF UpdatesInit, UpdateSorts, Version, Content, NoFile

LEMMA UpdateTypes == UpdateSorts => UpdatesTypeOK
<1> SUFFICES ASSUME UpdateSorts PROVE UpdatesTypeOK
  OBVIOUS
<1>1. \A b \in DOMAIN batches : batches[b] \in BatchFile
  BY LenProperties, ElementOfSeq DEF UpdateSorts
<1> QED
  BY <1>1 DEF UpdateSorts, UpdatesTypeOK, BatchFile

LEMMA BatchIs ==
  ASSUME UpdateSorts, NEW b \in DOMAIN batches
  PROVE  /\ batches[b] \in BatchFile /\ b \in 1 .. Len(batches)
         /\ \A r \in BatchFile : batches' = [batches EXCEPT ![b] = r] =>
              batches' \in Seq(BatchFile) /\ Len(batches') <= MaxBatches
<1>1. batches \in Seq(BatchFile) /\ b \in 1 .. Len(batches) /\ Len(batches) <= MaxBatches
  BY LenProperties DEF UpdateSorts
<1>2. batches[b] \in BatchFile
  BY <1>1, ElementOfSeq
<1>3. ASSUME NEW r \in BatchFile, batches' = [batches EXCEPT ![b] = r]
      PROVE  batches' \in Seq(BatchFile) /\ Len(batches') = Len(batches)
  BY <1>1, <1>3, ExceptSeq
<1> QED
  BY <1>1, <1>2, <1>3

LEMMA BatchSorts ==
  ASSUME UpdateSorts, NEW b \in DOMAIN batches,
         WaitDone(b) \/ ForceKill(b) \/ StopHelpers(b) \/ Swap(b)
  PROVE  UpdateSorts'
<1>1. batches[b] \in BatchFile /\ b \in 1 .. Len(batches)
  BY BatchIs
<1>2. ASSUME NEW r \in BatchFile, batches' = [batches EXCEPT ![b] = r]
      PROVE  batches' \in Seq(BatchFile) /\ Len(batches') <= MaxBatches
  BY <1>2, BatchIs
<1>3. ASSUME NEW to \in {"stopping", "swapping", "done"}, Goes(b, to)
      PROVE  batches' \in Seq(BatchFile) /\ Len(batches') <= MaxBatches
  <2>1. [batches[b] EXCEPT !.st = to] \in BatchFile
    BY <1>1 DEF BatchFile
  <2> QED
    BY <1>2, <1>3, <2>1 DEF Goes
<1>4. CASE WaitDone(b)
  BY <1>3, <1>4 DEF WaitDone, UpdateSorts
<1>5. CASE ForceKill(b)
  BY <1>5 DEF ForceKill, updVars, UpdateSorts
<1>6. CASE StopHelpers(b)
  BY <1>3, <1>6 DEF StopHelpers, UpdateSorts
<1>7. CASE Swap(b)
  <2>1. UNCHANGED <<windows, offered, busy, zip, ready>>
    BY <1>7 DEF Swap
  <2>2. installed' \in Content
    <3>1. Broken \in Content /\ [version |-> batches[b].staged, whole |-> TRUE] \in Content
      BY <1>1 DEF Broken, Content, Version, BatchFile
    <3>2. \/ installed' = [version |-> batches[b].staged, whole |-> TRUE]
          \/ installed' \in {Broken, installed}
      BY <1>7 DEF Swap
    <3> QED
      BY <3>1, <3>2 DEF UpdateSorts
  <2>3. batches' \in Seq(BatchFile) /\ Len(batches') <= MaxBatches
    <3>1. CASE Goes(b, "done")
      BY <1>3, <3>1
    <3>2. CASE ~Goes(b, "done")
      <4> DEFINE r == [batches[b] EXCEPT !.tries = @ + 1,
                                         !.st = IF batches[b].tries + 1 = MaxSwaps
                                                THEN "failed" ELSE "swapping"]
      <4>1. batches[b].tries + 1 \in 0 .. MaxSwaps
        BY <1>1, <1>7, UpdatesAssumption DEF Swap, BatchFile
      <4>2. r \in BatchFile
        BY <1>1, <4>1 DEF BatchFile
      <4>3. batches' = [batches EXCEPT ![b] = r]
        BY <1>7, <3>2 DEF Swap
      <4> HIDE DEF r
      <4> QED
        BY <1>2, <4>2, <4>3
    <3> QED
      BY <3>1, <3>2
  <2> QED
    BY <2>1, <2>2, <2>3 DEF UpdateSorts
<1> QED
  BY <1>4, <1>5, <1>6, <1>7

LEMMA SettingsSorts ==
  ASSUME UpdateSorts, NEW p \in Launches,
         \/ CheckForUpdates(p) \/ \E v \in Version : CheckDone(p, v)
         \/ DownloadUpdate(p) \/ \E how \in {"whole", "other", "broken"} : DownloadDone(p, how)
         \/ Install(p) \/ StartAgain(p) \/ AppGoesOn(p)
  PROVE  UpdateSorts'
<1>1. CASE CheckForUpdates(p) \/ StartAgain(p) \/ AppGoesOn(p)
  BY <1>1 DEF CheckForUpdates, StartAgain, AppGoesOn, updVars, Version, UpdateSorts
<1>2. ASSUME NEW v \in Version, CheckDone(p, v) PROVE UpdateSorts'
  BY <1>2 DEF CheckDone, CheckSync, Version, UpdateSorts
<1>3. CASE DownloadUpdate(p)
  BY <1>3 DEF DownloadUpdate, Content, UpdateSorts
<1>4. ASSUME NEW how \in {"whole", "other", "broken"}, DownloadDone(p, how) PROVE UpdateSorts'
  <2>1. zip' \in Content
    BY <1>4 DEF DownloadDone, DownloadSync, NoFile, Content, Version, UpdateSorts
  <2>2. ready' \in BOOLEAN /\ busy' \in {"", "check", "download"}
    BY <1>4 DEF DownloadDone, UpdateSorts
  <2> QED
    BY <1>4, <2>1, <2>2 DEF DownloadDone, UpdateSorts
<1>5. CASE Install(p)
  <2>1. ready' \in BOOLEAN /\ UNCHANGED <<windows, offered, busy, zip>>
    BY <1>5 DEF Install, UpdateSorts
  <2>2. installed' \in Content
    <3>1. Broken \in Content
      BY DEF Broken, Content, Version
    <3>2. installed' \in {zip, Broken, installed}
      BY <1>5 DEF Install, Unpack
    <3> QED
      BY <3>1, <3>2 DEF UpdateSorts
  <2>3. batches' \in Seq(BatchFile) /\ Len(batches') <= MaxBatches
    <3>1. CASE UNCHANGED batches
      BY <3>1 DEF UpdateSorts
    <3>2. CASE ~UNCHANGED batches
      <4> DEFINE r == [by |-> p, st |-> "waiting", staged |-> zip.version, tries |-> 0]
      <4>1. r \in BatchFile
        <5>1. zip.version \in Version
          BY DEF UpdateSorts, Content
        <5>2. 0 \in 0 .. MaxSwaps
          BY UpdatesAssumption
        <5> QED
          BY <5>1, <5>2 DEF BatchFile
      <4>2. batches' = Append(batches, r) /\ Len(batches) < MaxBatches
        BY <1>5, <3>2 DEF Install, Unpack
      <4> HIDE DEF r
      <4>3. batches' \in Seq(BatchFile) /\ Len(batches') = Len(batches) + 1
        BY <4>1, <4>2, AppendProperties DEF UpdateSorts
      <4>4. Len(batches) \in Nat /\ MaxBatches \in Nat
        BY LenProperties, UpdatesAssumption DEF UpdateSorts
      <4> QED
        BY <4>2, <4>3, <4>4
    <3> QED
      BY <3>1, <3>2
  <2> QED
    BY <2>1, <2>2, <2>3 DEF UpdateSorts
<1> QED
  BY <1>1, <1>2, <1>3, <1>4, <1>5

LEMMA UpdateSortsStep == UpdateSorts /\ [UpdatesNext]_<<appVars, updVars>> => UpdateSorts'
<1>1. UpdateSorts /\ UNCHANGED <<appVars, updVars>> => UpdateSorts'
  BY DEF updVars, UpdateSorts
<1> QED
  BY <1>1, BatchSorts, SettingsSorts DEF UpdatesNext

(* The processes that updates act on keep their types too.                 *)
LEMMA HelpersSorts ==
  ASSUME AppSorts, UpdateSorts, [UpdatesNext]_<<appVars, updVars>>
  PROVE  AppSorts'
<1>1. ASSUME NEW p \in Launches,
             \/ Launch(p, FALSE) \/ Kill(p) \/ TryLock(p) \/ PassGate(p) \/ ShowWindow(p)
             \/ CloseWindow(p) \/ SeeClosed(p) \/ StopPart(p) \/ LoopEnds(p) \/ Unlock(p)
             \/ Exit(p)
      PROVE  AppSorts'
  <2>1. AppStep(p)
    BY <1>1 DEF AppStep
  <2> QED
    BY <2>1, AppSortsStep
<1>2. CASE UNCHANGED appVars
  BY <1>2 DEF appVars, AppSorts
<1>3. ASSUME NEW p \in Launches,
             \/ CheckForUpdates(p) \/ \E v \in Version : CheckDone(p, v)
             \/ DownloadUpdate(p) \/ \E how \in {"whole", "other", "broken"} : DownloadDone(p, how)
             \/ Install(p)
      PROVE  UNCHANGED appVars
  BY <1>3 DEF CheckForUpdates, CheckDone, DownloadUpdate, DownloadDone, Install
<1>4. ASSUME NEW p \in Launches, StartAgain(p) \/ AppGoesOn(p) PROVE AppSorts'
  BY <1>1, <1>4 DEF StartAgain, AppGoesOn
<1>5. ASSUME NEW b \in DOMAIN batches,
             WaitDone(b) \/ ForceKill(b) \/ StopHelpers(b) \/ Swap(b)
      PROVE  AppSorts'
  <2>1. batches[b].by \in Launches
    BY <1>5, BatchIs DEF BatchFile
  <2> QED
    BY <1>1, <1>2, <1>5, <2>1 DEF WaitDone, ForceKill, StopHelpers, Swap
<1> QED
  BY <1>2, <1>3, <1>4, <1>5 DEF UpdatesNext

(* A bounded set of numbers has a greatest: the least of its bounds.       *)
LEMMA Greatest ==
  ASSUME NEW S \in SUBSET Nat, S # {}, NEW n \in Nat, \A x \in S : x <= n
  PROVE  Max(S) \in S /\ \A x \in S : Max(S) >= x
<1> DEFINE T == {k \in Nat : \A x \in S : x <= k}
<1>1. PICK m \in T : \A k \in T : m <= k
  <2>1. T \in SUBSET Nat /\ n \in T
    OBVIOUS
  <2> HIDE DEF T
  <2> QED
    BY <2>1, Least
<1>2. m \in S
  <2> SUFFICES ASSUME m \notin S PROVE FALSE
    OBVIOUS
  <2>1. \A x \in S : x <= m - 1 /\ x >= 0
    OBVIOUS
  <2>2. m - 1 \in Nat
    <3>1. PICK x \in S : TRUE
      OBVIOUS
    <3>2. x \in Nat /\ x <= m - 1 /\ m \in Nat
      BY <2>1
    <3> QED
      BY <3>2
  <2>3. m - 1 \in T /\ ~(m <= m - 1)
    BY <2>1, <2>2
  <2> QED
    BY <1>1, <2>3
<1>3. \A x \in S : m >= x
  OBVIOUS
<1>4. \E x \in S : \A y \in S : x >= y
  BY <1>2, <1>3
<1> HIDE DEF T
<1> QED
  BY <1>4, Zenon DEF Max

\* What Reading leaves out: a signal is of a thread that was started
Word(n) == [of : 1 .. n, what : {"ready", "failed", "cancelled"}, info : Info]
Told ==
  /\ kind \in {"quality", "playlist"} /\ view \in {"scanning", "ready", "error", "blank"}
  /\ Len(threads) <= MaxTries
  /\ signals \in Seq(Word(Len(threads)))
  /\ probe \in [info : Info, merges : BOOLEAN]
  /\ result \in Choice

LEMMA ThreadsAre ==
  ASSUME Reading
  PROVE  /\ threads \in Seq(ReaderThread) /\ Len(threads) \in Nat
         /\ DOMAIN threads = 1 .. Len(threads)
         /\ \A t \in 1 .. Len(threads) : threads[t] \in ReaderThread
         /\ \A e : \A t \in 1 .. Len(threads) : Len([threads EXCEPT ![t] = e]) = Len(threads)
<1>1. threads \in Seq(ReaderThread)
  BY DEF Reading
<1>2. IsSeq(threads)
  BY <1>1 DEF IsSeq
<1> QED
  BY <1>1, <1>2, LenProperties, ElementOfSeq, ExceptOfSeq

LEMMA NothingIs ==
  /\ Nothing \in Info
  /\ \A vs \in SUBSET Videos : [Nothing EXCEPT !.videos = vs] \in Info
  BY DEF Nothing, Info

LEMMA TellingTold ==
  ASSUME Reading, Told, NEW t \in DOMAIN threads,
         NEW what \in {"ready", "failed", "cancelled"}, NEW info \in Info, Tells(t, what, info)
  PROVE  Told'
<1> DEFINE n == Len(threads)
           w == [of |-> t, what |-> what, info |-> info]
<1>1. t \in 1 .. n
  BY ThreadsAre
<1>2. Len(threads') = n
  BY <1>1, ThreadsAre DEF Tells
<1>3. signals \in Seq(Word(n)) /\ w \in Word(n)
  BY <1>1 DEF Told, Word
<1>4. signals' = Append(signals, w)
  BY DEF Tells
<1> HIDE DEF w, n
<1>5. signals' \in Seq(Word(n))
  BY <1>3, <1>4, AppendProperties
<1> QED
  BY <1>2, <1>5 DEF Tells, Told, n

LEMMA StayTold ==
  ASSUME Told, Len(threads') = Len(threads), UNCHANGED <<kind, view, signals, probe>>,
         result' \in Choice
  PROVE  Told'
  BY DEF Told

LEMMA ReadersTold ==
  ASSUME Reading, Told, NEW t \in DOMAIN threads,
         \/ \E info \in Info : ReadVideo(t, info) \/ ListVideos(t, info)
         \/ TryAgain(t) \/ FetchPlaylist(t) \/ Fail(t) \/ StopListing(t) \/ EndThread(t)
  PROVE  Told'
<1>1. ASSUME NEW info \in Info, ReadVideo(t, info) \/ ListVideos(t, info) PROVE Told'
  <2>1. Tells(t, "ready", info)
    BY <1>1 DEF ReadVideo, ListVideos
  <2> QED
    BY <2>1, TellingTold
<1>2. CASE Fail(t)
  BY <1>2, TellingTold, NothingIs DEF Fail
<1>3. CASE StopListing(t)
  BY <1>3, TellingTold, NothingIs DEF StopListing
<1>4. CASE TryAgain(t) \/ FetchPlaylist(t) \/ EndThread(t)
  <2>1. t \in 1 .. Len(threads)
    BY ThreadsAre
  <2>2. \E to : threads' = [threads EXCEPT ![t].ph = to]
    BY <1>4 DEF TryAgain, FetchPlaylist, EndThread
  <2>3. \E e : threads' = [threads EXCEPT ![t] = e]
    <3>1. PICK to : threads' = [threads EXCEPT ![t].ph = to]
      BY <2>2
    <3> DEFINE r == [threads[t] EXCEPT !.ph = to]
    <3>2. threads' = [threads EXCEPT ![t] = r]
      BY <3>1
    <3> QED
      BY <3>2
  <2>4. Len(threads') = Len(threads)
    BY <2>1, <2>3, ThreadsAre
  <2> QED
    BY <1>4, <2>4, StayTold DEF TryAgain, FetchPlaylist, EndThread, Told
<1> QED
  BY <1>1, <1>2, <1>3, <1>4

(* The controller lets go of its thread; the thread stays in the list.     *)
LEMMA FinishLen ==
  ASSUME Reading, NEW cancelled, FinishThread(cancelled)
  PROVE  Len(threads') = Len(threads)
<1>1. CASE ctl = 0
  BY <1>1 DEF FinishThread
<1>2. CASE ctl # 0
  <2>1. ctl \in 1 .. Len(threads)
    BY <1>2, ThreadsAre DEF Reading
  <2> DEFINE r == [threads[ctl] EXCEPT !.quit = TRUE, !.cancel = @ \/ cancelled,
                                       !.ph = IF @ = "told" THEN "ended" ELSE @]
  <2>2. threads' = [threads EXCEPT ![ctl] = r]
    BY <1>2 DEF FinishThread
  <2> HIDE DEF r
  <2> QED
    BY <2>1, <2>2, ThreadsAre
<1> QED
  BY <1>1, <1>2

LEMMA ExtractTold ==
  ASSUME Reading, Told, NEW merges \in BOOLEAN, Extract(merges), view' = "scanning",
         UNCHANGED <<kind, signals, probe, result>>
  PROVE  Told'
<1>1. CASE UNCHANGED threads
  BY <1>1 DEF Told
<1>2. CASE ~UNCHANGED threads
  <2> DEFINE r == Reader(merges)
             n == Len(threads)
  <2>1. threads' = Append(threads, r) /\ n < MaxTries
    BY <1>2 DEF Extract
  <2>2. r \in ReaderThread
    BY DEF Reader, ReaderThread
  <2> HIDE DEF r
  <2>3. Len(threads') = n + 1
    BY <2>1, <2>2, ThreadsAre, AppendProperties
  <2>4. n \in Nat /\ MaxTries \in Nat
    BY ThreadsAre, QualityAssumption
  <2>5. Word(n) \subseteq Word(n + 1)
    <3>1. 1 .. n \subseteq 1 .. n + 1
      BY <2>4
    <3> QED
      BY <3>1 DEF Word
  <2>6. signals' \in Seq(Word(n + 1))
    <3>1. signals' \in Seq(Word(n))
      BY DEF Told
    <3> QED
      BY <2>5, <3>1, SeqMonotonic
  <2>7. n + 1 <= MaxTries
    BY <2>1, <2>4
  <2> QED
    BY <2>3, <2>6, <2>7 DEF Told
<1> QED
  BY <1>1, <1>2

LEMMA HandlingTold ==
  ASSUME Reading, Told, HandleSignal PROVE Told'
<1> DEFINE n == Len(threads)
           s == Head(signals)
<1>1. Len(threads') = n
  BY FinishLen DEF HandleSignal
<1>2. signals' \in Seq(Word(n)) /\ s \in Word(n)
  BY HeadTailProperties DEF HandleSignal, Told
<1> HIDE DEF s
<1>3. s.info \in Info /\ s.of \in 1 .. n
  BY <1>2 DEF Word
<1>4. threads[s.of].merges \in BOOLEAN
  BY <1>3, ThreadsAre DEF ReaderThread
<1>5. view' \in {"scanning", "ready", "error", "blank"}
  BY DEF HandleSignal, Presents, Told
<1>6. probe' \in [info : Info, merges : BOOLEAN]
  BY <1>3, <1>4 DEF HandleSignal, Told, s
<1>7. result' \in Choice
  BY DEF HandleSignal, Choice, Told
<1> QED
  BY <1>1, <1>2, <1>5, <1>6, <1>7 DEF HandleSignal, Told

LEMMA SelectIs ==
  ASSUME NEW info, NEW h \in Heights \cup {0}, NEW merges \in BOOLEAN,
         info \in Info
  PROVE  /\ Select(info, h, merges).limit \in Heights \cup {0}
         /\ Select(info, h, merges).merge \in BOOLEAN
<1> DEFINE lower == {k \in Offered(info, merges) : k < h}
<1>1. Offered(info, merges) \subseteq Heights /\ Heights \subseteq Nat /\ info.sound \in BOOLEAN
  BY QualityAssumption DEF Offered, Info
<1>2. lower # {} => Max(lower) \in Heights
  <2>1. lower \in SUBSET Nat /\ h \in Nat /\ \A k \in lower : k <= h
    <3>1. h \in Nat
      BY QualityAssumption
    <3>2. lower \subseteq Nat /\ \A k \in lower : k < h
      BY <1>1, Zenon
    <3> HIDE DEF lower
    <3>3. \A k \in lower : k \in Nat /\ k < h
      BY <3>2
    <3> QED
      BY <3>1, <3>2, <3>3
  <2>2. lower \subseteq Heights
    BY <1>1
  <2> HIDE DEF lower
  <2> QED
    BY <2>1, <2>2, Greatest
<1>3. \A k \in Heights \cup {0} : /\ Option(info, k, merges).limit \in Heights \cup {0}
                                  /\ Option(info, k, merges).merge \in BOOLEAN
  <2>1. \A k : (merges /\ info.sound /\ (k # 0 \/ info.mute # {})) \in BOOLEAN
    OBVIOUS
  <2> QED
    BY <2>1, Zenon DEF Option
<1>4. \E k \in Heights \cup {0} : Select(info, h, merges) = Option(info, k, merges)
  BY <1>2 DEF Select
<1> QED
  BY <1>3, <1>4

LEMMA DeciderTold ==
  ASSUME Reading, Told,
         \/ \E h \in Heights \cup {0} : Accept(h)
         \/ \E vs \in SUBSET Videos : AcceptVideos(vs)
         \/ Reject \/ Close
  PROVE  Told'
<1>1. result \in Choice
  BY DEF Told
<1>2. ASSUME NEW h \in Heights \cup {0}, Accept(h) PROVE Told'
  <2> DEFINE o == Select(probe.info, h, ffmpeg)
  <2>1. o.limit \in Heights \cup {0} /\ o.merge \in BOOLEAN
    BY SelectIs DEF Told, Reading
  <2>2. result' = [result EXCEPT !.st = "taken", !.limit = o.limit, !.merge = o.merge]
    BY <1>2 DEF Accept
  <2> HIDE DEF o
  <2>3. result' \in Choice
    BY <1>1, <2>1, <2>2 DEF Choice
  <2> QED
    BY <1>2, <2>3, StayTold DEF Accept
<1>3. ASSUME NEW vs \in SUBSET Videos, AcceptVideos(vs) PROVE Told'
  <2>1. result' \in Choice
    BY <1>1, <1>3 DEF AcceptVideos, Choice
  <2> QED
    BY <1>3, <2>1, StayTold DEF AcceptVideos
<1>4. CASE Reject \/ Close
  <2>1. result' \in Choice
    BY <1>1, <1>4 DEF Reject, Close, Choice
  <2>2. Len(threads') = Len(threads)
    <3>1. CASE IsRunning /\ threads' = [threads EXCEPT ![ctl].cancel = TRUE]
      <4>1. ctl \in 1 .. Len(threads)
        BY <3>1, ThreadsAre DEF IsRunning, Reading
      <4> DEFINE r == [threads[ctl] EXCEPT !.cancel = TRUE]
      <4>2. threads' = [threads EXCEPT ![ctl] = r]
        BY <3>1
      <4> HIDE DEF r
      <4> QED
        BY <4>1, <4>2, ThreadsAre
    <3>2. CASE FinishThread(TRUE)
      BY <3>2, FinishLen
    <3> QED
      BY <1>4, <3>1, <3>2 DEF Reject, Close
  <2> QED
    BY <1>4, <2>1, <2>2, StayTold DEF Reject, Close
<1> QED
  BY <1>2, <1>3, <1>4

LEMMA ToldStep == ASSUME Reading, Told, [QualityNext]_qdVars PROVE Told'
<1>1. CASE UNCHANGED qdVars
  BY <1>1 DEF qdVars, Told
<1>2. CASE Retry
  BY <1>2, ExtractTold DEF Retry, Reading
<1>3. CASE LocateFfmpeg
  BY <1>3, ExtractTold DEF LocateFfmpeg
<1> QED
  BY <1>1, <1>2, <1>3, ReadersTold, HandlingTold, DeciderTold DEF QualityNext

LEMMA ToldInit == QualityInit => Told
<1> SUFFICES ASSUME QualityInit PROVE Told
  OBVIOUS
<1>3. 1 <= MaxTries
  BY QualityAssumption
<1>1. Len(threads) = 1 /\ <<>> \in Seq(Word(1))
  BY EmptySeq DEF QualityInit
<1>2. probe \in [info : Info, merges : BOOLEAN] /\ result \in Choice
  BY NothingIs DEF QualityInit, Undecided, Choice
<1> QED
  BY <1>1, <1>2, <1>3 DEF QualityInit, Told

LEMMA QualityTypes == Reading /\ Told => QualityTypeOK
<1> SUFFICES ASSUME Reading, Told PROVE QualityTypeOK
  OBVIOUS
<1>1. \A t \in DOMAIN threads : threads[t] \in ReaderThread
  BY ThreadsAre
<1>2. \A k \in DOMAIN signals : signals[k] \in Word(Len(threads))
  BY LenProperties, ElementOfSeq DEF Told
<1> QED
  BY <1>1, <1>2, ThreadsAre DEF QualityTypeOK, Reading, Told, Word, ReaderThread

\* The library
Frame == [req : Request, at : Paths, set : BOOLEAN]
Job == [ph : {"due", "looked"}, entry : [path : Paths, content : Contents \cup {0}],
        found : BOOLEAN]
Table == DOMAIN rows \subseteq 1 .. MaxId /\ \A i \in DOMAIN rows : rows[i] \in Row
Shelves ==
  /\ Table /\ disk \in [Paths -> Contents \cup {0}]
  /\ index \subseteq Entry /\ jobs \subseteq Job
  /\ \A j \in jobs : j.ph = "looked" => j.entry \in Entry
  /\ policy \in {"off", "ask", "skip"} /\ hook \in BOOLEAN
  /\ asking \in Seq(Frame) /\ Len(asking) <= MaxOpen
  /\ pages \subseteq [id : 1 .. MaxId, url : Contents]
  /\ items \in [Contents -> Item] /\ archive \subseteq Contents

LEMMA NextIs ==
  ASSUME Table, RoomForRow
  PROVE  NextId \in 1 .. MaxId
<1> DEFINE S == DOMAIN rows \cup {0}
<1>1. MaxId \in Nat
  BY LibraryAssumption
<1>2. S \in SUBSET Nat /\ S # {} /\ \A x \in S : x <= MaxId
  BY <1>1 DEF Table
<1> HIDE DEF S
<1>3. Max(S) \in S
  BY <1>1, <1>2, Greatest
<1>4. Max(S) \in Nat
  BY <1>2, <1>3
<1>5. NextId = Max(S) + 1
  BY DEF NextId, S
<1> QED
  BY <1>1, <1>4, <1>5 DEF RoomForRow

LEMMA NewRow ==
  ASSUME Table, RoomForRow, NEW r \in Row, rows' = WithRow(r)
  PROVE  Table'
<1>1. NextId \in 1 .. MaxId
  BY NextIs
<1> QED
  BY <1>1 DEF WithRow, Table

LEMMA DuplicatesAre ==
  ASSUME Shelves, NEW q \in Request
  PROVE  Duplicates(q) \subseteq Paths
<1>1. \A bytes : ByDigest(bytes) \subseteq Paths
  BY DEF ByDigest, Shelves, Entry
<1>2. ByUrl(q.url, q.path) \subseteq Paths
  BY DEF ByUrl, Shelves, Table, Row, Request
<1> QED
  BY <1>1, <1>2 DEF Duplicates

LEMMA CreateShelves ==
  ASSUME Shelves, NEW q \in Request, Create(q)
  PROVE  /\ Table' /\ disk' \in [Paths -> Contents \cup {0}]
         /\ pages' \subseteq [id : 1 .. MaxId, url : Contents]
<1> DEFINE r == [st |-> IF q.how = "data" THEN "completed" ELSE "queued",
                 url |-> q.url, path |-> q.path, at |-> IF q.how = "video" THEN q.at ELSE 0]
<1>1. r \in Row
  BY DEF Row, Request
<1>2. RoomForRow /\ rows' = WithRow(r)
  BY DEF Create
<1> HIDE DEF r
<1>3. Table'
  BY <1>1, <1>2, NewRow DEF Shelves
<1>4. disk' \in [Paths -> Contents \cup {0}]
  BY DEF Create, Shelves, Request
<1>5. pages' \subseteq [id : 1 .. MaxId, url : Contents]
  <2>1. NextId \in 1 .. MaxId
    BY <1>2, NextIs DEF Shelves
  <2> QED
    BY <2>1 DEF Create, RunArchiving, Shelves, Request
<1> QED
  BY <1>3, <1>4, <1>5

LEMMA SubstituteShelves ==
  ASSUME Shelves, NEW q \in Request, NEW p \in Paths, Substitute(q, p)
  PROVE  Table' /\ UNCHANGED <<disk, pages>>
<1> DEFINE r == [st |-> "completed", url |-> q.url, path |-> p, at |-> 0]
<1>1. r \in Row
  BY DEF Row, Request
<1>2. UNCHANGED rows \/ (RoomForRow /\ rows' = WithRow(r))
  BY DEF Substitute
<1> HIDE DEF r
<1>3. Table'
  BY <1>1, <1>2, NewRow DEF Shelves, Table
<1> QED
  BY <1>3 DEF Substitute

LEMMA LinkedShelves ==
  ASSUME Shelves, NEW q \in Request, Linked(q)
  PROVE  items' \in [Contents -> Item]
<1>1. q.url \in Contents /\ q.at \in Contents /\ items \in [Contents -> Item]
  BY DEF Request, Shelves
<1>2. \A x \in Item : [at |-> IF x.at = 0 THEN q.at ELSE x.at, st |-> "added"] \in Item
  BY <1>1 DEF Item
<1>3. [at |-> IF items[q.url].at = 0 THEN q.at ELSE items[q.url].at, st |-> "added"] \in Item
  BY <1>1, <1>2
<1> QED
  BY <1>1, <1>3 DEF Linked

LEMMA AddsShelves ==
  ASSUME Shelves, NEW q \in Request, NEW asked \in BOOLEAN, NEW attended \in BOOLEAN,
         Adds(q, asked, attended)
  PROVE  Shelves'
<1>1. UNCHANGED <<index, jobs, policy, archive>>
  BY DEF Adds
<1>2. CASE Create(q) /\ Linked(q) /\ UNCHANGED <<asking, hook>>
  BY <1>1, <1>2, CreateShelves, LinkedShelves DEF Shelves
<1>3. CASE /\ \E p \in Duplicates(q) : Substitute(q, p)
           /\ Linked(q) /\ UNCHANGED <<asking, hook>>
  <2>1. PICK p \in Paths : Substitute(q, p)
    BY <1>3, DuplicatesAre
  <2> QED
    BY <1>1, <1>3, <2>1, SubstituteShelves, LinkedShelves DEF Shelves
<1>4. CASE /\ Len(asking) < MaxOpen /\ hook' = TRUE
           /\ \E p \in Duplicates(q) : OpenDialog(q, p, attended)
           /\ UNCHANGED <<rows, disk, pages, items>>
  <2>1. PICK p \in Paths : OpenDialog(q, p, attended)
    BY <1>4, DuplicatesAre
  <2> DEFINE fr == [req |-> q, at |-> p, set |-> attended]
  <2>2. fr \in Frame
    BY DEF Frame
  <2>3. asking' = <<fr>> \o asking
    BY <2>1 DEF OpenDialog
  <2> HIDE DEF fr
  <2>4. <<fr>> \in Seq(Frame) /\ Len(<<fr>>) = 1
    BY <2>2
  <2>5. asking' \in Seq(Frame) /\ Len(asking') = 1 + Len(asking)
    BY <2>3, <2>4, ConcatProperties DEF Shelves
  <2>6. Len(asking') <= MaxOpen
    <3>1. Len(asking) \in Nat /\ MaxOpen \in Nat
      BY LenProperties, LibraryAssumption DEF Shelves
    <3> QED
      BY <1>4, <2>5, <3>1
  <2> QED
    BY <1>1, <1>4, <2>5, <2>6 DEF Shelves, Table
<1> QED
  BY <1>2, <1>3, <1>4 DEF Adds

LEMMA AnswerShelves ==
  ASSUME Shelves, NEW choice, AnswerDialog(choice)
  PROVE  Shelves'
<1> DEFINE fr == Head(asking)
<1>1. asking # <<>> /\ asking \in Seq(Frame)
  BY DEF AnswerDialog, Shelves
<1>2. fr \in Frame /\ asking' \in Seq(Frame) /\ Len(asking') = Len(asking) - 1
  BY <1>1, HeadTailProperties DEF AnswerDialog
<1>3. /\ \/ Create(fr.req) \/ Substitute(fr.req, fr.at) \/ UNCHANGED <<rows, disk, pages>>
      /\ hook' = Restored(fr)
      /\ UNCHANGED <<index, jobs, policy, items, archive>>
  BY DEF AnswerDialog
<1> HIDE DEF fr
<1>4. fr.req \in Request /\ fr.at \in Paths
  BY <1>2 DEF Frame
<1>5. /\ Table' /\ disk' \in [Paths -> Contents \cup {0}]
      /\ pages' \subseteq [id : 1 .. MaxId, url : Contents]
  <2>1. CASE Create(fr.req)
    BY <1>4, <2>1, CreateShelves
  <2>2. CASE Substitute(fr.req, fr.at)
    BY <1>4, <2>2, SubstituteShelves DEF Shelves
  <2>3. CASE UNCHANGED <<rows, disk, pages>>
    BY <2>3 DEF Shelves, Table
  <2> QED
    BY <1>3, <2>1, <2>2, <2>3
<1>6. hook' \in BOOLEAN
  BY <1>3 DEF Restored, Shelves
<1>7. Len(asking') <= MaxOpen
  <2>1. Len(asking) \in Nat /\ MaxOpen \in Nat /\ Len(asking) <= MaxOpen
    BY <1>1, LenProperties, LibraryAssumption DEF Shelves
  <2> QED
    BY <1>2, <2>1
<1> QED
  BY <1>2, <1>3, <1>5, <1>6, <1>7 DEF Shelves

LEMMA RowsShelves ==
  ASSUME Shelves,
         \/ \E i \in 1 .. MaxId, ok \in BOOLEAN : FinishTask(i, ok) \/ FinishVideo(i, ok)
         \/ \E p \in pages : Archived(p)
         \/ \E i \in 1 .. MaxId : RemoveDownload(i)
  PROVE  Shelves'
<1>1. ASSUME NEW i \in 1 .. MaxId, NEW ok \in BOOLEAN, FinishTask(i, ok) PROVE Shelves'
  <2>1. i \in DOMAIN rows /\ rows[i] \in Row
    BY <1>1 DEF FinishTask, Shelves, Table
  <2>2. Table'
    <3>1. [rows[i] EXCEPT !.st = IF ok THEN "completed" ELSE "failed"] \in Row
      BY <2>1 DEF Row
    <3> QED
      BY <1>1, <3>1 DEF FinishTask, Shelves, Table
  <2>3. rows[i].path \in Paths /\ rows[i].url \in Contents
    BY <2>1 DEF Row
  <2>4. disk' \in [Paths -> Contents \cup {0}]
    BY <1>1, <2>3 DEF FinishTask, Shelves
  <2>5. Due(rows[i].path) \in Job /\ Due(rows[i].path).ph = "due"
    BY <2>3 DEF Due, Job
  <2>6. jobs' \subseteq Job /\ \A j \in jobs' : j.ph = "looked" => j.entry \in Entry
    BY <1>1, <2>5 DEF FinishTask, Shelves
  <2> QED
    BY <1>1, <2>2, <2>4, <2>6 DEF FinishTask, Shelves
<1>2. ASSUME NEW i \in 1 .. MaxId, NEW ok \in BOOLEAN, FinishVideo(i, ok) PROVE Shelves'
  <2> DEFINE to == IF ok THEN "completed" ELSE "failed"
  <2>1. i \in DOMAIN rows /\ rows[i] \in Row /\ to \in {"completed", "failed"}
    BY <1>2 DEF FinishVideo, Shelves, Table
  <2>2. /\ rows' = [rows EXCEPT ![i].st = to]
        /\ disk' = IF ok THEN [disk EXCEPT ![rows[i].path] = rows[i].url] ELSE disk
    BY <1>2 DEF FinishVideo
  <2>3. UNCHANGED <<index, jobs, policy, hook, asking, pages>>
    BY <1>2 DEF FinishVideo
  <2>4. \/ UNCHANGED <<items, archive>>
        \/ \E v \in Contents : /\ items' = [items EXCEPT ![v].st = to]
                               /\ archive' = IF ok THEN archive \cup {v} ELSE archive
    <3>1. ASSUME ~UNCHANGED <<items, archive>>
          PROVE  \E v \in Contents : /\ items' = [items EXCEPT ![v].st = to]
                                     /\ archive' = IF ok THEN archive \cup {v} ELSE archive
      BY <1>2, <3>1, Zenon DEF FinishVideo
    <3> QED
      BY <3>1
  <2> HIDE DEF to
  <2>5. Table'
    <3>1. [rows[i] EXCEPT !.st = to] \in Row
      BY <2>1 DEF Row
    <3> QED
      BY <2>2, <3>1 DEF Shelves, Table
  <2>6. disk' \in [Paths -> Contents \cup {0}]
    <3>1. rows[i].path \in Paths /\ rows[i].url \in Contents
      BY <2>1 DEF Row
    <3>2. disk \in [Paths -> Contents \cup {0}]
      BY DEF Shelves
    <3> QED
      BY <2>2, <3>1, <3>2
  <2>7. items' \in [Contents -> Item] /\ archive' \subseteq Contents
    <3>1. \A x \in Item : [x EXCEPT !.st = to] \in Item
      BY <2>1 DEF Item
    <3>2. items \in [Contents -> Item] /\ archive \subseteq Contents
      BY DEF Shelves
    <3>3. CASE UNCHANGED <<items, archive>>
      BY <3>2, <3>3
    <3>4. ASSUME NEW v \in Contents, items' = [items EXCEPT ![v].st = to],
                 archive' = IF ok THEN archive \cup {v} ELSE archive
          PROVE  items' \in [Contents -> Item] /\ archive' \subseteq Contents
      <4>1. items[v] \in Item
        BY <3>2
      <4> QED
        BY <3>1, <3>2, <3>4, <4>1
    <3> QED
      BY <2>4, <3>3, <3>4
  <2> QED
    BY <2>3, <2>5, <2>6, <2>7 DEF Shelves
<1>3. ASSUME NEW p \in pages, Archived(p) PROVE Shelves'
  <2>1. p.url \in Contents
    BY DEF Shelves
  <2>2. Table' /\ disk' \in [Paths -> Contents \cup {0}]
    <3>1. CASE \E x \in PagePaths :
                 /\ disk' = [disk EXCEPT ![x] = p.url]
                 /\ rows' = [i \in DOMAIN rows |-> IF i # p.id THEN rows[i]
                               ELSE [rows[i] EXCEPT !.st = "completed", !.path = x]]
      <4>1. PICK x \in Paths :
                 /\ disk' = [disk EXCEPT ![x] = p.url]
                 /\ rows' = [i \in DOMAIN rows |-> IF i # p.id THEN rows[i]
                               ELSE [rows[i] EXCEPT !.st = "completed", !.path = x]]
        BY <3>1 DEF PagePaths
      <4>2. \A r \in Row : [r EXCEPT !.st = "completed", !.path = x] \in Row
        BY DEF Row
      <4> QED
        BY <2>1, <4>1, <4>2 DEF Shelves, Table
    <3>2. CASE /\ rows' = [i \in DOMAIN rows |-> IF i # p.id THEN rows[i]
                             ELSE [rows[i] EXCEPT !.st = "failed"]]
               /\ UNCHANGED disk
      <4>1. \A r \in Row : [r EXCEPT !.st = "failed"] \in Row
        BY DEF Row
      <4> QED
        BY <3>2, <4>1 DEF Shelves, Table
    <3> QED
      BY <1>3, <3>1, <3>2 DEF Archived
  <2> QED
    BY <1>3, <2>2 DEF Archived, Shelves
<1>4. ASSUME NEW i \in 1 .. MaxId, RemoveDownload(i) PROVE Shelves'
  BY <1>4 DEF RemoveDownload, Shelves, Table
<1> QED
  BY <1>1, <1>2, <1>3, <1>4

LEMMA IndexShelves ==
  ASSUME Shelves,
         (\E p \in Paths : Scan(p)) \/ (\E j \in jobs : Digest(j)) \/ (\E j \in jobs : Index(j))
  PROVE  Shelves'
<1>1. ASSUME NEW p \in Paths, Scan(p) PROVE Shelves'
  <2>1. Due(p) \in Job /\ Due(p).ph = "due"
    BY DEF Due, Job
  <2> QED
    BY <1>1, <2>1 DEF Scan, Shelves, Table
<1>2. ASSUME NEW j \in jobs, Digest(j) PROVE Shelves'
  <2> DEFINE p == j.entry.path
             e == [path |-> p, content |-> disk[p]]
             looked == [ph |-> "looked", entry |-> e, found |-> ByDigest(disk[p]) # {}]
  <2>1. p \in Paths /\ disk[p] \in Contents \cup {0}
    BY DEF Shelves, Job
  <2>2. jobs' = (jobs \ {j}) \cup (IF disk[p] = 0 THEN {} ELSE {looked})
    BY <1>2 DEF Digest
  <2>3. disk[p] # 0 => looked \in Job /\ looked.entry \in Entry
    BY <2>1 DEF Job, Entry
  <2> HIDE DEF p, looked
  <2>4. jobs' \subseteq Job /\ \A k \in jobs' : k.ph = "looked" => k.entry \in Entry
    BY <2>2, <2>3 DEF Shelves
  <2> QED
    BY <1>2, <2>4 DEF Digest, Shelves, Table
<1>3. ASSUME NEW j \in jobs, Index(j) PROVE Shelves'
  BY <1>3 DEF Index, Shelves, Table
<1> QED
  BY <1>1, <1>2, <1>3

LEMMA ShelvesStep == Shelves /\ [LibraryNext]_libVars => Shelves'
<1> SUFFICES ASSUME Shelves, [LibraryNext]_libVars PROVE Shelves'
  OBVIOUS
<1>1. CASE UNCHANGED libVars
  BY <1>1 DEF libVars, Shelves, Table
<1>2. CASE \E q \in Request : AddAttended(q) \/ AddUnattended(q) \/ AddPlaylist(q)
  <2>1. hook \in BOOLEAN
    BY DEF Shelves
  <2> QED
    BY <1>2, <2>1, AddsShelves DEF AddAttended, AddUnattended, AddPlaylist
<1> QED
  BY <1>1, <1>2, AnswerShelves, RowsShelves, IndexShelves DEF LibraryNext

LEMMA ShelvesInit == LibraryInit => Shelves
<1> SUFFICES ASSUME LibraryInit PROVE Shelves
  OBVIOUS
<1>1. <<>> \in Seq(Frame) /\ Len(<<>>) = 0 /\ 0 <= MaxOpen
  BY EmptySeq, LibraryAssumption
<1>2. DOMAIN <<>> = {}
  BY EmptyIsSeq
<1> QED
  BY <1>1, <1>2 DEF LibraryInit, Shelves, Table, Item

LEMMA LibraryTypes == Shelves => LibraryTypeOK
<1> SUFFICES ASSUME Shelves PROVE LibraryTypeOK
  OBVIOUS
<1>1. Range(rows) \subseteq Row
  BY DEF Shelves, Table, Range
<1>2. \A k \in DOMAIN asking : asking[k] \in Frame
  BY LenProperties, ElementOfSeq DEF Shelves
<1>3. \A j \in jobs : j.entry.path \in Paths /\ j.found \in BOOLEAN
  BY DEF Shelves, Job
<1> QED
  BY <1>1, <1>2, <1>3 DEF Shelves, Table, LibraryTypeOK, Frame

-----------------------------------------------------------------------------
(* All of them                                                             *)

\* Nothing is handed over in the part that shows the updates
NothingHanded ==
    where \in [Launches -> [st : {"none"}, at : Launches \cup {0}]]

ServicesSorted ==
    /\ Shelves /\ SessionSets /\ Told /\ Sorts /\ AppSorts /\ UpdateSorts /\ Sockets /\ Cache

ServicesInv ==
    /\ Asking /\ Mirrors /\ Session /\ Reading /\ Testing /\ Dashboard /\ Previews
    /\ part # "updates" => Processes /\ batches = <<>>
    /\ part = "updates" => Installing /\ NothingHanded
    /\ ServicesSorted
    /\ part \in {"library", "page", "session", "dialog", "speed", "app", "updates", "remote",
                 "preview"}

LEMMA HandingStep ==
  ASSUME NothingHanded, [UpdatesNext]_<<appVars, updVars>> PROVE NothingHanded'
<1>1. \A p \in Launches : where[p].st = "none"
  BY DEF NothingHanded
<1>2. ASSUME NEW p \in Launches, Launch(p, FALSE) PROVE NothingHanded'
  BY <1>2 DEF Launch, NothingHanded
<1>3. ASSUME NEW p \in Launches, AppGoesOn(p) PROVE UNCHANGED where
  BY <1>1, <1>3 DEF AppGoesOn, TryLock, PassGate, ShowWindow, CloseWindow, SeeClosed,
                    StopPart, LoopEnds, Unlock, Exit
<1>4. ASSUME NEW p \in Launches,
             \/ CheckForUpdates(p) \/ \E v \in Version : CheckDone(p, v)
             \/ DownloadUpdate(p) \/ \E how \in {"whole", "other", "broken"} : DownloadDone(p, how)
             \/ Install(p)
      PROVE  UNCHANGED where
  BY <1>4 DEF CheckForUpdates, CheckDone, DownloadUpdate, DownloadDone, Install, appVars
<1>5. ASSUME NEW b \in DOMAIN batches,
             WaitDone(b) \/ ForceKill(b) \/ StopHelpers(b) \/ Swap(b)
      PROVE  UNCHANGED where
  BY <1>5 DEF WaitDone, ForceKill, StopHelpers, Swap, Kill, appVars
<1>6. UNCHANGED where \/ NothingHanded'
  <2>1. CASE UpdatesNext
    BY <2>1, <1>2, <1>3, <1>4, <1>5 DEF UpdatesNext, StartAgain
  <2>2. CASE UNCHANGED <<appVars, updVars>>
    BY <2>2 DEF appVars
  <2> QED
    BY <2>1, <2>2
<1> QED
  BY <1>6 DEF NothingHanded

LEMMA ServicesBegin == ServicesInit => ServicesInv
<1> SUFFICES ASSUME ServicesInit PROVE ServicesInv
  OBVIOUS
<1>1. Asking /\ Mirrors /\ Session /\ Reading /\ Testing /\ Dashboard /\ Previews
  BY AskingInit, MirrorsInit, SessionInitially, ReadingInit, TestingInit, DashboardInit,
     PreviewsInit
  DEF ServicesInit
<1>2. part # "updates" => Processes /\ batches = <<>>
  BY ProcessesInit DEF ServicesInit, UpdatesInit
<1>3. ASSUME part = "updates" PROVE Installing /\ NothingHanded
  <2>1. UpdatesInit /\ Running
    BY <1>3 DEF ServicesInit
  <2> QED
    BY <2>1, InstallingInit DEF Running, NothingHanded
<1>4. ServicesSorted
  <2>1. SessionSets
    BY DEF ServicesInit, SessionInit, SessionSets
  <2>2. Sockets
    <3>1. tasks = <<Scheduled("ensure")>> /\ listening = {} /\ shown = NoAddress
      BY DEF ServicesInit, RemoteInit
    <3> QED
      BY <3>1, OneTask DEF Sockets
  <2>3. Cache
    BY DEF ServicesInit, PreviewInit, Cache
  <2> QED
    BY <2>1, <2>2, <2>3, ShelvesInit, ToldInit, SortsInit, AppSortsInit, UpdateSortsInit
    DEF ServicesInit, ServicesSorted
<1>5. part \in {"library", "page", "session", "dialog", "speed", "app", "updates", "remote",
               "preview"}
  BY DEF ServicesInit
<1> QED
  BY <1>1, <1>2, <1>3, <1>4, <1>5 DEF ServicesInv

\* Each part moves as it does by itself, or stands still
LEMMA PartsMove ==
  ASSUME [ServicesNext]_<<part, libVars, pageVars, sessVars, qdVars, speedVars, appVars,
                          updVars, remVars, prevVars>>
  PROVE  /\ [LibraryNext]_libVars /\ [PageNext]_pageVars
         /\ [SessionNext]_sessVars /\ [QualityNext]_qdVars
         /\ [SpeedNext]_speedVars /\ [RemoteNext]_remVars /\ [PreviewNext]_prevVars
         /\ part' = part
         /\ part # "updates" => [AppNext]_appVars /\ UNCHANGED updVars
         /\ part = "updates" => [UpdatesNext]_<<appVars, updVars>>
<1> QED
  BY Zenon DEF ServicesNext, LibraryRuns, PageRuns, SessionRuns, DialogRuns, SpeedRuns, AppRuns,
               UpdatesRuns, RemoteRuns, PreviewRuns

LEMMA ServicesStep ==
  ServicesInv /\ [ServicesNext]_<<part, libVars, pageVars, sessVars, qdVars, speedVars, appVars,
                                  updVars, remVars, prevVars>> => ServicesInv'
<1> SUFFICES ASSUME ServicesInv,
                    [ServicesNext]_<<part, libVars, pageVars, sessVars, qdVars, speedVars,
                                     appVars, updVars, remVars, prevVars>>
             PROVE  ServicesInv'
  OBVIOUS
<1>1. /\ [LibraryNext]_libVars /\ [PageNext]_pageVars
      /\ [SessionNext]_sessVars /\ [QualityNext]_qdVars
      /\ [SpeedNext]_speedVars /\ [RemoteNext]_remVars /\ [PreviewNext]_prevVars
      /\ part' = part
      /\ part # "updates" => [AppNext]_appVars /\ UNCHANGED updVars
      /\ part = "updates" => [UpdatesNext]_<<appVars, updVars>>
  BY PartsMove
<1>2. (Asking /\ Mirrors /\ Session /\ Reading /\ Testing /\ Dashboard /\ Previews)'
  BY <1>1, AskingStep, MirrorsStep, SessionStep, ReadingStep, TestingStep, DashboardStep,
     PreviewsStep
  DEF ServicesInv
<1>3. part # "updates" => Processes' /\ batches' = <<>>
  BY <1>1, ProcessesStep DEF ServicesInv, updVars
<1>4. part = "updates" => Installing' /\ NothingHanded'
  BY <1>1, InstallingStep, HandingStep DEF ServicesInv
<1>5. ServicesSorted'
  <2>1. Session /\ Reading /\ Dashboard /\ ServicesSorted
    BY DEF ServicesInv
  <2>2. (Shelves /\ SessionSets /\ Told /\ Sorts /\ Sockets /\ Cache)'
    BY <1>1, <2>1, ShelvesStep, SessionSetsStep, ToldStep, SortsStep, SocketsStep, CacheStep
    DEF ServicesSorted
  <2>3. (AppSorts /\ UpdateSorts)'
    <3>1. AppSorts /\ UpdateSorts
      BY <2>1 DEF ServicesSorted
    <3>2. CASE part # "updates"
      <4>1. [AppNext]_appVars /\ UNCHANGED updVars
        BY <1>1, <3>2
      <4>2. UpdateSorts'
        BY <3>1, <4>1 DEF updVars, UpdateSorts
      <4> QED
        BY <3>1, <4>1, <4>2, AppSortsNext
    <3>3. CASE part = "updates"
      <4>1. [UpdatesNext]_<<appVars, updVars>>
        BY <1>1, <3>3
      <4> QED
        BY <3>1, <4>1, HelpersSorts, UpdateSortsStep
    <3> QED
      BY <3>2, <3>3
  <2> QED
    BY <2>2, <2>3 DEF ServicesSorted
<1> QED
  BY <1>1, <1>2, <1>3, <1>4, <1>5 DEF ServicesInv

LEMMA ServicesTyped == ServicesInv => ServicesTypeOK
<1> SUFFICES ASSUME ServicesInv PROVE ServicesTypeOK
  OBVIOUS
<1>1. /\ Mirrors /\ Session /\ Reading /\ Dashboard /\ Previews
      /\ Shelves /\ SessionSets /\ Told /\ Sorts /\ AppSorts /\ UpdateSorts /\ Sockets /\ Cache
  BY DEF ServicesInv, ServicesSorted
<1>2. LibraryTypeOK /\ PageTypeOK /\ SessionTypeOK /\ QualityTypeOK /\ SpeedTypeOK /\ AppTypeOK
  BY <1>1, LibraryTypes, MirrorsTyped, SessionTypes, QualityTypes, SpeedTypes, AppTypes
<1>3. UpdatesTypeOK
  BY <1>1, UpdateTypes
<1>4. RemoteTypeOK
  BY <1>1, RemoteTypes
<1>5. PreviewTypeOK
  BY <1>1 DEF Previews, Cache, PreviewTypeOK
<1>6. part \in {"library", "page", "session", "dialog", "speed", "app", "updates", "remote",
               "preview"}
  BY DEF ServicesInv
<1> QED
  BY <1>2, <1>3, <1>4, <1>5, <1>6 DEF ServicesTypeOK

\* What the run of the services checks of each of them, the types of its variables too,
\* holds in the specification it checks, where each behaviour exercises one part: the add
\* of core/downloads/manager.py, pages/downloads.py, torrent/handler.py, youtube_quality.py,
\* pages/speedtest.py, app/main.py, updates/downloader.py, remote/server.py and
\* dialogs/preview.py.
THEOREM ServicesCorrect ==
  ServicesSpec => [](/\ ServicesTypeOK
                     /\ AskedOnlyUnderneath /\ ShowsTable /\ PauseFlushKept /\ ScanHasReader
                     /\ DisabledOnlyWhileTesting /\ DeliveredToWindow /\ SwapAfterExit
                     /\ DashboardFollowsSetting /\ ProxyPlayedWhole)
<1>1. ASSUME ServicesInv
      PROVE  /\ ServicesTypeOK
             /\ AskedOnlyUnderneath /\ ShowsTable /\ PauseFlushKept /\ ScanHasReader
             /\ DisabledOnlyWhileTesting /\ DeliveredToWindow /\ SwapAfterExit
             /\ DashboardFollowsSetting /\ ProxyPlayedWhole
  <2>1. AskedOnlyUnderneath /\ ScanHasReader /\ DisabledOnlyWhileTesting
    BY <1>1 DEF ServicesInv, Asking, Reading, Testing
  <2>2. PauseFlushKept /\ ShowsTable /\ ServicesTypeOK
    BY <1>1, SessionFlushed, MirrorsShow, ServicesTyped DEF ServicesInv
  <2>3. DashboardFollowsSetting
    BY <1>1 DEF ServicesInv, Dashboard, Following, Obeyed, DashboardFollowsSetting
  <2>4. ProxyPlayedWhole
    BY <1>1 DEF ServicesInv, Previews, Attended, Sensible, ProxyPlayedWhole
  <2>5. CASE part # "updates"
    <3>1. Processes /\ DOMAIN batches = {}
      BY <1>1, <2>5, EmptySeq DEF ServicesInv
    <3>2. DeliveredToWindow
      BY <3>1 DEF Processes, Delivered, DeliveredToWindow, Passed
    <3>3. SwapAfterExit
      BY <3>1 DEF SwapAfterExit
    <3> QED
      BY <2>1, <2>2, <2>3, <2>4, <3>2, <3>3
  <2>6. CASE part = "updates"
    <3>1. Installing /\ NothingHanded
      BY <1>1, <2>6 DEF ServicesInv
    <3>2. DeliveredToWindow
      BY <3>1 DEF NothingHanded, DeliveredToWindow
    <3>3. SwapAfterExit
      BY <3>1 DEF Installing, Waited, SwapAfterExit, Over
    <3> QED
      BY <2>1, <2>2, <2>3, <2>4, <3>2, <3>3
  <2> QED
    BY <2>5, <2>6
<1> QED
  BY ServicesBegin, ServicesStep, <1>1, PTL DEF ServicesSpec
=============================================================================
