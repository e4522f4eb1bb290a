------------------------------ MODULE SpeedTest ------------------------------
(***************************************************************************)
(* The speed test: the service that runs and records tests, its automatic  *)
(* tests, and the page that starts one and shows how it goes.              *)
(*                                                                         *)
(* A test of the page runs in a thread with an event loop of its own; an   *)
(* automatic one runs on the application's loop and, being made of         *)
(* blocking requests, holds up the whole window until it is over.  Both    *)
(* post their progress and their end to the page, which cannot tell whose  *)
(* end it hears of.                                                        *)
(***************************************************************************)
EXTENDS Integers, Sequences, FiniteSets

CONSTANTS
  Speeds,        \* measured speeds: 1..n; 0 stands for none
  MaxTests,      \* bound: tests of the page at a time
  MaxNotices,    \* bound: events on their way to the page
  MaxHistory     \* bound: results kept; the table is never pruned in the code

ASSUME SpeedAssumption ==
  Speeds \subseteq Nat \ {0} /\ {MaxTests, MaxNotices} \subseteq Nat /\ MaxHistory \in Nat \ {0}

VARIABLES
  wanted,        \* the setting for automatic tests
  auto,          \* _auto_task: none yet, asleep, testing, or done
  tests,         \* the threads that test, each with where it has come to
  notices,       \* events posted and not yet dispatched
  history,       \* the results recorded, the latest first
  button,        \* the page: a test may be started
  gauge          \* which speed its gauge shows, and the speeds of its cards

speedVars == <<wanted, auto, tests, notices, history, button, gauge>>

Phases == {"download", "upload", "record"}
Notice == [what : {"progress", "end"}, upload : BOOLEAN, down : Speeds \cup {0},
           up : Speeds \cup {0}, ok : BOOLEAN]
Result == [down : Speeds \cup {0}, up : Speeds \cup {0}, ok : BOOLEAN]

SpeedTypeOK ==
  /\ wanted \in BOOLEAN /\ auto \in {"none", "asleep", "testing", "done"}
  /\ Len(tests) <= MaxTests
  /\ \A t \in DOMAIN tests : tests[t].ph \in Phases /\ tests[t].res \in Result
  /\ \A n \in DOMAIN notices : notices[n] \in Notice
  /\ \A h \in DOMAIN history : history[h] \in Result
  /\ button \in BOOLEAN
  /\ gauge.upload \in BOOLEAN /\ gauge.down \in Speeds \cup {0} /\ gauge.up \in Speeds \cup {0}

NoResult == [down |-> 0, up |-> 0, ok |-> TRUE]

-----------------------------------------------------------------------------
(* The service *)

ProgressNotice(upload, s) == [what |-> "progress", upload |-> upload, ok |-> TRUE,
                        down |-> IF upload THEN 0 ELSE s, up |-> IF upload THEN s ELSE 0]
Ended(res) == [what |-> "end", upload |-> FALSE, down |-> res.down, up |-> res.up, ok |-> res.ok]

Post(ns) ==
  /\ Len(notices) + Len(ns) <= MaxNotices
  /\ notices' = notices \o ns

\* The table, the oldest left out
Recorded(res) == SubSeq(<<res>> \o history, 1,
                        IF Len(history) < MaxHistory THEN Len(history) + 1 ELSE MaxHistory)

\* The window's loop stands still while an automatic test runs in it
Free == auto # "testing"

\* The setting is saved: a loop that sleeps goes on, one that does not is not begun
SaveSetting ==
  /\ Free /\ wanted' = ~wanted
  /\ UNCHANGED <<auto, tests, notices, history, button, gauge>>

\* The window is up: automatic tests begin if they are wanted by then
StartAuto ==
  /\ auto = "none" /\ wanted /\ tests = <<>> /\ history = <<>>
  /\ auto' = "asleep"
  /\ UNCHANGED <<wanted, tests, notices, history, button, gauge>>

\* The hours have passed: download, then upload, with everything else held up
WakeAuto ==
  /\ auto = "asleep" /\ auto' = "testing"
  /\ UNCHANGED <<wanted, tests, notices, history, button, gauge>>

\* What the cards and the gauge show of the latest of the results h
Shown(h) == LET r == IF h = <<>> THEN NoResult ELSE h[1] IN
            [upload |-> FALSE, down |-> r.down, up |-> r.up]

\* Its result, or an error, is recorded and posted: on this thread, so that the page
\* hears of it at once, before what waits.  A table that cannot be written ends the
\* loop, silently
AutoEnds(res, written) ==
  /\ auto = "testing"
  /\ IF written
     THEN /\ auto' = "asleep" /\ history' = Recorded(res)
          /\ button' = TRUE /\ gauge' = Shown(history')
     ELSE auto' = "done" /\ UNCHANGED <<history, button, gauge>>
  /\ UNCHANGED <<wanted, tests, notices>>

-----------------------------------------------------------------------------
(* A thread of the page *)

Without(t) == SubSeq(tests, 1, t - 1) \o SubSeq(tests, t + 1, Len(tests))

\* A direction is measured; one that fails ends the measuring
Measure(t, s) ==
  /\ tests[t].ph \in {"download", "upload"}
  /\ LET up == tests[t].ph = "upload" IN
     IF s = 0
     THEN /\ tests' = [tests EXCEPT ![t] = [ph |-> "record", res |-> [NoResult EXCEPT !.ok = FALSE]]]
          /\ UNCHANGED notices
     ELSE /\ tests' = [tests EXCEPT ![t] =
                         [ph |-> IF up THEN "record" ELSE "upload",
                          res |-> IF up THEN [@.res EXCEPT !.up = s]
                                  ELSE [@.res EXCEPT !.down = s]]]
          /\ Post(<<ProgressNotice(up, s)>>)
  /\ UNCHANGED <<wanted, auto, history, button, gauge>>

\* A bug in Raised: the thread dies with its exception
DiesSilent == <<>>

\* What a test that could not be recorded tells the page: an error, as its end
Raised == <<Ended([NoResult EXCEPT !.ok = FALSE])>>

\* The result is recorded, then its end is posted.  A loop for automatic tests that
\* is begun here, in the thread's own event loop, is cancelled with it
Record(t, written) ==
  /\ tests[t].ph = "record" /\ tests' = Without(t)
  /\ IF written
     THEN /\ history' = Recorded(tests[t].res) /\ Post(<<Ended(tests[t].res)>>)
          /\ auto' = IF auto \in {"none", "done"} /\ wanted THEN "done" ELSE auto
     ELSE Post(Raised) /\ UNCHANGED <<history, auto>>
  /\ UNCHANGED <<wanted, button, gauge>>

-----------------------------------------------------------------------------
(* The page *)

\* Run Test or Upload Test
RunTest(upload) ==
  /\ Free /\ button /\ Len(tests) < MaxTests
  /\ tests' = Append(tests, [ph |-> IF upload THEN "upload" ELSE "download", res |-> NoResult])
  /\ button' = FALSE
  /\ gauge' = [upload |-> upload, down |-> 0, up |-> 0]
  /\ UNCHANGED <<wanted, auto, notices, history>>

\* The next event.  The end of any test frees the button
Hear ==
  /\ Free /\ notices # <<>> /\ notices' = Tail(notices)
  /\ LET n == Head(notices) IN
     IF n.what = "end"
     THEN button' = TRUE /\ gauge' = Shown(history)
     ELSE /\ gauge' = [upload |-> n.upload,
                       down |-> IF n.down # 0 THEN n.down ELSE gauge.down,
                       up |-> IF n.up # 0 THEN n.up ELSE gauge.up]
          /\ UNCHANGED button
  /\ UNCHANGED <<wanted, auto, tests, history>>

\* The page is come back to while a test may run
Revisit ==
  /\ Free /\ gauge' = Shown(history)
  /\ UNCHANGED <<wanted, auto, tests, notices, history, button>>

\* The page is made
OpenPage == button = TRUE /\ gauge = Shown(history)

SpeedInit ==
  /\ wanted \in BOOLEAN /\ auto = "none" /\ tests = <<>> /\ notices = <<>>
  /\ history = <<>> /\ OpenPage

SpeedNext ==
  \/ SaveSetting \/ StartAuto \/ WakeAuto
  \/ \E res \in Result, written \in BOOLEAN :
       (res.ok <=> res.down # 0 /\ res.up # 0) /\ AutoEnds(res, written)
  \/ \E t \in DOMAIN tests :
       \/ \E s \in Speeds \cup {0} : Measure(t, s)
       \/ \E written \in BOOLEAN : Record(t, written)
  \/ \E upload \in BOOLEAN : RunTest(upload)
  \/ Hear
  \/ Revisit

SpeedSpec == SpeedInit /\ [][SpeedNext]_speedVars

-----------------------------------------------------------------------------
\* While the page's buttons are disabled a test of the page runs, or an end is on
\* its way to it: whatever fails, in a measurement or in the table, the page can
\* test again.
DisabledOnlyWhileTesting ==
  ~button => tests # <<>> \/ \E n \in DOMAIN notices : notices[n].what = "end"
=============================================================================
