---------------------------- MODULE TorrentSession ----------------------------
(***************************************************************************)
(* One BitTorrent session and the handlers that share it.  Each handler    *)
(* adds its torrent, registers the sidecar its resume data goes to, and    *)
(* polls; every poll drains the alert queue of the whole session, so that  *)
(* the resume data one handler asked for is usually popped by another.     *)
(* Popping happens on an executor thread, storing on the event loop.       *)
(*                                                                         *)
(* libtorrent is external: it answers a request for resume data later, if  *)
(* the torrent is still in the session, with the pieces it has then.       *)
(***************************************************************************)
EXTENDS Integers, Functions

CONSTANTS
  Torrents,      \* downloads: 1..n
  Hashes,        \* info hashes: 1..n
  MaxPieces      \* bound: pieces of a torrent

ASSUME SessionAssumption ==
  MaxPieces \in Nat /\ Torrents \subseteq Nat \ {0} /\ Hashes \subseteq Nat \ {0}

VARIABLES
  hashOf,        \* the info hash of each download
  have,          \* pieces of each hash on disk
  handles,       \* _handles: downloads with a handle in the session
  idOf,          \* _handle_map: the download an info hash belongs to, if any
  registered,    \* _resume_paths: downloads whose sidecar is known
  requested,     \* hashes whose resume data has been asked for and not produced
  alerts,        \* pieces in the latest resume data waiting for each hash, -1 for none
  popped,        \* the same for the alerts each handler has popped and not stored
  hnd,           \* the handler of each download
  closing        \* TorrentClient.shutdown is flushing

sessVars == <<hashOf, have, handles, idOf, registered, requested, alerts,
              popped, hnd, closing>>

None == 0
\* A queue of resume data alerts: of one torrent's, stored in turn, the last counts
Queue == [Hashes -> -1 .. MaxPieces]
NoAlerts == [h \in Hashes |-> -1]
Idle == [ph |-> "off", paused |-> FALSE, owed |-> -1]

\* owed is the number of pieces on disk when the handler was paused, until
\* resume data as good as that has reached the sidecar
SessionTypeOK ==
  /\ hashOf \in [Torrents -> Hashes] /\ have \in [Hashes -> 0 .. MaxPieces]
  /\ handles \subseteq Torrents /\ registered \subseteq Torrents
  /\ idOf \in [Hashes -> Torrents \cup {None}]
  /\ requested \subseteq Hashes /\ alerts \in Queue
  /\ popped \in [Torrents -> Queue] /\ closing \in BOOLEAN
  /\ \A t \in Torrents :
       /\ hnd[t].ph \in {"off", "adding", "added", "polling", "popped"}
       /\ hnd[t].paused \in BOOLEAN
       /\ hnd[t].owed \in -1 .. MaxPieces

InSession(h) == \E t \in handles : hashOf[t] = h

-----------------------------------------------------------------------------
(* The client *)

\* add_magnet, add_torrent_file or add_with_resume; the hash is the latest comer's
Holds(t) ==
  /\ handles' = handles \cup {t}
  /\ idOf' = [idOf EXCEPT ![hashOf[t]] = t]

\* request_save_resume, for a download with a handle
Asks(ts) == requested' = requested \cup {hashOf[t] : t \in ts \cap handles}

\* cancel_torrent: the torrent leaves the session, whoever else holds a handle to it
Drops(t) ==
  IF t \notin handles THEN UNCHANGED <<handles, idOf, registered>>
  ELSE /\ handles' = handles \ {t}
       /\ registered' = registered \ {t}
       /\ idOf' = [idOf EXCEPT ![hashOf[t]] = None]

\* A bug in Stored: each handler minds its own torrent
StoredOwn(drained, t) == [NoAlerts EXCEPT ![hashOf[t]] = drained[hashOf[t]]]

\* Whose alerts a drain stores: everyone's
Stored(drained, t) == drained

\* capture_resume_alert for each alert of a drain: the sidecar written is that of
\* the download the hash belongs to now
Written(drained) ==
  [d \in Torrents |-> IF d \in registered /\ idOf[hashOf[d]] = d THEN drained[hashOf[d]]
                      ELSE -1]

Captures(drained, h) ==
  hnd' = [d \in Torrents |-> IF Written(drained)[d] >= h[d].owed
                             THEN [h[d] EXCEPT !.owed = -1] ELSE h[d]]

-----------------------------------------------------------------------------
(* A handler *)

Start(t) ==
  /\ hnd[t].ph = "off" /\ ~closing
  /\ hnd' = [hnd EXCEPT ![t] = [Idle EXCEPT !.ph = "adding"]]
  /\ UNCHANGED <<hashOf, have, handles, idOf, registered, requested, alerts,
                 popped, closing>>

\* On an executor thread, from the sidecar if it matches; it may fail
Add(t) ==
  /\ hnd[t].ph = "adding"
  /\ \/ Holds(t) /\ hnd' = [hnd EXCEPT ![t].ph = "added"]
     \/ UNCHANGED <<handles, idOf>> /\ hnd' = [hnd EXCEPT ![t] = Idle]
  /\ UNCHANGED <<hashOf, have, registered, requested, alerts, popped, closing>>

\* It polls once the metadata is there, two minutes are over or it is cancelled
Register(t) ==
  /\ hnd[t].ph = "added"
  /\ registered' = registered \cup {t}
  /\ hnd' = [hnd EXCEPT ![t].ph = "polling"]
  /\ UNCHANGED <<hashOf, have, handles, idOf, requested, alerts, popped, closing>>

\* It has been cancelled, and acts on it at the top of its loop: the last request
\* is made, if it has heard of the metadata, and the torrent dropped before an answer
Stops(t) ==
  /\ hnd[t].ph = "polling"
  /\ UNCHANGED requested \/ Asks({t})
  /\ Drops(t)
  /\ hnd' = [hnd EXCEPT ![t] = Idle]
  /\ UNCHANGED <<hashOf, have, alerts, popped, closing>>

Pop(t) ==
  /\ hnd[t].ph = "polling"
  /\ popped' = [popped EXCEPT ![t] = alerts] /\ alerts' = NoAlerts
  /\ hnd' = [hnd EXCEPT ![t].ph = "popped"]
  /\ UNCHANGED <<hashOf, have, handles, idOf, registered, requested, closing>>

Store(t) ==
  /\ hnd[t].ph = "popped"
  /\ Captures(Stored(popped[t], t), [hnd EXCEPT ![t].ph = "polling"])
  /\ popped' = [popped EXCEPT ![t] = NoAlerts]
  /\ UNCHANGED <<hashOf, have, handles, idOf, registered, requested, alerts, closing>>

\* The loop asks for resume data every 45 seconds once it has heard of the metadata
AskAgain(t) ==
  /\ hnd[t].ph = "polling" /\ t \in handles
  /\ Asks({t})
  /\ UNCHANGED <<hashOf, have, handles, idOf, registered, alerts, popped, hnd,
                 closing>>

\* It is finished, in error, or its handle is gone: the handler returns, and a
\* torrent that is there stays in the session
Ends(t) ==
  /\ hnd[t].ph = "polling" /\ ~hnd[t].paused
  /\ hnd' = [hnd EXCEPT ![t] = Idle]
  /\ UNCHANGED <<hashOf, have, handles, idOf, registered, requested, alerts,
                 popped, closing>>

\* pause() asks for resume data right away
Pause(t) ==
  /\ hnd[t].ph # "off" /\ ~hnd[t].paused
  /\ Asks({t})
  /\ hnd' = [hnd EXCEPT ![t] =
               [@ EXCEPT !.paused = TRUE,
                         !.owed = IF t \in registered /\ t \in handles
                                  THEN have[hashOf[t]] ELSE -1]]
  /\ UNCHANGED <<hashOf, have, handles, idOf, registered, alerts, popped, closing>>

Resume(t) ==
  /\ hnd[t].paused
  /\ hnd' = [hnd EXCEPT ![t] = [@ EXCEPT !.paused = FALSE, !.owed = -1]]
  /\ UNCHANGED <<hashOf, have, handles, idOf, registered, requested, alerts,
                 popped, closing>>

-----------------------------------------------------------------------------
(* libtorrent, and the end of the process *)

Piece(h) ==
  /\ InSession(h) /\ have[h] < MaxPieces
  /\ have' = [have EXCEPT ![h] = @ + 1]
  /\ UNCHANGED <<hashOf, handles, idOf, registered, requested, alerts, popped,
                 hnd, closing>>

Answer(h) ==
  /\ h \in requested /\ requested' = requested \ {h}
  /\ alerts' = IF InSession(h) THEN [alerts EXCEPT ![h] = have[h]]
               ELSE alerts
  /\ UNCHANGED <<hashOf, have, handles, idOf, registered, popped, hnd, closing>>

\* TorrentClient.shutdown asks for everyone's data and drains for two seconds,
\* with the handlers still polling
BeginShutdown ==
  /\ ~closing /\ closing' = TRUE
  /\ Asks(handles)
  /\ UNCHANGED <<hashOf, have, handles, idOf, registered, alerts, popped, hnd>>

FlushAlerts ==
  /\ closing /\ alerts # NoAlerts /\ alerts' = NoAlerts
  /\ Captures(alerts, hnd)
  /\ UNCHANGED <<hashOf, have, handles, idOf, registered, requested, popped, closing>>

\* The process ends, after the flush or in a crash, and is started again
Relaunch ==
  /\ handles' = {} /\ registered' = {} /\ requested' = {} /\ alerts' = NoAlerts
  /\ idOf' = [h \in Hashes |-> None]
  /\ popped' = [t \in Torrents |-> NoAlerts] /\ hnd' = [t \in Torrents |-> Idle]
  /\ closing' = FALSE
  /\ UNCHANGED <<hashOf, have>>

SessionInit ==
  /\ hashOf \in [Torrents -> Hashes] /\ \A t \in Torrents : hashOf[t] <= t
  /\ have = [h \in Hashes |-> 0]
  /\ handles = {} /\ registered = {} /\ requested = {} /\ alerts = NoAlerts
  /\ idOf = [h \in Hashes |-> None]
  /\ popped = [t \in Torrents |-> NoAlerts] /\ hnd = [t \in Torrents |-> Idle]
  /\ closing = FALSE

SessionNext ==
  \/ \E t \in Torrents : Start(t)
  \/ \E t \in Torrents : Add(t)
  \/ \E t \in Torrents : Register(t)
  \/ \E t \in Torrents : Stops(t)
  \/ \E t \in Torrents : Pop(t)
  \/ \E t \in Torrents : Store(t)
  \/ \E t \in Torrents : AskAgain(t)
  \/ \E t \in Torrents : Ends(t)
  \/ \E t \in Torrents : Pause(t)
  \/ \E t \in Torrents : Resume(t)
  \/ \E h \in Hashes : Piece(h)
  \/ \E h \in Hashes : Answer(h)
  \/ BeginShutdown
  \/ FlushAlerts
  \/ Relaunch

SessionSpec == SessionInit /\ [][SessionNext]_sessVars

-----------------------------------------------------------------------------
\* The resume data a pause asks for is not lost, whoever pops it: until it has
\* been written to the sidecar of the paused download it is asked for, waiting
\* in the session or in the hands of a handler.  A download whose info hash
\* another one shares is excepted, since the other may take the torrent away.
PauseFlushKept ==
  \A t \in Torrents :
    LET h == hashOf[t]
    IN (\A d \in Torrents \ {t} : hashOf[d] # h) =>
         \/ h \in requested \/ hnd[t].owed = -1
         \/ \E q \in {alerts} \cup Range(popped) :
              q[h] >= hnd[t].owed
=============================================================================
