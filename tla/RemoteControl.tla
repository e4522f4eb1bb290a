---------------------------- MODULE RemoteControl ----------------------------
(***************************************************************************)
(* The settings page and the dashboard it turns on: the widgets are filled *)
(* once, when the page is made; Save copies every one of them into the     *)
(* settings, stores all the settings, and has the server of the dashboard  *)
(* started or stopped by a task of the event loop.                         *)
(*                                                                         *)
(* Of the settings, the model keeps those another part of the program      *)
(* writes or reads between two saves: the silence of the capture dialogs,  *)
(* whether there is a dashboard, its port and the token of its devices.    *)
(***************************************************************************)
EXTENDS Integers, Sequences, SequencesExt

CONSTANTS
  Ports,        \* ports one may choose
  MaxTokens,    \* bound: pairing tokens made
  MaxTasks      \* bound: tasks of the event loop at a time

ASSUME RemoteAssumption ==
  Ports \subseteq Nat \ {0} /\ Ports # {} /\ MaxTokens \in Nat \ {0} /\ MaxTasks \in Nat \ {0}

VARIABLES
  mem,          \* the settings of the process
  store,        \* the table of settings
  form,         \* the widgets of the page
  dashboard,     \* context.remote: whether it was made, its port, and the port its
                \* runner listens at (0: it has no runner)
  listening,    \* the ports with an open socket
  tasks,        \* starts and stops not ended, oldest first
  shown,        \* the pairing address on the screen
  overlapped    \* a save came before the last one's task had ended

remVars == <<mem, store, form, dashboard, listening, tasks, shown, overlapped>>

Silence == {"off", "hour", "past", "always"}
Tokens == 0 .. MaxTokens
Settings == [skip : Silence, enabled : BOOLEAN, port : Ports, token : Tokens]
Form == [skip : BOOLEAN, enabled : BOOLEAN, port : Ports]
Task == [op : {"start", "stop", "ensure"}, st : {"scheduled", "binding", "bound"},
         port : Ports \cup {0}]
NoServer == [made |-> FALSE, port |-> 0, runner |-> 0]
NoAddress == [port |-> 0, token |-> 0]

RemoteTypeOK ==
  /\ mem \in Settings /\ store \in Settings /\ form \in Form
  /\ dashboard \in [made : BOOLEAN, port : Ports \cup {0}, runner : Ports \cup {0}]
  /\ listening \subseteq Ports /\ Len(tasks) <= MaxTasks /\ ToSet(tasks) \subseteq Task
  /\ shown \in [port : Ports \cup {0}, token : Tokens] /\ overlapped \in BOOLEAN

-----------------------------------------------------------------------------
(* The page *)

HasRunner == dashboard.runner # 0
Scheduled(op) == [op |-> op, st |-> "scheduled", port |-> 0]

\* The widgets as the settings fill them; a silence that is over is no silence
LoadValues(s) ==
  [skip |-> s.skip \in {"hour", "always"}, enabled |-> s.enabled, port |-> s.port]

\* The user sets the widgets, the pairing dialog not being in the way
Edit(f) ==
  /\ shown = NoAddress /\ form' = f
  /\ UNCHANGED <<mem, store, dashboard, listening, tasks, shown, overlapped>>

\* The server is told the new port at once, running or not: a running one is found
\* at the port it is told, and left alone
Apply(s) ==
  IF ~s.enabled
  THEN /\ UNCHANGED dashboard
       /\ tasks' = IF HasRunner THEN Append(tasks, Scheduled("stop")) ELSE tasks
  ELSE /\ dashboard' = [dashboard EXCEPT !.made = TRUE, !.port = s.port]
       /\ tasks' = IF HasRunner THEN tasks ELSE Append(tasks, Scheduled("start"))

\* Save: every widget, and a token if there is a dashboard and none was made; then
\* all settings are stored
Saved ==
  [skip |-> IF form.skip THEN "always" ELSE "off",
   enabled |-> form.enabled, port |-> form.port,
   token |-> IF form.enabled /\ mem.token = 0 THEN 1 ELSE mem.token]

Save ==
  /\ shown = NoAddress /\ Len(tasks) < MaxTasks
  /\ mem' = Saved /\ store' = Saved
  /\ Apply(Saved)
  /\ overlapped' = (overlapped \/ tasks # <<>>)
  /\ UNCHANGED <<form, listening, shown>>

RegenerateToken ==
  /\ shown = NoAddress /\ mem.token < MaxTokens
  /\ mem' = [mem EXCEPT !.token = @ + 1] /\ store' = mem'
  /\ UNCHANGED <<form, dashboard, listening, tasks, shown, overlapped>>

\* The address is made of the port the server was told, when the dialog opens
ShowPairing ==
  /\ shown = NoAddress /\ HasRunner
  /\ shown' = [port |-> dashboard.port, token |-> mem.token]
  /\ UNCHANGED <<mem, store, form, dashboard, listening, tasks, overlapped>>

ClosePairing ==
  /\ shown # NoAddress /\ shown' = NoAddress
  /\ UNCHANGED <<mem, store, form, dashboard, listening, tasks, overlapped>>

\* Skip all, in a capture dialog; the page's widget is not told
SkipAll ==
  /\ mem' = [mem EXCEPT !.skip = "hour"] /\ store' = [store EXCEPT !.skip = "hour"]
  /\ UNCHANGED <<form, dashboard, listening, tasks, shown, overlapped>>

HourPasses ==
  /\ store.skip = "hour"
  /\ mem' = [mem EXCEPT !.skip = "past"] /\ store' = [store EXCEPT !.skip = "past"]
  /\ UNCHANGED <<form, dashboard, listening, tasks, shown, overlapped>>

-----------------------------------------------------------------------------
(* The tasks *)

TaskEnds(i) == tasks' = RemoveAt(tasks, i)
\* Tasks begin in the order they were made
IsNext(i) == tasks[i].st = "scheduled" /\ \A j \in 1 .. i - 1 : tasks[j].st # "scheduled"

\* The task of the launch finds the dashboard off, or makes the server; a server
\* that runs is not started again
Begin(i) ==
  /\ IsNext(i) /\ tasks[i].op # "stop"
  /\ LET off == tasks[i].op = "ensure" /\ ~mem.enabled
         told == IF dashboard.made THEN dashboard.port ELSE mem.port
     IN IF off THEN UNCHANGED dashboard /\ TaskEnds(i)
        ELSE /\ dashboard' = [dashboard EXCEPT !.made = TRUE, !.port = told]
             /\ IF HasRunner THEN TaskEnds(i)
                ELSE tasks' = [tasks EXCEPT ![i].st = "binding", ![i].port = told]
  /\ UNCHANGED <<mem, store, form, listening, shown, overlapped>>

\* The port is another program's, or one of our own sockets has it
BindFails(i) ==
  /\ tasks[i].st = "binding" /\ TaskEnds(i)
  /\ UNCHANGED <<mem, store, form, dashboard, listening, shown, overlapped>>

Bind(i) ==
  /\ tasks[i].st = "binding" /\ tasks[i].port \notin listening
  /\ listening' = listening \cup {tasks[i].port}
  /\ tasks' = [tasks EXCEPT ![i].st = "bound"]
  /\ UNCHANGED <<mem, store, form, dashboard, shown, overlapped>>

Started(i) ==
  /\ tasks[i].st = "bound" /\ TaskEnds(i)
  /\ dashboard' = [dashboard EXCEPT !.runner = tasks[i].port]
  /\ UNCHANGED <<mem, store, form, listening, shown, overlapped>>

\* A bug in Stopped: the runner is forgotten without its cleanup
OnlyForgets == dashboard' = [dashboard EXCEPT !.runner = 0] /\ UNCHANGED listening

\* The runner is taken, then its sockets are closed; what listens without being
\* the runner is not seen
Stopped ==
  dashboard' = [dashboard EXCEPT !.runner = 0] /\ listening' = listening \ {dashboard.runner}

Stop(i) ==
  /\ IsNext(i) /\ tasks[i].op = "stop" /\ TaskEnds(i)
  /\ Stopped
  /\ UNCHANGED <<mem, store, form, shown, overlapped>>

-----------------------------------------------------------------------------
\* A process starts, the last one gone: its settings are the stored ones, its page
\* is made of them, and a task looks whether there is a dashboard
Starts(s) ==
  /\ mem' = s /\ form' = LoadValues(s) /\ dashboard' = NoServer /\ listening' = {}
  /\ tasks' = <<Scheduled("ensure")>> /\ shown' = NoAddress /\ overlapped' = FALSE

NewProcess == Starts(store) /\ UNCHANGED store

RemoteInit ==
  /\ store = [skip |-> "off", enabled |-> FALSE, port |-> CHOOSE p \in Ports : TRUE, token |-> 0]
  /\ mem = store /\ form = LoadValues(store) /\ dashboard = NoServer /\ listening = {}
  /\ tasks = <<Scheduled("ensure")>> /\ shown = NoAddress /\ overlapped = FALSE

RemoteNext ==
  \/ \E f \in Form : Edit(f)
  \/ Save \/ RegenerateToken \/ ShowPairing \/ ClosePairing \/ SkipAll \/ HourPasses
  \/ \E i \in DOMAIN tasks : Begin(i) \/ BindFails(i) \/ Bind(i) \/ Started(i) \/ Stop(i)
  \/ NewProcess

RemoteSpec == RemoteInit /\ [][RemoteNext]_remVars

-----------------------------------------------------------------------------
\* When every start and stop has ended, and no save came before the one of the save
\* before had, the sockets are those the setting asks for: none once the dashboard
\* is off, and else none but the runner's, which a later stop will find and close.
\* A socket no runner owns would answer until the program ends.
DashboardFollowsSetting ==
  tasks = <<>> /\ ~overlapped =>
    /\ listening = IF HasRunner THEN {dashboard.runner} ELSE {}
    /\ ~mem.enabled => ~HasRunner

=============================================================================
