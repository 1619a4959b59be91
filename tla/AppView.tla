------------------------------ MODULE AppView ------------------------------
(***************************************************************************)
(* AppState and the handlers of the user interface: the table of rows, the *)
(* list of processes and what is selected of them, the filters and the JA4 *)
(* baselines.  The worker's messages are inputs here; Monitor says which   *)
(* of them come when.                                                      *)
(***************************************************************************)
CONSTANTS
    None,
    Id,        \* row ids
    Process,   \* what a process list may hold: [pid, name, application, icon]
    Name,      \* process names, lower-cased
    Unknown,   \* "unknown process"
    Ja4,       \* fingerprints
    Event,     \* what the worker may send for a row
    Filter     \* no filter, process names to filter by, and "invalid", any
               \* text that validate_filter rejects

Pid == {p.pid : p \in Process}

\* A list is a snapshot of the system: a pid occurs once.
ProcessList ==
    {list \in SUBSET Process : \A p, q \in list : p.pid = q.pid => p = q}

\* The part of a NetworkEvent that is filtered by.  A row's process was
\* resolved by the worker and need not be in the list, or any more.
NetworkEvent == [pid : Pid \cup {None}, process : Name \cup {Unknown},
                 https : BOOLEAN, ja4 : Ja4 \cup {None}]

ASSUME AppViewAssumption ==
    /\ None \notin Pid /\ None \notin Ja4 /\ None \notin Id
    /\ Unknown \notin Name
    /\ Event \subseteq NetworkEvent
    /\ {"", "invalid"} \cap Name = {}
    /\ Filter \subseteq {"", "invalid"} \cup Name
    /\ Process \subseteq [pid : Pid, name : Name, application : BOOLEAN,
                          icon : Name \cup {None}]
    /\ None \notin Name
    \* A picture is that of the program; only applications are asked for
    \* theirs, and it may not be found.
    /\ \A p \in Process : p.icon \in {p.name, None}
                         /\ (p.icon # None => p.application)

VARIABLES
    processes,
    events,         \* id -> [event, ja4_outlier], partial
    selected_pid, selected_event,
    process_tab,    \* "applications" or "processes"
    filter, https_only, show_ja4_differences,
    recording,
    ja4_baselines,  \* name -> fingerprint, partial
    process_icons,  \* pid -> picture, partial
    \* auxiliary
    handed_over     \* listed pids that have named another program in an
                    \* earlier list, and were in every list since

iconVars == <<process_icons, handed_over>>
listVars == <<processes, process_tab, iconVars>>
filterVars == <<filter, https_only, show_ja4_differences>>
selectionVars == <<selected_pid, selected_event>>
eventVars == <<events, ja4_baselines>>
vars == <<listVars, filterVars, selectionVars, eventVars, recording>>

Named(list, pid) == {p \in list : p.pid = pid}

-----------------------------------------------------------------------------
(***************************************************************************)
(* The worker's messages.                                                  *)
(***************************************************************************)

\* The fingerprint counts if there is one and the process is known.
Classified(event) == event.ja4 # None /\ event.process # Unknown

\* Mutant: a process that is not known has a baseline, too.
BaselinesOfUnknown(event) ==
    IF event.ja4 # None /\ event.process \notin DOMAIN ja4_baselines
      THEN [n \in DOMAIN ja4_baselines \cup {event.process} |->
              IF n = event.process THEN event.ja4 ELSE ja4_baselines[n]]
      ELSE ja4_baselines

\* The first fingerprint of a process name becomes its baseline.
Baselines(event) ==
    IF Classified(event) /\ event.process \notin DOMAIN ja4_baselines
      THEN [n \in DOMAIN ja4_baselines \cup {event.process} |->
              IF n = event.process THEN event.ja4 ELSE ja4_baselines[n]]
      ELSE ja4_baselines

\* classify_ja4, which takes the first one for a process name as baseline.
Outlier(event) ==
    /\ Classified(event)
    /\ event.process \in DOMAIN ja4_baselines
    /\ ja4_baselines[event.process] # event.ja4

\* RuntimeEvent::Connection: dropped unless recording.
ReceiveConnection(id, event) ==
    /\ IF recording
         THEN /\ ja4_baselines' = Baselines(event)
              /\ events' = [i \in DOMAIN events \cup {id} |->
                              IF i = id
                                THEN [event |-> event,
                                      ja4_outlier |-> Outlier(event)]
                                ELSE events[i]]
         ELSE UNCHANGED eventVars
    /\ UNCHANGED <<listVars, filterVars, selectionVars, recording>>

\* RuntimeEvent::Closed
ReceiveClosed(id) ==
    /\ id \in DOMAIN events
    /\ events' = [i \in DOMAIN events \ {id} |-> events[i]]
    /\ UNCHANGED <<listVars, filterVars, selectionVars, ja4_baselines,
                   recording>>

\* Mutant: any application is a successor.
SuccessorsUnnamed(list) ==
    {p \in list : process_tab = "applications" /\ p.application}

\* Applications with the name of the selected one.
Successors(list) ==
    {p \in list : /\ process_tab = "applications" /\ p.application
                  /\ \E q \in Named(processes, selected_pid) : q.name = p.name}

\* replace_processes: the selected pid if it is still there, otherwise that of
\* a successor, otherwise nothing.
Selection(list) ==
    IF selected_pid = None THEN {None}
    ELSE IF Named(list, selected_pid) # {} THEN {selected_pid}
    ELSE IF Successors(list) # {} THEN {p.pid : p \in Successors(list)}
    ELSE {None}

\* Mutant: the pictures of processes that are gone are not dropped.
IconsRetained(icons, list) ==
    LET shown == {p \in list : p.icon # None /\ p.pid \notin DOMAIN icons}
    IN  [pid \in DOMAIN icons \cup {p.pid : p \in shown} |->
            IF pid \in DOMAIN icons
              THEN icons[pid]
              ELSE (CHOOSE p \in shown : p.pid = pid).icon]

\* Pictures go with their pid and are loaded for pids that have none.
Icons(icons, list) ==
    LET kept == {pid \in DOMAIN icons : Named(list, pid) # {}}
        shown == {p \in list : p.icon # None /\ p.pid \notin kept}
    IN  [pid \in kept \cup {p.pid : p \in shown} |->
            IF pid \in kept THEN icons[pid]
                            ELSE (CHOOSE p \in shown : p.pid = pid).icon]

\* RuntimeEvent::Processes
ReceiveProcesses(list) ==
    /\ processes' = list
    /\ selected_pid' \in Selection(list)
    /\ selected_event' = IF selected_pid # None /\ selected_pid' = None
                           THEN None ELSE selected_event
    /\ process_icons' = Icons(process_icons, list)
    /\ handed_over' =
          {pid \in {p.pid : p \in list} :
              \/ pid \in handed_over
              \/ \E p \in Named(processes, pid), q \in Named(list, pid) :
                    p.name # q.name}
    /\ UNCHANGED <<process_tab, filterVars, eventVars, recording>>

-----------------------------------------------------------------------------
(***************************************************************************)
(* The user.                                                               *)
(***************************************************************************)
SelectAll ==
    /\ selected_pid' = None /\ selected_event' = None
    /\ UNCHANGED <<listVars, filterVars, eventVars, recording>>

\* A process of the sidebar: its first row, if any, is selected too.
SelectProcess(p) ==
    LET own == {id \in DOMAIN events : events[id].event.pid = p.pid} IN
    /\ process_tab = "processes" \/ p.application
    /\ selected_pid' = p.pid
    /\ selected_event' \in IF own = {} THEN {None} ELSE own
    /\ UNCHANGED <<listVars, filterVars, eventVars, recording>>

SelectTab(tab) ==
    /\ process_tab' = tab
    /\ UNCHANGED <<processes, iconVars, filterVars, selectionVars, eventVars,
                   recording>>

MatchesSelection(event) ==
    \/ selected_pid = None
    \/ event.pid = selected_pid
    \/ /\ process_tab = "applications"
       /\ \E p \in Named(processes, selected_pid) : p.name = event.process

\* Mutant: the switch for fingerprint differences is not looked at.
VisibleWithDifferences ==
    {id \in DOMAIN events :
        /\ filter # "invalid"
        /\ MatchesSelection(events[id].event)
        /\ https_only => events[id].event.https
        /\ filter = "" \/ events[id].event.process = filter}

\* visible_event_indices
Visible ==
    {id \in DOMAIN events :
        /\ filter # "invalid"
        /\ MatchesSelection(events[id].event)
        /\ https_only => events[id].event.https
        /\ show_ja4_differences \/ ~events[id].ja4_outlier
        /\ filter = "" \/ events[id].event.process = filter}

SelectEvent(id) ==
    /\ id \in Visible
    /\ selected_event' = id
    /\ UNCHANGED <<listVars, filterVars, selected_pid, eventVars, recording>>

\* Typing a filter leaves the selected row; clearing it does not.
TypeFilter(text) ==
    /\ filter' = text
    /\ UNCHANGED <<listVars, https_only, show_ja4_differences, selectionVars,
                   eventVars, recording>>

ClearFilter ==
    /\ filter' = "" /\ selected_event' = None
    /\ UNCHANGED <<listVars, https_only, show_ja4_differences, selected_pid,
                   eventVars, recording>>

ShowHttpsOnly(only) ==
    /\ https_only' = only /\ selected_event' = None
    /\ UNCHANGED <<listVars, filter, show_ja4_differences, selected_pid,
                   eventVars, recording>>

ShowDifferences(show) ==
    /\ show_ja4_differences' = show /\ selected_event' = None
    /\ UNCHANGED <<listVars, filter, https_only, selected_pid, eventVars,
                   recording>>

\* The Clear button: the baselines stay.
Clear ==
    /\ events' = <<>> /\ selected_event' = None
    /\ UNCHANGED <<listVars, filterVars, selected_pid, ja4_baselines,
                   recording>>

ToggleRecording ==
    /\ recording' = ~recording
    /\ UNCHANGED <<listVars, filterVars, selectionVars, eventVars>>

-----------------------------------------------------------------------------
Init ==
    /\ processes \in ProcessList
    /\ process_icons = Icons(<<>>, processes) /\ handed_over = {}
    /\ events = <<>> /\ ja4_baselines = <<>>
    /\ selected_pid = None /\ selected_event = None
    /\ process_tab = "applications"
    /\ filter = "" /\ https_only = FALSE /\ show_ja4_differences = TRUE
    /\ recording = TRUE

Receive ==
    \/ \E id \in Id, event \in Event : ReceiveConnection(id, event)
    \/ \E id \in Id : ReceiveClosed(id)
    \/ \E list \in ProcessList : ReceiveProcesses(list)

UserActs ==
    \/ SelectAll \/ (\E p \in processes : SelectProcess(p))
    \/ \E tab \in {"applications", "processes"} : SelectTab(tab)
    \/ \E id \in Id : SelectEvent(id)
    \/ (\E text \in Filter : TypeFilter(text)) \/ ClearFilter
    \/ \E only \in BOOLEAN : ShowHttpsOnly(only)
    \/ \E show \in BOOLEAN : ShowDifferences(show)
    \/ Clear \/ ToggleRecording

Next == Receive \/ UserActs

Spec == Init /\ [][Next]_vars

-----------------------------------------------------------------------------
\* What is selected is in the list, however often the list is replaced: the
\* menu never asks to relaunch a process that was not running a second ago.
SelectionExists ==
    selected_pid # None => Named(processes, selected_pid) # {}

\* Every row is marked by the same rule against the baselines of now: rows
\* that were classified before a baseline existed, before a pause or before
\* the rows were cleared do not contradict later ones.
OutliersDiffer ==
    \A id \in DOMAIN events :
        LET event == events[id].event IN
        events[id].ja4_outlier <=>
            /\ Classified(event)
            /\ ja4_baselines[event.process] # event.ja4

\* With differences hidden, all visible rows of one process name carry one
\* fingerprint, the first one seen for it ("Hide requests whose JA4 differs
\* from the first fingerprint seen for that process").
OneFingerprintShown ==
    ~show_ja4_differences =>
        \A a, b \in Visible :
            LET x == events[a].event
                y == events[b].event
            IN  Classified(x) /\ Classified(y) /\ x.process = y.process =>
                    x.ja4 = y.ja4

\* The name of what is selected, or None.
SelectedName ==
    IF Named(processes, selected_pid) = {} THEN None
    ELSE (CHOOSE p \in Named(processes, selected_pid) : TRUE).name

\* While an application is selected, replacing the list hides none of its
\* rows unless the selection goes or its pid now names another program: an
\* application that was restarted under another pid keeps its history.
SelectionKeepsRows ==
    [][processes' # processes /\ process_tab = "applications"
       /\ selected_pid # None /\ selected_pid' # None
       /\ (selected_pid' = selected_pid => SelectedName' = SelectedName) =>
            \A id \in Visible :
                events[id].event.process = SelectedName => id \in Visible'
      ]_vars

\* The picture beside a process is that of its program, and every program whose
\* picture is known has one; only a pid that goes to another program between
\* two lists keeps the old program's picture (replace_processes: retain by
\* pid, then skip pids that have one).
IconsShowTheirProgram ==
    \A p \in processes :
        /\ p.icon # None => p.pid \in DOMAIN process_icons
        /\ p.pid \in DOMAIN process_icons \ handed_over =>
              process_icons[p.pid] = p.name

-----------------------------------------------------------------------------
(***************************************************************************)
(* The invariant the proofs rest on.                                       *)
(***************************************************************************)
AppViewTypeOK ==
    /\ processes \in ProcessList
    /\ process_tab \in {"applications", "processes"}
    /\ DOMAIN events \subseteq Id
    /\ events \in [DOMAIN events -> [event : Event, ja4_outlier : BOOLEAN]]
    /\ selected_pid \in Pid \cup {None} /\ selected_event \in Id \cup {None}
    /\ filter \in Filter \cup {""}
    /\ {https_only, show_ja4_differences, recording} \subseteq BOOLEAN
    /\ DOMAIN ja4_baselines \subseteq Name
    /\ ja4_baselines \in [DOMAIN ja4_baselines -> Ja4]
    /\ DOMAIN process_icons \subseteq Pid
    /\ process_icons \in [DOMAIN process_icons -> Name]
    /\ handed_over \subseteq Pid

\* Whatever was classified left its process with a baseline.
ClassifiedHaveBaselines ==
    \A id \in DOMAIN events :
        Classified(events[id].event) =>
            events[id].event.process \in DOMAIN ja4_baselines

\* Pictures are kept for pids in the list only: a pid that comes back is new.
IconsListed == \A pid \in DOMAIN process_icons : Named(processes, pid) # {}

AppViewInv ==
    /\ AppViewTypeOK
    /\ SelectionExists
    /\ ClassifiedHaveBaselines /\ OutliersDiffer
    /\ IconsListed /\ IconsShowTheirProgram
=============================================================================
