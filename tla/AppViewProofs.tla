--------------------------- MODULE AppViewProofs ---------------------------
(***************************************************************************)
(* Proofs about AppView, for every process list, event, filter and set of  *)
(* row ids: AppViewInv is an invariant, and with it what is said of the    *)
(* selection, the fingerprints and the pictures.                           *)
(***************************************************************************)
EXTENDS AppView, TLAPS

LEMMA Nothing == DOMAIN <<>> = {} /\ \A S : <<>> \in [{} -> S]
OBVIOUS

\* What replacing the list does to the pictures: those of pids that are still
\* listed stay, and a program whose pid has none gets its own.
LEMMA IconsOf ==
    ASSUME NEW icons, NEW list \in ProcessList
    PROVE  LET result == Icons(icons, list) IN
           /\ result = [pid \in DOMAIN result |-> result[pid]]
           /\ \A pid \in DOMAIN icons : Named(list, pid) # {} =>
                 pid \in DOMAIN result /\ result[pid] = icons[pid]
           /\ \A pid \in DOMAIN result :
                 \/ pid \in DOMAIN icons /\ Named(list, pid) # {}
                 \/ \E p \in list : p.pid = pid /\ result[pid] = p.name
           /\ \A p \in list : p.icon # None => p.pid \in DOMAIN result
<1> DEFINE kept == {pid \in DOMAIN icons : Named(list, pid) # {}}
           shown == {p \in list : p.icon # None /\ p.pid \notin kept}
           own(pid) == CHOOSE p \in shown : p.pid = pid
           result == Icons(icons, list)
<1>1. result = [pid \in kept \cup {p.pid : p \in shown} |->
                  IF pid \in kept THEN icons[pid] ELSE own(pid).icon]
  BY DEF Icons
<1>2. ASSUME NEW pid \in {p.pid : p \in shown}
      PROVE  own(pid) \in list /\ own(pid).pid = pid /\ own(pid).icon = own(pid).name
  <2>1. own(pid) \in shown /\ own(pid).pid = pid
    <3>1. \E p \in shown : p.pid = pid
      BY <1>2
    <3> QED BY <3>1
  <2>2. own(pid) \in Process
    BY <2>1 DEF ProcessList
  <2> QED BY <2>1, <2>2, AppViewAssumption
<1> HIDE DEF own
<1>3. DOMAIN result = kept \cup {p.pid : p \in shown}
  BY <1>1
<1>4. result = [pid \in DOMAIN result |-> result[pid]]
  BY <1>1
<1>5. \A pid \in DOMAIN icons : Named(list, pid) # {} =>
         pid \in DOMAIN result /\ result[pid] = icons[pid]
  BY <1>1
<1>6. \A pid \in DOMAIN result :
         \/ pid \in DOMAIN icons /\ Named(list, pid) # {}
         \/ \E p \in list : p.pid = pid /\ result[pid] = p.name
  <2> SUFFICES ASSUME NEW pid \in DOMAIN result, pid \notin kept
               PROVE  \E p \in list : p.pid = pid /\ result[pid] = p.name
    OBVIOUS
  <2>1. pid \in {p.pid : p \in shown}
    BY <1>3
  <2>2. result[pid] = own(pid).icon
    BY <1>1, <2>1
  <2> QED BY <1>2, <2>1, <2>2
<1>7. \A p \in list : p.icon # None => p.pid \in DOMAIN result
  BY <1>3
<1> QED BY <1>4, <1>5, <1>6, <1>7

\* A pid occurs once in a list.
LEMMA NamedOnce ==
    ASSUME NEW list \in ProcessList, NEW p \in list
    PROVE  Named(list, p.pid) = {p} /\ p \in Process /\ p.pid \in Pid
           /\ p.name \in Name
<1>1. p \in Process /\ \A q \in list : q.pid = p.pid => q = p
  BY DEF ProcessList
<1>2. Named(list, p.pid) = {p}
  BY <1>1 DEF Named
<1> QED BY <1>1, <1>2, AppViewAssumption

-----------------------------------------------------------------------------
LEMMA InitInv == Init => AppViewInv
<1> SUFFICES ASSUME Init PROVE AppViewInv
  OBVIOUS
<1>1. /\ processes \in ProcessList
      /\ events = <<>> /\ ja4_baselines = <<>>
      /\ process_icons = Icons(<<>>, processes) /\ handed_over = {}
      /\ selected_pid = None
  BY DEF Init
<1>2. /\ process_icons = [pid \in DOMAIN process_icons |-> process_icons[pid]]
      /\ \A pid \in DOMAIN process_icons :
            \E p \in processes : p.pid = pid /\ process_icons[pid] = p.name
      /\ \A p \in processes : p.icon # None => p.pid \in DOMAIN process_icons
  BY Nothing, <1>1, IconsOf
<1>3. AppViewTypeOK
  <2>1. /\ process_icons \in [DOMAIN process_icons -> Name]
        /\ DOMAIN process_icons \subseteq Pid
    BY <1>1, <1>2, NamedOnce
  <2>2. /\ events \in [DOMAIN events -> [event : Event, ja4_outlier : BOOLEAN]]
        /\ ja4_baselines \in [DOMAIN ja4_baselines -> Ja4]
    BY Nothing, <1>1
  <2> QED BY Nothing, <1>1, <2>1, <2>2 DEF AppViewTypeOK, Init
<1>4. SelectionExists /\ ClassifiedHaveBaselines /\ OutliersDiffer
  BY Nothing, <1>1 DEF SelectionExists, ClassifiedHaveBaselines, OutliersDiffer
<1>5. IconsListed /\ IconsShowTheirProgram
  BY <1>1, <1>2, NamedOnce DEF IconsListed, IconsShowTheirProgram, Named, ProcessList
<1> QED BY <1>3, <1>4, <1>5 DEF AppViewInv

-----------------------------------------------------------------------------
\* The actions by what they change: nothing but what the user looks at.
Looking ==
    \/ \E tab \in {"applications", "processes"} : SelectTab(tab)
    \/ \E id \in Id : SelectEvent(id)
    \/ (\E text \in Filter : TypeFilter(text)) \/ ClearFilter
    \/ \E only \in BOOLEAN : ShowHttpsOnly(only)
    \/ \E show \in BOOLEAN : ShowDifferences(show)
    \/ ToggleRecording
    \/ UNCHANGED vars

LEMMA LookingChangesNothing ==
    ASSUME AppViewTypeOK, Looking
    PROVE  /\ UNCHANGED <<processes, events, ja4_baselines, process_icons,
                          handed_over, selected_pid>>
           /\ AppViewTypeOK'
<1> USE DEF listVars, iconVars, filterVars, selectionVars, eventVars,
            AppViewTypeOK
<1>1. CASE \E tab \in {"applications", "processes"} : SelectTab(tab)
  BY <1>1 DEF SelectTab
<1>2. CASE \E id \in Id : SelectEvent(id)
  BY <1>2 DEF SelectEvent
<1>3. CASE (\E text \in Filter : TypeFilter(text)) \/ ClearFilter
  BY <1>3 DEF TypeFilter, ClearFilter
<1>4. CASE \E only \in BOOLEAN : ShowHttpsOnly(only)
  BY <1>4 DEF ShowHttpsOnly
<1>5. CASE \E show \in BOOLEAN : ShowDifferences(show)
  BY <1>5 DEF ShowDifferences
<1>6. CASE ToggleRecording
  BY <1>6 DEF ToggleRecording
<1>7. CASE UNCHANGED vars
  BY <1>7 DEF vars
<1> QED BY <1>1, <1>2, <1>3, <1>4, <1>5, <1>6, <1>7 DEF Looking

\* A row that arrives while recording is judged by the baseline that its own
\* fingerprint may just have become; no other row's baseline moves.
LEMMA RowsAfterConnection ==
    ASSUME AppViewInv, NEW id \in Id, NEW event \in Event,
           ReceiveConnection(id, event)
    PROVE  /\ DOMAIN events' \subseteq Id
           /\ events' \in [DOMAIN events' -> [event : Event, ja4_outlier : BOOLEAN]]
           /\ DOMAIN ja4_baselines' \subseteq Name
           /\ ja4_baselines' \in [DOMAIN ja4_baselines' -> Ja4]
           /\ ClassifiedHaveBaselines' /\ OutliersDiffer'
<1> USE DEF AppViewInv, AppViewTypeOK
<1>1. CASE ~recording
  BY <1>1 DEF ReceiveConnection, eventVars, ClassifiedHaveBaselines,
              OutliersDiffer, Classified
<1>2. CASE recording
  <2>1. event \in NetworkEvent
    BY AppViewAssumption
  <2>2. /\ ja4_baselines' = Baselines(event)
        /\ DOMAIN events' = DOMAIN events \cup {id}
        /\ events' = [i \in DOMAIN events' |-> events'[i]]
        /\ events'[id] = [event |-> event, ja4_outlier |-> Outlier(event)]
        /\ \A i \in DOMAIN events \ {id} : events'[i] = events[i]
    BY <1>2 DEF ReceiveConnection
  <2>3. /\ DOMAIN ja4_baselines' \subseteq Name
        /\ ja4_baselines' \in [DOMAIN ja4_baselines' -> Ja4]
        /\ \A n \in DOMAIN ja4_baselines :
              n \in DOMAIN ja4_baselines' /\ ja4_baselines'[n] = ja4_baselines[n]
        /\ Classified(event) => event.process \in DOMAIN ja4_baselines'
    BY <2>1, <2>2 DEF Baselines, Classified, NetworkEvent
  <2>4. /\ Outlier(event) \in BOOLEAN
        /\ Outlier(event) <=> Classified(event)
                              /\ ja4_baselines'[event.process] # event.ja4
    BY <2>1, <2>2, <2>3 DEF Outlier, Baselines, Classified, NetworkEvent
  <2>5. /\ events'[id].event = event
        /\ events'[id].ja4_outlier = Outlier(event)
        /\ events'[id] \in [event : Event, ja4_outlier : BOOLEAN]
    <3> HIDE DEF AppViewInv, AppViewTypeOK
    <3>1. events'[id] = [event |-> event, ja4_outlier |-> Outlier(event)]
      BY <2>2
    <3>2. Outlier(event) \in BOOLEAN
      BY <2>4
    <3>3. events'[id].event = event
      BY <3>1
    <3>4. events'[id].ja4_outlier = Outlier(event)
      BY <3>1
    <3>5. events'[id] \in [event : Event, ja4_outlier : BOOLEAN]
      BY <3>1, <3>2
    <3> QED BY <3>3, <3>4, <3>5
  <2>6. events' \in [DOMAIN events' -> [event : Event, ja4_outlier : BOOLEAN]]
    <3>1. \A i \in DOMAIN events \ {id} :
              events'[i] \in [event : Event, ja4_outlier : BOOLEAN]
      BY <2>2
    <3> QED BY <2>2, <2>5, <3>1
  <2>7. ClassifiedHaveBaselines'
    <3> SUFFICES ASSUME NEW i \in DOMAIN events', Classified(events'[i].event)
                 PROVE  events'[i].event.process \in DOMAIN ja4_baselines'
      BY DEF ClassifiedHaveBaselines, Classified
    <3>1. CASE i = id
      BY <2>3, <2>5, <3>1
    <3>2. CASE i # id
      BY <2>2, <2>3, <3>2 DEF ClassifiedHaveBaselines
    <3> QED BY <3>1, <3>2
  <2>8. ASSUME NEW i \in DOMAIN events'
        PROVE  events'[i].ja4_outlier <=>
                 /\ events'[i].event.ja4 # None
                 /\ events'[i].event.process # Unknown
                 /\ ja4_baselines'[events'[i].event.process] # events'[i].event.ja4
    <3>1. CASE i = id
      BY <2>4, <2>5, <3>1 DEF Classified
    <3>2. CASE i # id
      <4>1. i \in DOMAIN events /\ events'[i] = events[i]
        BY <2>2, <3>2
      <4> QED BY <2>3, <4>1 DEF ClassifiedHaveBaselines, OutliersDiffer, Classified
    <3> QED BY <3>1, <3>2
  <2>9. OutliersDiffer'
    BY <2>8 DEF OutliersDiffer, Classified
  <2> QED BY <2>2, <2>3, <2>6, <2>7, <2>9
<1> QED BY <1>1, <1>2

\* Rows that leave take nothing of the others' with them.
LEMMA RowsAfterRemoval ==
    ASSUME AppViewInv, (\E id \in Id : ReceiveClosed(id)) \/ Clear
    PROVE  /\ UNCHANGED <<processes, process_icons, handed_over, selected_pid,
                          ja4_baselines>>
           /\ AppViewTypeOK' /\ ClassifiedHaveBaselines' /\ OutliersDiffer'
<1> USE DEF AppViewInv, AppViewTypeOK, listVars, iconVars, filterVars,
            selectionVars, ClassifiedHaveBaselines, OutliersDiffer, Classified
<1>1. CASE \E id \in Id : ReceiveClosed(id)
  BY <1>1 DEF ReceiveClosed
<1>2. CASE Clear
  <2>1. /\ events' = <<>> /\ selected_event' = None
        /\ UNCHANGED <<listVars, filterVars, selected_pid, ja4_baselines,
                       recording>>
    BY <1>2 DEF Clear
  <2>2. DOMAIN events' = {}
    BY <2>1, Nothing
  <2>3. events' \in [DOMAIN events' -> [event : Event, ja4_outlier : BOOLEAN]]
    BY <2>1, <2>2, Nothing
  <2>4. ClassifiedHaveBaselines' /\ OutliersDiffer'
    BY <2>2
  <2> QED BY <2>1, <2>2, <2>3, <2>4
<1> QED BY <1>1, <1>2

\* The selected pid stays if it is listed, or goes to a successor that is.
LEMMA SelectionAfterProcesses ==
    ASSUME AppViewInv, NEW list \in ProcessList, ReceiveProcesses(list)
    PROVE  SelectionExists' /\ selected_pid' \in Pid \cup {None}
           /\ selected_event' \in Id \cup {None}
<1>1. processes' = list /\ selected_pid' \in Selection(list)
  BY DEF ReceiveProcesses
<1>2. \A p \in list : Named(list, p.pid) # {} /\ p.pid \in Pid
  BY NamedOnce
<1>3. \/ selected_pid' = None
      \/ Named(list, selected_pid') # {}
  BY <1>1, <1>2 DEF Selection, Successors
<1>4. selected_pid' \in Pid \cup {None}
  BY <1>1, <1>2, <1>3 DEF Named
<1>5. selected_event' \in Id \cup {None}
  BY DEF ReceiveProcesses, AppViewInv, AppViewTypeOK
<1> QED BY <1>1, <1>3, <1>4, <1>5 DEF SelectionExists, Named

LEMMA IconsAfterProcesses ==
    ASSUME AppViewInv, NEW list \in ProcessList, ReceiveProcesses(list)
    PROVE  /\ DOMAIN process_icons' \subseteq Pid
           /\ process_icons' \in [DOMAIN process_icons' -> Name]
           /\ handed_over' \subseteq Pid
           /\ IconsListed' /\ IconsShowTheirProgram'
<1>1. /\ processes' = list
      /\ process_icons' = Icons(process_icons, list)
      /\ handed_over' =
            {pid \in {p.pid : p \in list} :
                \/ pid \in handed_over
                \/ \E p \in Named(processes, pid), q \in Named(list, pid) :
                      p.name # q.name}
  BY DEF ReceiveProcesses
<1>2. /\ process_icons' = [pid \in DOMAIN process_icons' |-> process_icons'[pid]]
      /\ \A pid \in DOMAIN process_icons : Named(list, pid) # {} =>
            pid \in DOMAIN process_icons'
            /\ process_icons'[pid] = process_icons[pid]
      /\ \A pid \in DOMAIN process_icons' :
            \/ pid \in DOMAIN process_icons /\ Named(list, pid) # {}
            \/ \E p \in list : p.pid = pid /\ process_icons'[pid] = p.name
      /\ \A p \in list : p.icon # None => p.pid \in DOMAIN process_icons'
  BY <1>1, IconsOf
<1>3. \A pid \in DOMAIN process_icons' : \E p \in list : p.pid = pid
  BY <1>2 DEF Named
<1>4. /\ DOMAIN process_icons' \subseteq Pid
      /\ \A pid \in DOMAIN process_icons' : process_icons'[pid] \in Name
      /\ handed_over' \subseteq Pid
  <2>1. \A p \in list : p.pid \in Pid /\ p.name \in Name
    BY NamedOnce
  <2>2. \A pid \in DOMAIN process_icons : process_icons[pid] \in Name
    BY DEF AppViewInv, AppViewTypeOK
  <2> QED BY <1>1, <1>2, <1>3, <2>1, <2>2
<1>5. IconsListed'
  BY <1>1, <1>3 DEF IconsListed, Named
<1>6. ASSUME NEW p \in list, p.pid \in DOMAIN process_icons', p.pid \notin handed_over'
      PROVE  process_icons'[p.pid] = p.name
  <2>1. CASE p.pid \in DOMAIN process_icons /\ Named(list, p.pid) # {}
    <3>1. PICK q \in processes : q.pid = p.pid
      BY <2>1 DEF AppViewInv, IconsListed, Named
    <3>2. p.pid \notin handed_over /\ q.name = p.name
      BY <1>1, <1>6, <3>1 DEF Named
    <3> QED BY <1>2, <2>1, <3>1, <3>2 DEF AppViewInv, IconsShowTheirProgram
  <2>2. CASE \E q \in list : q.pid = p.pid /\ process_icons'[p.pid] = q.name
    BY <2>2 DEF ProcessList
  <2> QED BY <1>2, <1>6, <2>1, <2>2
<1>7. IconsShowTheirProgram'
  BY <1>1, <1>2, <1>6 DEF IconsShowTheirProgram
<1> QED BY <1>2, <1>4, <1>5, <1>7

\* A click in the sidebar selects what is listed.
LEMMA SelectionAfterClick ==
    ASSUME AppViewInv, SelectAll \/ (\E p \in processes : SelectProcess(p))
    PROVE  /\ UNCHANGED <<processes, events, ja4_baselines, process_icons,
                          handed_over>>
           /\ SelectionExists' /\ AppViewTypeOK'
<1> USE DEF AppViewInv, AppViewTypeOK, listVars, iconVars, filterVars, eventVars
<1>1. CASE SelectAll
  BY <1>1 DEF SelectAll, SelectionExists
<1>2. ASSUME NEW p \in processes, SelectProcess(p)
      PROVE  /\ UNCHANGED <<processes, events, ja4_baselines, process_icons,
                            handed_over>>
             /\ SelectionExists' /\ AppViewTypeOK'
  <2>1. Named(processes, p.pid) = {p} /\ p.pid \in Pid
    BY NamedOnce
  <2>2. selected_pid' = p.pid /\ selected_event' \in Id \cup {None}
        /\ UNCHANGED <<listVars, filterVars, eventVars, recording>>
    BY <1>2 DEF SelectProcess
  <2>3. SelectionExists'
    BY <2>1, <2>2 DEF SelectionExists, Named
  <2> QED BY <2>1, <2>2, <2>3
<1> QED BY <1>1, <1>2

-----------------------------------------------------------------------------
LEMMA InvStep == AppViewInv /\ [Next]_vars => AppViewInv'
<1> SUFFICES ASSUME AppViewInv, [Next]_vars PROVE AppViewInv'
  OBVIOUS
<1>1. CASE Looking
  BY <1>1, LookingChangesNothing
  DEF AppViewInv, SelectionExists, ClassifiedHaveBaselines, OutliersDiffer,
      IconsListed, IconsShowTheirProgram, Classified, Named
<1>2. ASSUME NEW id \in Id, NEW event \in Event, ReceiveConnection(id, event)
      PROVE  AppViewInv'
  <2>1. UNCHANGED <<listVars, filterVars, selectionVars, recording>>
    BY <1>2 DEF ReceiveConnection
  <2> QED
    BY <1>2, <2>1, RowsAfterConnection
    DEF AppViewInv, AppViewTypeOK, SelectionExists, IconsListed,
        IconsShowTheirProgram, Named, listVars, iconVars, filterVars,
        selectionVars
<1>3. CASE (\E id \in Id : ReceiveClosed(id)) \/ Clear
  BY <1>3, RowsAfterRemoval
  DEF AppViewInv, SelectionExists, IconsListed, IconsShowTheirProgram, Named
<1>4. ASSUME NEW list \in ProcessList, ReceiveProcesses(list)
      PROVE  AppViewInv'
  <2>1. processes' = list
        /\ UNCHANGED <<process_tab, filterVars, eventVars, recording>>
    BY <1>4 DEF ReceiveProcesses
  <2> QED
    BY <1>4, <2>1, SelectionAfterProcesses, IconsAfterProcesses
    DEF AppViewInv, AppViewTypeOK, ClassifiedHaveBaselines, OutliersDiffer,
        Classified, filterVars, eventVars
<1>5. CASE SelectAll \/ (\E p \in processes : SelectProcess(p))
  BY <1>5, SelectionAfterClick
  DEF AppViewInv, ClassifiedHaveBaselines, OutliersDiffer, IconsListed,
      IconsShowTheirProgram, Classified, Named
<1> QED
  BY <1>1, <1>2, <1>3, <1>4, <1>5 DEF Next, Receive, UserActs, Looking

\* The inductive invariant of the window.
THEOREM AppViewInvariant == Spec => []AppViewInv
BY InitInv, InvStep, PTL DEF Spec

\* What is selected was in the last list, so that a click on "Relaunch" names
\* a process that ran a second ago (replace_processes).
THEOREM SelectedIsListed == Spec => []SelectionExists
BY AppViewInvariant, PTL DEF AppViewInv

\* All rows are judged by the same baselines (classify_ja4).
THEOREM RowsJudgedAlike == Spec => []OutliersDiffer
BY AppViewInvariant, PTL DEF AppViewInv

\* Hiding differences leaves one fingerprint to a process name.
THEOREM OneFingerprint == Spec => []OneFingerprintShown
<1>1. AppViewInv => OneFingerprintShown
  <2> SUFFICES ASSUME AppViewInv, ~show_ja4_differences,
                      NEW a \in Visible, NEW b \in Visible,
                      Classified(events[a].event), Classified(events[b].event),
                      events[a].event.process = events[b].event.process
               PROVE  events[a].event.ja4 = events[b].event.ja4
    BY DEF OneFingerprintShown
  <2>1. /\ a \in DOMAIN events /\ ~events[a].ja4_outlier
        /\ b \in DOMAIN events /\ ~events[b].ja4_outlier
    BY DEF Visible
  <2> QED BY <2>1 DEF AppViewInv, OutliersDiffer
<1> QED BY <1>1, AppViewInvariant, PTL

\* A picture is that of the program beside it, unless its pid went from one
\* program to another between two lists (replace_processes).
THEOREM PicturesOfTheirOwn == Spec => []IconsShowTheirProgram
BY AppViewInvariant, PTL DEF AppViewInv

-----------------------------------------------------------------------------
(***************************************************************************)
(* Replacing the list.                                                     *)
(***************************************************************************)
\* Only a new list from the worker changes the list.
LEMMA ListChange ==
    ASSUME AppViewInv, Next, processes' # processes
    PROVE  \E list \in ProcessList : ReceiveProcesses(list)
<1>1. ~Looking
  BY LookingChangesNothing DEF AppViewInv
<1>2. \A id \in Id : /\ ~ReceiveClosed(id)
                     /\ \A event \in Event : ~ReceiveConnection(id, event)
  BY DEF ReceiveClosed, ReceiveConnection, listVars
<1>3. ~SelectAll /\ ~(\E p \in processes : SelectProcess(p)) /\ ~Clear
  BY DEF SelectAll, SelectProcess, Clear, listVars
<1> QED BY <1>1, <1>2, <1>3 DEF Next, Receive, UserActs, Looking

\* The name of a selected pid is that of the one process with that pid.
LEMMA NameOfSelected ==
    ASSUME AppViewTypeOK, NEW p \in processes, selected_pid = p.pid
    PROVE  SelectedName = p.name
<1>1. Named(processes, selected_pid) = {p}
  BY NamedOnce DEF AppViewTypeOK
<1> QED BY <1>1 DEF SelectedName

\* The program selected in the new list has the old one's name.
LEMMA SelectionKeepsName ==
    ASSUME AppViewInv, NEW list \in ProcessList, ReceiveProcesses(list),
           process_tab = "applications",
           selected_pid # None, selected_pid' # None,
           selected_pid' = selected_pid => SelectedName' = SelectedName
    PROVE  \E p \in Named(processes', selected_pid') : p.name = SelectedName
<1>1. processes' = list /\ selected_pid' \in Selection(list)
  BY DEF ReceiveProcesses
<1>2. AppViewTypeOK /\ Named(processes, selected_pid) # {}
  BY DEF AppViewInv, SelectionExists
<1>3. PICK q \in processes : selected_pid = q.pid
  BY <1>2 DEF Named
<1>4. SelectedName = q.name /\ Named(processes, selected_pid) = {q}
  BY <1>2, <1>3, NameOfSelected, NamedOnce DEF AppViewTypeOK
<1>5. CASE Named(list, selected_pid) # {}
  <2>1. selected_pid' = selected_pid
    BY <1>1, <1>5 DEF Selection
  <2>2. PICK p \in list : p.pid = selected_pid
    BY <1>5 DEF Named
  <2>3. Named(list, selected_pid) = {p}
    BY <2>2, NamedOnce
  <2>4. Named(processes', selected_pid') = {p}
    BY <1>1, <2>1, <2>3
  <2>5. SelectedName' = p.name
    BY <2>4 DEF SelectedName
  <2> QED BY <2>1, <2>4, <2>5
<1>6. CASE Named(list, selected_pid) = {}
  <2>1. PICK p \in Successors(list) : selected_pid' = p.pid
    BY <1>1, <1>6 DEF Selection
  <2>2. p \in list /\ p.name = q.name
    BY <1>4, <2>1 DEF Successors
  <2>3. Named(processes', selected_pid') = {p}
    BY <1>1, <2>1, <2>2, NamedOnce
  <2> QED BY <1>4, <2>2, <2>3
<1> QED BY <1>5, <1>6

\* An application that restarted under another pid keeps its rows
\* (replace_processes).
THEOREM SelectionIsSteady == Spec => SelectionKeepsRows
<1>1. ASSUME AppViewInv, Next, processes' # processes,
             process_tab = "applications",
             selected_pid # None, selected_pid' # None,
             selected_pid' = selected_pid => SelectedName' = SelectedName,
             NEW id \in Visible, events[id].event.process = SelectedName
      PROVE  id \in Visible'
  <2>1. PICK list \in ProcessList : ReceiveProcesses(list)
    BY <1>1, ListChange
  <2>2. \E p \in Named(processes', selected_pid') : p.name = SelectedName
    BY <1>1, <2>1, SelectionKeepsName
  <2>3. UNCHANGED <<process_tab, filter, https_only, show_ja4_differences,
                    events>>
    BY <2>1 DEF ReceiveProcesses, filterVars, eventVars
  <2>4. MatchesSelection(events[id].event)'
    BY <1>1, <2>2, <2>3 DEF MatchesSelection
  <2> QED BY <2>3, <2>4 DEF Visible
<1>2. AppViewInv /\ [Next]_vars =>
         [processes' # processes /\ process_tab = "applications"
          /\ selected_pid # None /\ selected_pid' # None
          /\ (selected_pid' = selected_pid => SelectedName' = SelectedName) =>
               \A id \in Visible :
                   events[id].event.process = SelectedName => id \in Visible'
         ]_vars
  BY <1>1
<1> QED BY <1>2, AppViewInvariant, PTL DEF Spec, SelectionKeepsRows
=============================================================================
