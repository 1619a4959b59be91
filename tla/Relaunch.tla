------------------------------ MODULE Relaunch ------------------------------
(***************************************************************************)
(* relaunch_through_proxy and relaunch_open_apps_through_proxy of          *)
(* apppw-windows: stop a process by its pid and start its executable       *)
(* again.  The window's worker and the command line can do so at the same  *)
(* time, while processes exit and start on their own, and a pid names a    *)
(* process only as long as the process, or a handle to it, exists.         *)
(*                                                                         *)
(* The operating system is modelled as far as the code relies on it: a     *)
(* process that is stopped runs down until it is gone, it may be stuck     *)
(* there for longer than anyone waits, and as long as it is not gone it    *)
(* can be stopped again.                                                   *)
(***************************************************************************)
EXTENDS Naturals, Sequences

CONSTANTS
    None,
    Pid,
    Exe,           \* executable paths
    Relauncher,    \* running AppWatch programs that can relaunch
    Window,        \* those with a window, which can relaunch all
    Own,           \* Relauncher -> its own process, an index of `Started'
    Started,       \* processes running at the beginning
    MaxProcesses,  \* bounds of a run: processes started
    MaxRequests,   \* requests made,
    MaxChanges     \* processes that start or exit on their own

ASSUME RelaunchAssumption ==
    /\ None \notin Pid /\ None \notin Exe
    /\ Started \in Seq([pid : Pid, exe : Exe, state : {"live"}])
    /\ \A i, j \in DOMAIN Started : Started[i].pid = Started[j].pid => i = j
    /\ Window \subseteq Relauncher
    /\ Own \in [Relauncher -> DOMAIN Started]
    /\ {MaxProcesses, MaxRequests, MaxChanges} \subseteq Nat

VARIABLES
    processes,   \* every process ever: [pid, exe, state]
    stage,       \* where in relaunch_through_proxy a relauncher is
    todo,        \* processes it was asked to relaunch and has not come to;
                 \* it was told their pids only
    current,     \* the one it is at, or 0
    path,        \* the executable it read for that pid
    target,      \* the process it opened, an index of `processes', or 0
    requests,    \* requests made, counted to bound a run
    changes,     \* and processes that started or exited on their own
    \* auxiliary
    launched,    \* [chosen, old, new]: the process a call was asked to replace,
                 \* the one it stopped and the one it started
    contested,   \* the processes stopped by a call while another waited for them
    stuck        \* and those that outlasted somebody's wait

callVars == <<stage, todo, current, path, target>>
boundVars == <<requests, changes>>
auxVars == <<launched, contested, stuck>>
vars == <<processes, callVars, boundVars, auxVars>>

Process == [pid : Pid, exe : Exe, state : {"live", "dying", "gone"}]

OwnPid(r) == processes[Own[r]].pid

Alive(r) == processes[Own[r]].state = "live"

\* A handle is open from OpenProcess to CloseHandle, or to the end of the
\* program that holds it.
HandleOpen(i) ==
    \E r \in Relauncher :
        Alive(r) /\ target[r] = i /\ stage[r] \in {"terminate", "wait"}

\* The processes that keep a pid in use; OpenProcess finds them under it.
Named(p) ==
    {i \in DOMAIN processes :
        processes[i].pid = p /\ (processes[i].state # "gone" \/ HandleOpen(i))}

\* The pids a new process may be given, those of processes gone included.
FreePid == {p \in Pid : Named(p) = {}}

At(r, where) == stage[r] = where /\ Alive(r)

Goto(r, where) == stage' = [stage EXCEPT ![r] = where]

-----------------------------------------------------------------------------
\* Relaunch(Some(pid)) or `apppw-ui relaunch <pid>': the user has seen the
\* process in a list, and it may have gone since.
RequestOne(r, i) ==
    /\ At(r, "idle")
    /\ requests < MaxRequests
    /\ requests' = requests + 1 /\ UNCHANGED changes
    /\ todo' = [todo EXCEPT ![r] = {i}]
    /\ Goto(r, "choose")
    /\ UNCHANGED <<processes, current, path, target, auxVars>>

\* Relaunch(None): the owners of the visible windows, but for itself.
RequestAll(r, visible) ==
    /\ r \in Window
    /\ At(r, "idle")
    /\ requests < MaxRequests
    /\ requests' = requests + 1 /\ UNCHANGED changes
    /\ todo' = [todo EXCEPT ![r] = visible \ {Own[r]}]
    /\ Goto(r, "choose")
    /\ UNCHANGED <<processes, current, path, target, auxVars>>

Done(r) ==
    /\ At(r, "choose")
    /\ todo[r] = {}
    /\ path' = [path EXCEPT ![r] = None]
    /\ Goto(r, "idle")
    /\ UNCHANGED <<processes, todo, current, target, boundVars, auxVars>>

\* relaunch_through_proxy returns: its locals are forgotten.
Return(r) ==
    /\ current' = [current EXCEPT ![r] = 0]
    /\ target' = [target EXCEPT ![r] = 0]
    /\ Goto(r, "choose")

\* An early return gives the pid up.
GiveUp(r) == Return(r) /\ UNCHANGED <<processes, path, auxVars>>

\* Mutant: the path is read for the first pid only.
ReadPathOnce(r, chosen) ==
    /\ At(r, "choose")
    /\ chosen \in todo[r]
    /\ todo' = [todo EXCEPT ![r] = @ \ {chosen}]
    /\ \/ GiveUp(r)
       \/ \E i \in Named(processes[chosen].pid) :
            /\ processes[chosen].pid # OwnPid(r)
            /\ current' = [current EXCEPT ![r] = chosen]
            /\ path' = [path EXCEPT ![r] =
                           IF @ = None THEN processes[i].exe ELSE @]
            /\ Goto(r, "open")
            /\ UNCHANGED <<processes, target, auxVars>>
    /\ UNCHANGED boundVars

\* The next pid, in hash set order: itself is refused, otherwise the path of
\* whatever runs under the pid is read, which may fail.
ReadPath(r, chosen) ==
    /\ At(r, "choose")
    /\ chosen \in todo[r]
    /\ todo' = [todo EXCEPT ![r] = @ \ {chosen}]
    /\ \/ GiveUp(r)
       \/ \E i \in Named(processes[chosen].pid) :
            /\ processes[chosen].pid # OwnPid(r)
            /\ current' = [current EXCEPT ![r] = chosen]
            /\ path' = [path EXCEPT ![r] = processes[i].exe]
            /\ Goto(r, "open")
            /\ UNCHANGED <<processes, target, auxVars>>
    /\ UNCHANGED boundVars

\* OpenProcess looks the pid up a second time.
Open(r) ==
    /\ At(r, "open")
    /\ \/ GiveUp(r)
       \/ \E i \in Named(processes[current[r]].pid) :
            /\ target' = [target EXCEPT ![r] = i]
            /\ Goto(r, "terminate")
            /\ UNCHANGED <<processes, current, path, auxVars>>
    /\ UNCHANGED <<todo, boundVars>>

WaitedForByOther(r) ==
    \E q \in Relauncher \ {r} : At(q, "wait") /\ target[q] = target[r]

Contest(r) ==
    /\ contested' = contested \cup
           (IF WaitedForByOther(r) THEN {target[r]} ELSE {})
    /\ UNCHANGED <<launched, stuck>>

\* Mutant: a failed TerminateProcess is ignored.
TerminateAnyway(r) ==
    /\ At(r, "terminate")
    /\ processes' = [processes EXCEPT ![target[r]].state =
                        IF @ = "live" THEN "dying" ELSE @]
    /\ Goto(r, "wait")
    /\ Contest(r)
    /\ UNCHANGED <<todo, current, path, target, boundVars>>

\* TerminateProcess.  It may be denied; of a process that is gone it always is,
\* but one that is running down can be stopped once more.
Terminate(r) ==
    /\ At(r, "terminate")
    /\ \/ GiveUp(r)
       \/ /\ processes[target[r]].state # "gone"
          /\ processes' = [processes EXCEPT ![target[r]].state = "dying"]
          /\ Goto(r, "wait")
          /\ Contest(r)
          /\ UNCHANGED <<current, path, target>>
    /\ UNCHANGED <<todo, boundVars>>

\* Mutant: the wait has no timeout.
WaitForever(r) ==
    /\ At(r, "wait")
    /\ processes[target[r]].state = "gone"
    /\ Goto(r, "launch")
    /\ UNCHANGED <<processes, todo, current, path, target, boundVars, auxVars>>

\* WaitForSingleObject returns when the process is gone or after 5 s, and its
\* result is not looked at.
Wait(r) ==
    /\ At(r, "wait")
    /\ Goto(r, "launch")
    /\ stuck' = stuck \cup
           (IF processes[target[r]].state = "gone" THEN {} ELSE {target[r]})
    /\ UNCHANGED <<processes, todo, current, path, target, boundVars, launched,
                   contested>>

Start(p, exe) ==
    processes' = Append(processes, [pid |-> p, exe |-> exe, state |-> "live"])

\* launch_through_proxy, which may fail although the process is stopped.
Launch(r) ==
    /\ At(r, "launch")
    /\ \/ GiveUp(r)
       \/ \E p \in FreePid :
            /\ Len(processes) < MaxProcesses
            /\ Start(p, path[r])
            /\ launched' = launched \cup
                  {[chosen |-> current[r], old |-> target[r],
                    new |-> Len(processes) + 1]}
            /\ Return(r)
            /\ UNCHANGED <<path, contested, stuck>>
    /\ UNCHANGED <<todo, boundVars>>

-----------------------------------------------------------------------------
\* Processes come and go on their own.
StartElsewhere(p, exe) ==
    /\ changes < MaxChanges
    /\ changes' = changes + 1
    /\ Len(processes) < MaxProcesses
    /\ Start(p, exe)
    /\ UNCHANGED <<callVars, requests, auxVars>>

Exit(i) ==
    /\ processes[i].state = "live"
    /\ changes < MaxChanges
    /\ changes' = changes + 1
    /\ processes' = [processes EXCEPT ![i].state = "dying"]
    /\ UNCHANGED <<callVars, requests, auxVars>>

\* A process that ended or was stopped has run down.
Vanish(i) ==
    /\ processes[i].state = "dying"
    /\ processes' = [processes EXCEPT ![i].state = "gone"]
    /\ UNCHANGED <<callVars, boundVars, auxVars>>

Init ==
    /\ processes = Started
    /\ stage = [r \in Relauncher |-> "idle"]
    /\ todo = [r \in Relauncher |-> {}]
    /\ current = [r \in Relauncher |-> 0]
    /\ path = [r \in Relauncher |-> None]
    /\ target = [r \in Relauncher |-> 0]
    /\ requests = 0 /\ changes = 0
    /\ launched = {} /\ contested = {} /\ stuck = {}

Live == {i \in DOMAIN processes : processes[i].state = "live"}

Call(r) ==
    \/ Done(r) \/ (\E i \in todo[r] : ReadPath(r, i))
    \/ Open(r) \/ Terminate(r) \/ Wait(r) \/ Launch(r)

Next ==
    \/ \E r \in Relauncher :
          \/ \E i \in DOMAIN processes : RequestOne(r, i)
          \/ \E visible \in SUBSET Live : RequestAll(r, visible)
          \/ Call(r)
    \/ \E p \in FreePid, exe \in Exe : StartElsewhere(p, exe)
    \/ \E i \in DOMAIN processes : Exit(i) \/ Vanish(i)

Spec == Init /\ [][Next]_vars

\* A relauncher that is not stopped goes on; no process owes an exit.
FairSpec == Spec /\ \A r \in Relauncher : WF_vars(Call(r))

-----------------------------------------------------------------------------
\* However many relaunchers work on one pid, none starts the executable beside a
\* running process, or beside one that runs down and was given its five seconds;
\* and a process is replaced a second time only where two calls stopped it while
\* it ran down, one of them still waiting for it, or it outlasted a wait.
OneReplacementEach ==
    \A a \in launched :
        /\ processes[a.old].state = "gone" \/ a.old \in stuck
        /\ processes[a.old].state # "live"
        /\ \A b \in launched :
              a.old = b.old => a = b \/ a.old \in contested \cup stuck

\* What is stopped is a process that was asked for, and what is started is its
\* executable, although all that is passed on is a pid, which is looked up once
\* for the path and once for the process: each time it is whoever has that pid
\* by then, never another, nor one that had it before the choice.
RestartsWhatWasChosen ==
    \A l \in launched :
        \E i \in l.chosen .. l.old :
            /\ processes[i].pid = processes[l.chosen].pid
            /\ processes[i].pid = processes[l.old].pid
            /\ processes[l.new].exe = processes[i].exe

\* A call comes to its end, also when the process it stopped does not.
CallsEnd ==
    \A r \in Relauncher : stage[r] # "idle" ~> stage[r] = "idle" \/ ~Alive(r)

-----------------------------------------------------------------------------
(***************************************************************************)
(* The invariant the proofs rest on.                                       *)
(***************************************************************************)
RelaunchTypeOK ==
    /\ processes \in Seq(Process)
    /\ DOMAIN Started \subseteq DOMAIN processes
    /\ stage \in [Relauncher -> {"idle", "choose", "open", "terminate", "wait",
                                 "launch"}]
    /\ todo \in [Relauncher -> SUBSET DOMAIN processes]
    /\ current \in [Relauncher -> DOMAIN processes \cup {0}]
    /\ path \in [Relauncher -> Exe \cup {None}]
    /\ target \in [Relauncher -> DOMAIN processes \cup {0}]
    /\ launched \subseteq [chosen : DOMAIN processes, old : DOMAIN processes,
                           new : DOMAIN processes]
    /\ contested \subseteq DOMAIN processes
    /\ stuck \subseteq DOMAIN processes

SamePid(i, j) == processes[i].pid = processes[j].pid

\* A pid is given away only when it names nobody, and never names those who had
\* it again.
Superseded ==
    \A i, j \in DOMAIN processes :
        i < j /\ SamePid(i, j) =>
            processes[i].state = "gone" /\ ~HandleOpen(i)

\* The executable read is that of a process which had the pid since c was chosen
\* and, where another has been opened, no later than that one.
PathSince(r, c) ==
    \E i \in DOMAIN processes :
        /\ c <= i /\ SamePid(i, c) /\ path[r] = processes[i].exe
        /\ stage[r] # "open" => i <= target[r] /\ SamePid(i, target[r])

\* What a relauncher has looked up so far.
LookedUp(r) ==
    /\ stage[r] \in {"open", "terminate", "wait", "launch"} =>
          /\ current[r] \in DOMAIN processes
          /\ path[r] \in Exe
          /\ PathSince(r, current[r])
    /\ stage[r] \in {"terminate", "wait", "launch"} =>
          target[r] \in DOMAIN processes

\* A process that was stopped belongs to the one who stopped it, or is one of
\* those that may be replaced twice.  A program that was stopped itself keeps its
\* place in the call, and does not go on from there.
Stopped(r) ==
    stage[r] \in {"wait", "launch"} /\ Alive(r) =>
        /\ processes[target[r]].state # "live"
        /\ stage[r] = "launch" =>
              processes[target[r]].state = "gone" \/ target[r] \in stuck
        /\ \A l \in launched :
              l.old = target[r] => target[r] \in contested \cup stuck
        /\ \A q \in Relauncher \ {r} :
              stage[q] \in {"wait", "launch"} /\ Alive(q)
                  /\ target[q] = target[r] =>
                      target[r] \in contested \cup stuck

RelaunchInv ==
    /\ RelaunchTypeOK
    /\ Superseded
    /\ \A r \in Relauncher : LookedUp(r) /\ Stopped(r)
    /\ OneReplacementEach
    /\ RestartsWhatWasChosen
=============================================================================
