--------------------------- MODULE RelaunchProofs ---------------------------
(***************************************************************************)
(* Proofs about Relaunch, for any number of relauncher programs, pids and  *)
(* processes, and any bounds.                                              *)
(***************************************************************************)
EXTENDS Relaunch, TLAPS

Stages == {"idle", "choose", "open", "terminate", "wait", "launch"}

\* What every step leaves as it was: processes are only added, keep pid and
\* executable, and do not come back to life.
Grows ==
    /\ processes' \in Seq(Process)
    /\ DOMAIN processes \subseteq DOMAIN processes'
    /\ \A i \in DOMAIN processes :
          /\ processes'[i].pid = processes[i].pid
          /\ processes'[i].exe = processes[i].exe
          /\ processes[i].state # "live" => processes'[i].state # "live"
          /\ processes[i].state = "gone" => processes'[i].state = "gone"

LEMMA SeqFacts ==
    ASSUME processes \in Seq(Process)
    PROVE  /\ Len(processes) \in Nat
           /\ DOMAIN processes = 1 .. Len(processes)
           /\ \A i \in DOMAIN processes : processes[i] \in Process
OBVIOUS

\* One process changes its state, and no other thing.
LEMMA StateChanges ==
    ASSUME processes \in Seq(Process), NEW i \in DOMAIN processes,
           NEW s \in {"dying", "gone"}, processes[i].state = "gone" => s = "gone",
           processes' = [processes EXCEPT ![i].state = s]
    PROVE  /\ Grows
           /\ DOMAIN processes' = DOMAIN processes
           /\ \A j \in DOMAIN processes \ {i} : processes'[j] = processes[j]
           /\ processes'[i].state = s
<1>1. /\ DOMAIN processes' = DOMAIN processes
      /\ processes'[i] = [processes[i] EXCEPT !.state = s]
      /\ \A j \in DOMAIN processes \ {i} : processes'[j] = processes[j]
  BY SeqFacts
<1>2. /\ processes'[i] \in Process
      /\ processes'[i].pid = processes[i].pid
      /\ processes'[i].exe = processes[i].exe
      /\ processes'[i].state = s
  BY <1>1, SeqFacts DEF Process
<1>3. processes' \in Seq(Process)
  BY <1>1, <1>2, SeqFacts
<1> QED BY <1>1, <1>2, <1>3, SeqFacts DEF Grows

LEMMA Starts ==
    ASSUME processes \in Seq(Process), NEW p \in Pid, NEW exe \in Exe,
           Start(p, exe)
    PROVE  /\ Grows
           /\ DOMAIN processes' = DOMAIN processes \cup {Len(processes) + 1}
           /\ Len(processes) + 1 \notin DOMAIN processes
           /\ \A j \in DOMAIN processes : processes'[j] = processes[j]
           /\ processes'[Len(processes) + 1].pid = p
           /\ processes'[Len(processes) + 1].exe = exe
<1> DEFINE new == [pid |-> p, exe |-> exe, state |-> "live"]
<1>1. new \in Process /\ new.pid = p /\ new.exe = exe
  BY DEF Process
<1>2. processes' = Append(processes, new)
  BY DEF Start
<1> HIDE DEF new
<1>3. /\ processes' \in Seq(Process)
      /\ DOMAIN processes' = DOMAIN processes \cup {Len(processes) + 1}
      /\ Len(processes) + 1 \notin DOMAIN processes
      /\ \A j \in DOMAIN processes : processes'[j] = processes[j]
      /\ processes'[Len(processes) + 1] = new
  BY <1>1, <1>2, SeqFacts
<1> QED BY <1>1, <1>3 DEF Grows

LEMMA StartedAreProcesses == Started \in Seq(Process)
<1> DEFINE Running == [pid : Pid, exe : Exe, state : {"live"}]
<1>1. Running \subseteq Process
  BY DEF Process
<1>2. Started \in Seq(Running)
  BY RelaunchAssumption
<1> HIDE DEF Running
<1> QED BY <1>1, <1>2

LEMMA InitInv == Init => RelaunchInv
<1> SUFFICES ASSUME Init PROVE RelaunchInv
  OBVIOUS
<1>1. /\ processes = Started /\ processes \in Seq(Process)
      /\ \A i, j \in DOMAIN processes : SamePid(i, j) => i = j
  BY StartedAreProcesses, RelaunchAssumption DEF Init, SamePid
<1>2. RelaunchTypeOK
  BY <1>1 DEF Init, RelaunchTypeOK
<1>3. Superseded
  BY <1>1, SeqFacts DEF Superseded
<1>4. \A r \in Relauncher : LookedUp(r) /\ Stopped(r)
  BY DEF Init, LookedUp, Stopped
<1>5. OneReplacementEach /\ RestartsWhatWasChosen
  BY DEF Init, OneReplacementEach, RestartsWhatWasChosen
<1> QED BY <1>2, <1>3, <1>4, <1>5 DEF RelaunchInv

-----------------------------------------------------------------------------
\* A step of q leaves what the others are about alone.
OthersStay(q) ==
    \A r \in Relauncher \ {q} :
        /\ stage'[r] = stage[r] /\ current'[r] = current[r]
        /\ path'[r] = path[r] /\ target'[r] = target[r]

\* Handles are closed by any step but that of one who opens a process.
HandlesFall == \A i \in DOMAIN processes : HandleOpen(i)' => HandleOpen(i)

LEMMA AliveFalls ==
    ASSUME RelaunchTypeOK, Grows, NEW r \in Relauncher, Alive(r)'
    PROVE  Alive(r)
BY RelaunchAssumption DEF RelaunchTypeOK, Grows, Alive

LEMMA HandlesOfOthers ==
    ASSUME RelaunchTypeOK, Grows, NEW q \in Relauncher, OthersStay(q),
           stage'[q] \in {"terminate", "wait"} =>
               stage[q] \in {"terminate", "wait"} /\ target'[q] = target[q]
    PROVE  HandlesFall
<1> SUFFICES ASSUME NEW i \in DOMAIN processes, NEW r \in Relauncher, Alive(r)',
                    target'[r] = i, stage'[r] \in {"terminate", "wait"}
             PROVE  HandleOpen(i)
  BY DEF HandlesFall, HandleOpen
<1>1. Alive(r)
  BY AliveFalls
<1>2. target[r] = i /\ stage[r] \in {"terminate", "wait"}
  BY DEF OthersStay
<1> QED BY <1>1, <1>2 DEF HandleOpen

\* Where no process starts and no handle is opened, none is superseded anew.
LEMMA SupersededKept ==
    ASSUME RelaunchTypeOK, Superseded, Grows, HandlesFall,
           DOMAIN processes' = DOMAIN processes
    PROVE  Superseded'
<1> SUFFICES ASSUME NEW i \in DOMAIN processes, NEW j \in DOMAIN processes,
                    i < j, SamePid(i, j)'
             PROVE  processes'[i].state = "gone" /\ ~HandleOpen(i)'
  BY DEF Superseded
<1>1. SamePid(i, j)
  BY DEF SamePid, Grows
<1>2. processes[i].state = "gone" /\ ~HandleOpen(i)
  BY <1>1 DEF Superseded
<1> QED BY <1>2 DEF Grows, HandlesFall

LEMMA LookedUpKept ==
    ASSUME RelaunchTypeOK, Grows, NEW r \in Relauncher, LookedUp(r),
           stage'[r] = stage[r], current'[r] = current[r], path'[r] = path[r],
           target'[r] = target[r]
    PROVE  LookedUp(r)'
<1>1. CASE stage[r] \in {"open", "terminate", "wait", "launch"}
  <2>1. current[r] \in DOMAIN processes /\ path[r] \in Exe
    BY <1>1 DEF LookedUp
  <2>2. PICK i \in DOMAIN processes :
            /\ current[r] <= i /\ SamePid(i, current[r])
            /\ path[r] = processes[i].exe
            /\ stage[r] # "open" => i <= target[r] /\ SamePid(i, target[r])
    BY <1>1 DEF LookedUp, PathSince
  <2>3. stage[r] # "open" => target[r] \in DOMAIN processes
    BY <1>1 DEF LookedUp
  <2>4. PathSince(r, current[r])'
    BY <2>1, <2>2, <2>3 DEF PathSince, Grows, SamePid
  <2> QED BY <2>1, <2>3, <2>4 DEF LookedUp, Grows
<1>2. CASE stage[r] \notin {"open", "terminate", "wait", "launch"}
  BY <1>2 DEF LookedUp
<1> QED BY <1>1, <1>2

\* What is known of a process that was replaced remains known.
AuxKept ==
    /\ launched' = launched
    /\ contested \subseteq contested' /\ stuck \subseteq stuck'

\* Nobody else's process is touched by a relauncher that stops none.
LEMMA StoppedKept ==
    ASSUME RelaunchTypeOK, Grows, AuxKept,
           NEW q \in Relauncher, OthersStay(q),
           \A r \in Relauncher : LookedUp(r) /\ Stopped(r),
           stage'[q] \in {"wait", "launch"} =>
               stage[q] \in {"wait", "launch"} /\ target'[q] = target[q],
           stage[q] = "wait" /\ stage'[q] = "launch" =>
               processes[target[q]].state = "gone" \/ target[q] \in stuck'
    PROVE  \A r \in Relauncher : Stopped(r)'
<1> SUFFICES ASSUME NEW r \in Relauncher, stage'[r] \in {"wait", "launch"},
                    Alive(r)'
             PROVE  /\ processes'[target'[r]].state # "live"
                    /\ stage'[r] = "launch" =>
                          \/ processes'[target'[r]].state = "gone"
                          \/ target'[r] \in stuck'
                    /\ \A l \in launched : l.old = target'[r] =>
                          target'[r] \in contested' \cup stuck'
                    /\ \A p \in Relauncher \ {r} :
                          stage'[p] \in {"wait", "launch"} /\ Alive(p)'
                              /\ target'[p] = target'[r] =>
                                  target'[r] \in contested' \cup stuck'
  BY DEF Stopped, AuxKept
<1>1. \A p \in Relauncher : stage'[p] \in {"wait", "launch"} =>
         stage[p] \in {"wait", "launch"} /\ target'[p] = target[p]
  BY DEF OthersStay
<1>2. \A p \in Relauncher : Alive(p)' => Alive(p)
  BY AliveFalls
<1>3. /\ processes[target[r]].state # "live"
      /\ stage[r] = "launch" =>
            processes[target[r]].state = "gone" \/ target[r] \in stuck
      /\ \A l \in launched :
            l.old = target[r] => target[r] \in contested \cup stuck
      /\ \A p \in Relauncher \ {r} :
            stage[p] \in {"wait", "launch"} /\ Alive(p) /\ target[p] = target[r] =>
                target[r] \in contested \cup stuck
      /\ target[r] \in DOMAIN processes
  BY <1>1, <1>2 DEF Stopped, LookedUp
<1>4. stage'[r] = "launch" =>
         processes[target[r]].state = "gone" \/ target[r] \in stuck'
  BY <1>1, <1>3 DEF OthersStay, AuxKept
<1> QED BY <1>1, <1>2, <1>3, <1>4 DEF Grows, AuxKept

LEMMA LaunchedKept ==
    ASSUME RelaunchTypeOK, Grows, AuxKept,
           OneReplacementEach, RestartsWhatWasChosen
    PROVE  OneReplacementEach' /\ RestartsWhatWasChosen'
<1>1. \A l \in launched : /\ l.chosen \in DOMAIN processes
                          /\ l.old \in DOMAIN processes
                          /\ l.new \in DOMAIN processes
  BY DEF RelaunchTypeOK
<1>2. OneReplacementEach'
  BY <1>1 DEF OneReplacementEach, Grows, AuxKept
<1>3. RestartsWhatWasChosen'
  <2> SUFFICES ASSUME NEW l \in launched
               PROVE  \E i \in l.chosen .. l.old :
                         /\ processes'[i].pid = processes'[l.chosen].pid
                         /\ processes'[i].pid = processes'[l.old].pid
                         /\ processes'[l.new].exe = processes'[i].exe
    BY DEF RestartsWhatWasChosen, AuxKept
  <2>1. PICK i \in l.chosen .. l.old :
            /\ processes[i].pid = processes[l.chosen].pid
            /\ processes[i].pid = processes[l.old].pid
            /\ processes[l.new].exe = processes[i].exe
    BY DEF RestartsWhatWasChosen
  <2>2. i \in DOMAIN processes
    BY <1>1, SeqFacts DEF RelaunchTypeOK
  <2> QED BY <1>1, <2>1, <2>2 DEF Grows
<1> QED BY <1>2, <1>3
-----------------------------------------------------------------------------
\* What the lemmas assume of a state, and what a step leaves for the theorem.
Before ==
    /\ RelaunchTypeOK /\ Superseded
    /\ \A r \in Relauncher : LookedUp(r) /\ Stopped(r)
    /\ OneReplacementEach /\ RestartsWhatWasChosen

\* The steps that touch no process and open none: requests, their end, early
\* returns, and the end of the wait.
Quiet(q) ==
    /\ processes' = processes /\ AuxKept
    /\ RelaunchTypeOK' /\ OthersStay(q)

LEMMA ProcessesStay ==
    ASSUME RelaunchTypeOK, processes' = processes
    PROVE  Grows /\ DOMAIN processes' = DOMAIN processes
BY DEF RelaunchTypeOK, Grows

LEMMA OthersLookedUp ==
    ASSUME Before, Grows, NEW q \in Relauncher, OthersStay(q)
    PROVE  \A r \in Relauncher \ {q} : LookedUp(r)'
<1> SUFFICES ASSUME NEW r \in Relauncher \ {q} PROVE LookedUp(r)'
  OBVIOUS
<1> QED BY LookedUpKept DEF Before, OthersStay

LEMMA QuietStep ==
    ASSUME Before, NEW q \in Relauncher, Quiet(q), LookedUp(q)',
           stage'[q] \in {"terminate", "wait"} =>
               stage[q] \in {"terminate", "wait"} /\ target'[q] = target[q],
           stage'[q] \in {"wait", "launch"} =>
               stage[q] \in {"wait", "launch"} /\ target'[q] = target[q],
           stage[q] = "wait" /\ stage'[q] = "launch" =>
               processes[target[q]].state = "gone" \/ target[q] \in stuck'
    PROVE  RelaunchInv'
<1>1. Grows /\ DOMAIN processes' = DOMAIN processes
  BY ProcessesStay DEF Before, Quiet
<1>2. HandlesFall
  BY <1>1, HandlesOfOthers DEF Before, Quiet
<1>3. Superseded'
  BY <1>1, <1>2, SupersededKept DEF Before
<1>4. \A r \in Relauncher : LookedUp(r)'
  BY <1>1, OthersLookedUp DEF Quiet
<1>5. \A r \in Relauncher : Stopped(r)'
  BY <1>1, StoppedKept DEF Before, Quiet
<1>6. OneReplacementEach' /\ RestartsWhatWasChosen'
  BY <1>1, LaunchedKept DEF Before, Quiet
<1> QED BY <1>3, <1>4, <1>5, <1>6 DEF RelaunchInv, Quiet

\* A relauncher that gives up, or has none left, has looked nothing up.
LEMMA IdleStep ==
    ASSUME Before, NEW q \in Relauncher, Quiet(q), stage'[q] \in {"idle", "choose"}
    PROVE  RelaunchInv'
<1>1. LookedUp(q)'
  BY DEF LookedUp
<1> QED BY <1>1, QuietStep

\* Only the program that takes a step has its variables changed.
LEMMA OnlyOne ==
    ASSUME RelaunchTypeOK, NEW q \in Relauncher, NEW s, NEW c, NEW p, NEW t,
           stage' = [stage EXCEPT ![q] = s], current' = [current EXCEPT ![q] = c],
           path' = [path EXCEPT ![q] = p], target' = [target EXCEPT ![q] = t]
    PROVE  /\ OthersStay(q)
           /\ stage'[q] = s /\ current'[q] = c /\ path'[q] = p /\ target'[q] = t
BY DEF RelaunchTypeOK, OthersStay

LEMMA RequestStep ==
    ASSUME Before, NEW q \in Relauncher, NEW chosen \in SUBSET DOMAIN processes,
           todo' = [todo EXCEPT ![q] = chosen], Goto(q, "choose"),
           UNCHANGED <<processes, current, path, target, auxVars>>
    PROVE  RelaunchInv'
<1>1. RelaunchTypeOK'
  BY DEF Before, RelaunchTypeOK, Goto, auxVars
<1>2. OthersStay(q) /\ stage'[q] = "choose"
  BY DEF Before, RelaunchTypeOK, Goto, OthersStay
<1> QED BY <1>1, <1>2, IdleStep DEF Quiet, AuxKept, auxVars

LEMMA DoneStep ==
    ASSUME Before, NEW q \in Relauncher, Done(q)
    PROVE  RelaunchInv'
<1>1. RelaunchTypeOK'
  BY DEF Before, RelaunchTypeOK, Done, Goto, auxVars
<1>2. OthersStay(q) /\ stage'[q] = "idle"
  BY DEF Before, RelaunchTypeOK, Done, Goto, OthersStay
<1> QED BY <1>1, <1>2, IdleStep DEF Quiet, Done, AuxKept, auxVars

LEMMA GiveUpStep ==
    ASSUME Before, NEW q \in Relauncher, GiveUp(q),
           todo' \in [Relauncher -> SUBSET DOMAIN processes]
    PROVE  RelaunchInv'
<1>1. RelaunchTypeOK'
  BY DEF Before, RelaunchTypeOK, GiveUp, Return, Goto, auxVars
<1>2. OthersStay(q) /\ stage'[q] = "choose"
  BY DEF Before, RelaunchTypeOK, GiveUp, Return, Goto, OthersStay
<1> QED BY <1>1, <1>2, IdleStep DEF Quiet, GiveUp, AuxKept, auxVars

LEMMA ReadPathStep ==
    ASSUME Before, NEW q \in Relauncher, NEW chosen \in todo[q],
           ReadPath(q, chosen)
    PROVE  RelaunchInv'
<1>1. todo' \in [Relauncher -> SUBSET DOMAIN processes]
  BY DEF Before, RelaunchTypeOK, ReadPath
<1>2. CASE GiveUp(q)
  BY <1>1, <1>2, GiveUpStep
<1>3. ASSUME NEW i \in Named(processes[chosen].pid),
             current' = [current EXCEPT ![q] = chosen],
             path' = [path EXCEPT ![q] = processes[i].exe],
             Goto(q, "open"), UNCHANGED <<processes, target, auxVars>>
      PROVE  RelaunchInv'
  <2>1. /\ chosen \in DOMAIN processes /\ i \in DOMAIN processes
        /\ processes[i].exe \in Exe /\ SamePid(i, chosen) /\ chosen <= i
    <3>1. /\ chosen \in DOMAIN processes /\ i \in DOMAIN processes
          /\ SamePid(i, chosen)
          /\ processes[i].state # "gone" \/ HandleOpen(i)
      BY DEF Before, RelaunchTypeOK, Named, SamePid
    <3>2. processes[i] \in Process /\ i \in Nat /\ chosen \in Nat
      BY <3>1, SeqFacts DEF Before, RelaunchTypeOK
    <3>3. ~(i < chosen)
      BY <3>1 DEF Before, Superseded, SamePid
    <3> QED BY <3>1, <3>2, <3>3 DEF Process
  <2>2. RelaunchTypeOK'
    BY <1>1, <1>3, <2>1 DEF Before, RelaunchTypeOK, Goto, auxVars
  <2>3. /\ OthersStay(q) /\ stage'[q] = "open" /\ current'[q] = chosen
        /\ path'[q] = processes[i].exe
    BY <1>3 DEF Before, RelaunchTypeOK, Goto, OthersStay
  <2>4. LookedUp(q)'
    <3>1. PathSince(q, chosen)'
      BY <1>3, <2>1, <2>3 DEF PathSince, SamePid
    <3> QED BY <1>3, <2>1, <2>3, <3>1 DEF LookedUp
  <2> QED BY <1>3, <2>2, <2>3, <2>4, QuietStep DEF Quiet, AuxKept, auxVars
<1> QED BY <1>2, <1>3 DEF ReadPath

\* The wait ends, whether or not the process does.
LEMMA WaitStep ==
    ASSUME Before, NEW q \in Relauncher, Wait(q)
    PROVE  RelaunchInv'
<1>1. /\ OthersStay(q) /\ stage[q] = "wait" /\ stage'[q] = "launch"
      /\ UNCHANGED <<processes, todo, current, path, target, launched, contested>>
  BY DEF Before, RelaunchTypeOK, Wait, Goto, At, OthersStay
<1>2. target[q] \in DOMAIN processes
  BY <1>1 DEF Before, LookedUp
<1>3. /\ stuck \subseteq stuck' /\ stuck' \subseteq DOMAIN processes
      /\ processes[target[q]].state = "gone" \/ target[q] \in stuck'
  BY <1>2 DEF Before, RelaunchTypeOK, Wait
<1>4. RelaunchTypeOK'
  BY <1>1, <1>3 DEF Before, RelaunchTypeOK, Wait, Goto
<1>5. LookedUp(q)'
  BY <1>1 DEF Before, LookedUp, PathSince, SamePid
<1> QED BY <1>1, <1>3, <1>4, <1>5, QuietStep DEF Quiet, AuxKept

\* The process opened under the pid is the last that had it, so it had it no
\* earlier than the one whose path was read.
LEMMA OpenStep ==
    ASSUME Before, NEW q \in Relauncher, Open(q)
    PROVE  RelaunchInv'
<1>1. CASE GiveUp(q)
  <2>1. todo' \in [Relauncher -> SUBSET DOMAIN processes]
    BY DEF Before, RelaunchTypeOK, Open
  <2> QED BY <1>1, <2>1, GiveUpStep
<1>2. ASSUME NEW i \in Named(processes[current[q]].pid),
             target' = [target EXCEPT ![q] = i], Goto(q, "terminate"),
             UNCHANGED <<processes, current, path, auxVars>>
      PROVE  RelaunchInv'
  <2> DEFINE c == current[q]
  <2>1. /\ stage[q] = "open" /\ c \in DOMAIN processes
        /\ i \in DOMAIN processes /\ SamePid(i, c)
        /\ processes[i].state # "gone" \/ HandleOpen(i)
    BY DEF Before, LookedUp, Open, At, Named, SamePid
  <2>2. PICK k \in DOMAIN processes :
            c <= k /\ SamePid(k, c) /\ path[q] = processes[k].exe
    BY <2>1 DEF Before, LookedUp, PathSince
  <2>3. \A j \in DOMAIN processes : ~(i < j /\ SamePid(i, j))
    BY <2>1 DEF Before, Superseded
  <2>4. DOMAIN processes = 1 .. Len(processes) /\ Len(processes) \in Nat
    BY SeqFacts DEF Before, RelaunchTypeOK
  <2>5. k <= i /\ SamePid(k, i)
    BY <2>1, <2>2, <2>3, <2>4 DEF SamePid
  <2>6. path[q] \in Exe
    BY <2>1 DEF Before, LookedUp
  <2>7. RelaunchTypeOK'
    BY <1>2, <2>1 DEF Before, RelaunchTypeOK, Goto, Open, auxVars
  <2>8. OthersStay(q) /\ stage'[q] = "terminate" /\ target'[q] = i
    BY <1>2 DEF Before, RelaunchTypeOK, Goto, OthersStay
  <2>9. Grows
    BY <1>2, ProcessesStay DEF Before
  <2>10. LookedUp(q)'
    <3>1. PathSince(q, c)'
      BY <1>2, <2>2, <2>5, <2>8 DEF PathSince, SamePid
    <3> QED BY <1>2, <2>1, <2>6, <2>8, <3>1 DEF LookedUp
  <2>11. Superseded'
    <3> SUFFICES ASSUME NEW a \in DOMAIN processes, NEW b \in DOMAIN processes,
                        a < b, SamePid(a, b)
                 PROVE  processes[a].state = "gone" /\ ~HandleOpen(a)'
      BY <1>2 DEF Superseded, SamePid
    <3>1. processes[a].state = "gone" /\ ~HandleOpen(a) /\ a # i
      BY <2>3 DEF Before, Superseded
    <3>2. ASSUME NEW r \in Relauncher, Alive(r)', target'[r] = a,
                 stage'[r] \in {"terminate", "wait"}
          PROVE  FALSE
      <4>1. r # q
        BY <3>1, <3>2, <2>8
      <4>2. Alive(r) /\ target[r] = a /\ stage[r] \in {"terminate", "wait"}
        BY <1>2, <3>2, <4>1, <2>8 DEF OthersStay, Alive
      <4> QED BY <3>1, <4>2 DEF HandleOpen
    <3> QED BY <3>1, <3>2 DEF HandleOpen
  <2>12. \A r \in Relauncher : LookedUp(r)'
    BY <2>8, <2>9, <2>10, OthersLookedUp
  <2>13. \A r \in Relauncher : Stopped(r)'
    BY <1>2, <2>8, <2>9, StoppedKept DEF Before, AuxKept, auxVars
  <2>14. OneReplacementEach' /\ RestartsWhatWasChosen'
    BY <1>2, <2>9, LaunchedKept DEF Before, AuxKept, auxVars
  <2> QED BY <2>7, <2>11, <2>12, <2>13, <2>14 DEF RelaunchInv
<1> QED BY <1>1, <1>2 DEF Open

\* Whoever is about the process stopped waits for it, which makes it contested,
\* or has waited in vain, as it is not gone.
LEMMA TerminateStep ==
    ASSUME Before, NEW q \in Relauncher, Terminate(q)
    PROVE  RelaunchInv'
<1>1. CASE GiveUp(q)
  <2>1. todo' \in [Relauncher -> SUBSET DOMAIN processes]
    BY DEF Before, RelaunchTypeOK, Terminate
  <2> QED BY <1>1, <2>1, GiveUpStep
<1>2. ASSUME processes[target[q]].state # "gone",
             processes' = [processes EXCEPT ![target[q]].state = "dying"],
             Goto(q, "wait"), Contest(q), UNCHANGED <<current, path, target>>
      PROVE  RelaunchInv'
  <2> DEFINE t == target[q]
  <2>1. /\ stage[q] = "terminate" /\ Alive(q)
        /\ t \in DOMAIN processes /\ path[q] \in Exe
        /\ current[q] \in DOMAIN processes /\ PathSince(q, current[q])
    BY DEF Before, LookedUp, Terminate, At
  <2>2. /\ Grows /\ DOMAIN processes' = DOMAIN processes
        /\ processes'[t].state = "dying"
    BY <1>2, <2>1, StateChanges DEF Before, RelaunchTypeOK
  <2>3. OthersStay(q) /\ stage'[q] = "wait"
    BY <1>2 DEF Before, RelaunchTypeOK, Goto, OthersStay
  <2>4. AuxKept /\ contested' \subseteq contested \cup {t} /\ stuck' = stuck
    BY <1>2 DEF Contest, AuxKept
  <2>5. RelaunchTypeOK'
    BY <1>2, <2>1, <2>2, <2>4 DEF Before, RelaunchTypeOK, Goto, Terminate, Grows,
                                  AuxKept
  <2>6. Superseded'
    <3>1. HandlesFall
      BY <1>2, <2>1, <2>2, <2>3, HandlesOfOthers DEF Before
    <3> QED BY <2>2, <3>1, SupersededKept DEF Before
  <2>7. \A r \in Relauncher : LookedUp(r)'
    <3>1. PathSince(q, current[q])'
      BY <1>2, <2>1, <2>2, <2>3 DEF PathSince, Grows, SamePid
    <3>2. LookedUp(q)'
      BY <1>2, <2>1, <2>2, <2>3, <3>1 DEF LookedUp
    <3> QED BY <2>2, <2>3, <3>2, OthersLookedUp
  <2>8. ASSUME NEW r \in Relauncher \ {q}, stage[r] \in {"wait", "launch"},
               Alive(r), target[r] = t
        PROVE  t \in contested' \cup stuck'
    <3>1. CASE stage[r] = "wait"
      BY <1>2, <2>8, <3>1 DEF Contest, WaitedForByOther, At
    <3>2. CASE stage[r] = "launch"
      BY <1>2, <2>4, <2>8, <3>2 DEF Before, Stopped
    <3> QED BY <2>8, <3>1, <3>2
  <2>9. \A l \in launched : l.old = t => t \in contested' \cup stuck'
    BY <1>2, <2>4 DEF Before, OneReplacementEach
  <2>10. \A r \in Relauncher : Alive(r)' => Alive(r)
    BY <2>2, AliveFalls DEF Before
  <2>11. Stopped(q)'
    BY <1>2, <2>2, <2>3, <2>4, <2>8, <2>9, <2>10
       DEF Stopped, OthersStay, AuxKept
  <2>12. ASSUME NEW r \in Relauncher \ {q} PROVE Stopped(r)'
    <3> SUFFICES ASSUME stage[r] \in {"wait", "launch"}, Alive(r)
                 PROVE  /\ processes'[target[r]].state # "live"
                        /\ stage[r] = "launch" =>
                              \/ processes'[target[r]].state = "gone"
                              \/ target[r] \in stuck'
                        /\ \A l \in launched : l.old = target[r] =>
                              target[r] \in contested' \cup stuck'
                        /\ \A p \in Relauncher \ {r} :
                              stage'[p] \in {"wait", "launch"} /\ Alive(p)'
                                  /\ target[p] = target[r] =>
                                      target[r] \in contested' \cup stuck'
      BY <1>2, <2>3, <2>4, <2>10 DEF Stopped, OthersStay, AuxKept
    <3>1. /\ processes[target[r]].state # "live"
          /\ stage[r] = "launch" =>
                processes[target[r]].state = "gone" \/ target[r] \in stuck
          /\ \A l \in launched :
                l.old = target[r] => target[r] \in contested \cup stuck
          /\ \A p \in Relauncher \ {r} :
                stage[p] \in {"wait", "launch"} /\ Alive(p)
                    /\ target[p] = target[r] =>
                        target[r] \in contested \cup stuck
          /\ target[r] \in DOMAIN processes
      BY DEF Before, Stopped, LookedUp
    <3>2. ASSUME NEW p \in Relauncher \ {r}, stage'[p] \in {"wait", "launch"},
                 Alive(p)', target[p] = target[r]
          PROVE  target[r] \in contested' \cup stuck'
      <4>1. CASE p = q
        BY <2>8, <3>2, <4>1
      <4>2. CASE p # q
        BY <2>3, <2>4, <2>10, <3>1, <3>2, <4>2 DEF OthersStay, AuxKept
      <4> QED BY <4>1, <4>2
    <3> QED BY <2>2, <2>4, <3>1, <3>2 DEF Grows, AuxKept
  <2>13. OneReplacementEach' /\ RestartsWhatWasChosen'
    BY <2>2, <2>4, LaunchedKept DEF Before
  <2> QED BY <2>5, <2>6, <2>7, <2>11, <2>12, <2>13 DEF RelaunchInv
<1> QED BY <1>1, <1>2 DEF Terminate

-----------------------------------------------------------------------------
\* A new process has a pid that names nobody.
LEMMA SupersededStarts ==
    ASSUME RelaunchTypeOK, Superseded, HandlesFall, NEW p \in FreePid,
           NEW exe \in Exe, Start(p, exe)
    PROVE  Superseded'
<1>1. /\ Grows
      /\ DOMAIN processes' = DOMAIN processes \cup {Len(processes) + 1}
      /\ processes'[Len(processes) + 1].pid = p
      /\ \A j \in DOMAIN processes : processes'[j] = processes[j]
  BY Starts DEF RelaunchTypeOK, FreePid
<1>2. DOMAIN processes = 1 .. Len(processes) /\ Len(processes) \in Nat
  BY SeqFacts DEF RelaunchTypeOK
<1> SUFFICES ASSUME NEW i \in DOMAIN processes', NEW j \in DOMAIN processes',
                    i < j, SamePid(i, j)'
             PROVE  processes'[i].state = "gone" /\ ~HandleOpen(i)'
  BY DEF Superseded
<1>3. i \in DOMAIN processes
  BY <1>1, <1>2
<1>4. processes[i].state = "gone" /\ ~HandleOpen(i)
  <2>1. CASE j \in DOMAIN processes
    BY <1>1, <1>3, <2>1 DEF Superseded, SamePid
  <2>2. CASE j = Len(processes) + 1
    <3>1. processes[i].pid = p
      BY <1>1, <1>3, <2>2 DEF SamePid
    <3> QED BY <1>3, <3>1 DEF FreePid, Named
  <2> QED BY <1>1, <2>1, <2>2
<1> QED BY <1>1, <1>3, <1>4 DEF HandlesFall

LEMMA LaunchStep ==
    ASSUME Before, NEW q \in Relauncher, Launch(q)
    PROVE  RelaunchInv'
<1>1. CASE GiveUp(q)
  <2>1. todo' \in [Relauncher -> SUBSET DOMAIN processes]
    BY DEF Before, RelaunchTypeOK, Launch
  <2> QED BY <1>1, <2>1, GiveUpStep
<1>2. ASSUME NEW p \in FreePid, Start(p, path[q]), Return(q),
             UNCHANGED <<path, contested, stuck>>,
             launched' = launched \cup
                 {[chosen |-> current[q], old |-> target[q],
                   new |-> Len(processes) + 1]}
      PROVE  RelaunchInv'
  <2> DEFINE n == Len(processes) + 1
             t == target[q]
             c == current[q]
             new == [chosen |-> c, old |-> t, new |-> n]
  <2>1. /\ stage[q] = "launch" /\ Alive(q)
        /\ t \in DOMAIN processes /\ path[q] \in Exe /\ c \in DOMAIN processes
    BY DEF Before, LookedUp, Launch, At
  <2>2. /\ Grows
        /\ DOMAIN processes' = DOMAIN processes \cup {n}
        /\ n \notin DOMAIN processes
        /\ \A j \in DOMAIN processes : processes'[j] = processes[j]
        /\ processes'[n].exe = path[q]
    BY <1>2, <2>1, Starts DEF Before, RelaunchTypeOK, FreePid
  <2>3. OthersStay(q) /\ stage'[q] = "choose"
    BY <1>2 DEF Before, RelaunchTypeOK, Return, Goto, OthersStay
  <2>4. RelaunchTypeOK'
    <3> HIDE DEF n
    <3>1. new \in [chosen : DOMAIN processes', old : DOMAIN processes',
                   new : DOMAIN processes']
      BY <2>1, <2>2
    <3>2. launched' = launched \cup {new}
      BY <1>2 DEF n
    <3>3. launched' \subseteq [chosen : DOMAIN processes', old : DOMAIN processes',
                              new : DOMAIN processes']
      BY <2>2, <3>1, <3>2 DEF Before, RelaunchTypeOK
    <3> QED BY <1>2, <2>2, <3>3 DEF Before, RelaunchTypeOK, Return, Goto, Launch,
                                    Grows
  <2>5. Superseded'
    <3>1. HandlesFall
      BY <2>2, <2>3, HandlesOfOthers DEF Before
    <3> QED BY <1>2, <2>1, <3>1, SupersededStarts DEF Before
  <2>6. \A r \in Relauncher : LookedUp(r)'
    <3>1. LookedUp(q)'
      BY <2>3 DEF LookedUp
    <3> QED BY <2>2, <2>3, <3>1, OthersLookedUp
  <2>7. Stopped(q)'
    BY <2>3 DEF Stopped
  <2>8. \A r \in Relauncher : Alive(r)' => Alive(r)
    BY <2>2, AliveFalls DEF Before
  <2>9. ASSUME NEW r \in Relauncher \ {q} PROVE Stopped(r)'
    <3> SUFFICES ASSUME stage[r] \in {"wait", "launch"}, Alive(r)
                 PROVE  /\ processes'[target[r]].state # "live"
                        /\ stage[r] = "launch" =>
                              \/ processes'[target[r]].state = "gone"
                              \/ target[r] \in stuck
                        /\ \A l \in launched' : l.old = target[r] =>
                              target[r] \in contested \cup stuck
                        /\ \A p2 \in Relauncher \ {r} :
                              stage'[p2] \in {"wait", "launch"} /\ Alive(p2)'
                                  /\ target'[p2] = target[r] =>
                                      target[r] \in contested \cup stuck
      BY <1>2, <2>3, <2>8 DEF Stopped, OthersStay
    <3>1. /\ target[r] \in DOMAIN processes
          /\ processes[target[r]].state # "live"
          /\ stage[r] = "launch" =>
                processes[target[r]].state = "gone" \/ target[r] \in stuck
          /\ \A l \in launched :
                l.old = target[r] => target[r] \in contested \cup stuck
          /\ \A p2 \in Relauncher \ {r} :
                stage[p2] \in {"wait", "launch"} /\ Alive(p2)
                    /\ target[p2] = target[r] =>
                        target[r] \in contested \cup stuck
      BY DEF Before, Stopped, LookedUp
    <3>2. t = target[r] => t \in contested \cup stuck
      BY <2>1, <3>1
    <3>3. \A l \in launched' :
             l.old = target[r] => target[r] \in contested \cup stuck
      BY <1>2, <3>1, <3>2
    <3>4. \A p2 \in Relauncher \ {r} :
             stage'[p2] \in {"wait", "launch"} /\ Alive(p2)'
                 /\ target'[p2] = target[r] =>
                     target[r] \in contested \cup stuck
      BY <2>3, <2>8, <3>1 DEF OthersStay
    <3> QED BY <2>2, <3>1, <3>3, <3>4
  <2>10. OneReplacementEach'
    <3>1. /\ processes[t].state # "live"
          /\ processes[t].state = "gone" \/ t \in stuck
          /\ \A l \in launched : l.old = t => t \in contested \cup stuck
      BY <2>1 DEF Before, Stopped
    <3>2. \A l \in launched : l.old \in DOMAIN processes
      BY DEF Before, RelaunchTypeOK
    <3>3. launched' = launched \cup {new} /\ new.old = t
      BY <1>2
    <3> HIDE DEF new, t
    <3>4. \A a \in launched' :
             /\ processes'[a.old].state = "gone" \/ a.old \in stuck
             /\ processes'[a.old].state # "live"
      BY <2>1, <2>2, <3>1, <3>2, <3>3 DEF Before, OneReplacementEach
    <3>5. \A a, b \in launched' :
             a.old = b.old => a = b \/ a.old \in contested \cup stuck
      BY <3>1, <3>3 DEF Before, OneReplacementEach
    <3> QED BY <1>2, <3>4, <3>5 DEF OneReplacementEach
  <2>11. RestartsWhatWasChosen'
    <3> SUFFICES ASSUME NEW l \in launched'
                 PROVE  \E i \in l.chosen .. l.old :
                           /\ processes'[i].pid = processes'[l.chosen].pid
                           /\ processes'[i].pid = processes'[l.old].pid
                           /\ processes'[l.new].exe = processes'[i].exe
      BY DEF RestartsWhatWasChosen
    <3>1. DOMAIN processes = 1 .. Len(processes) /\ Len(processes) \in Nat
      BY SeqFacts DEF Before, RelaunchTypeOK
    <3>2. CASE l \in launched
      <4>1. /\ l.chosen \in DOMAIN processes /\ l.old \in DOMAIN processes
            /\ l.new \in DOMAIN processes
        BY <3>2 DEF Before, RelaunchTypeOK
      <4>2. PICK i \in l.chosen .. l.old :
                /\ processes[i].pid = processes[l.chosen].pid
                /\ processes[i].pid = processes[l.old].pid
                /\ processes[l.new].exe = processes[i].exe
        BY <3>2 DEF Before, RestartsWhatWasChosen
      <4>3. i \in DOMAIN processes
        BY <3>1, <4>1, <4>2
      <4> QED BY <2>2, <4>1, <4>2, <4>3
    <3>3. CASE l = new
      <4>1. l.old = t /\ l.chosen = c /\ l.new = n
        BY <3>3
      <4> HIDE DEF new, n, t, c
      <4>2. PICK i \in DOMAIN processes :
                /\ c <= i /\ i <= t /\ SamePid(i, c) /\ SamePid(i, t)
                /\ path[q] = processes[i].exe
        BY <2>1 DEF Before, LookedUp, PathSince, c, t
      <4>3. i \in l.chosen .. l.old
        BY <2>1, <3>1, <4>1, <4>2
      <4> QED BY <2>1, <2>2, <4>1, <4>2, <4>3 DEF SamePid
    <3> QED BY <1>2, <3>2, <3>3
  <2> QED BY <2>4, <2>5, <2>6, <2>7, <2>9, <2>10, <2>11 DEF RelaunchInv
<1> QED BY <1>1, <1>2 DEF Launch

-----------------------------------------------------------------------------
\* What happens on its own changes nothing of a call.
LEMMA Elsewhere ==
    ASSUME Before, Grows, UNCHANGED <<callVars, auxVars>>, HandlesFall => Superseded'
    PROVE  RelaunchInv'
<1>1. UNCHANGED <<stage, todo, current, path, target, launched, contested, stuck>>
      /\ AuxKept
  BY DEF callVars, auxVars, AuxKept
<1>2. RelaunchTypeOK'
  BY <1>1 DEF Before, RelaunchTypeOK, Grows
<1>3. HandlesFall
  BY <1>1, AliveFalls DEF Before, HandlesFall, HandleOpen
<1>4. ASSUME NEW r \in Relauncher PROVE LookedUp(r)' /\ Stopped(r)'
  <2>1. LookedUp(r)'
    BY <1>1, LookedUpKept DEF Before
  <2>2. OthersStay(r)
    BY <1>1 DEF OthersStay
  <2>3. Stopped(r)'
    BY <1>1, <2>2, StoppedKept DEF Before
  <2> QED BY <2>1, <2>3
<1>5. OneReplacementEach' /\ RestartsWhatWasChosen'
  BY <1>1, LaunchedKept DEF Before
<1> QED BY <1>2, <1>3, <1>4, <1>5 DEF RelaunchInv

LEMMA ChangeStep ==
    ASSUME Before, NEW i \in DOMAIN processes, Exit(i) \/ Vanish(i)
    PROVE  RelaunchInv'
<1>1. /\ UNCHANGED <<callVars, auxVars>>
      /\ processes[i].state # "gone"
      /\ \E s \in {"dying", "gone"} :
            processes' = [processes EXCEPT ![i].state = s]
  BY DEF Exit, Vanish
<1>2. Grows /\ DOMAIN processes' = DOMAIN processes
  BY <1>1, StateChanges DEF Before, RelaunchTypeOK
<1>3. HandlesFall => Superseded'
  BY <1>2, SupersededKept DEF Before
<1> QED BY <1>1, <1>2, <1>3, Elsewhere

LEMMA StartStep ==
    ASSUME Before, NEW p \in FreePid, NEW exe \in Exe, StartElsewhere(p, exe)
    PROVE  RelaunchInv'
<1>1. Start(p, exe) /\ UNCHANGED <<callVars, auxVars>>
  BY DEF StartElsewhere
<1>2. Grows
  BY <1>1, Starts DEF Before, RelaunchTypeOK, FreePid
<1>3. HandlesFall => Superseded'
  BY <1>1, SupersededStarts DEF Before
<1> QED BY <1>1, <1>2, <1>3, Elsewhere

LEMMA StutterStep ==
    ASSUME Before, UNCHANGED vars
    PROVE  RelaunchInv'
<1>1. processes' = processes /\ UNCHANGED <<callVars, auxVars>>
  BY DEF vars
<1>2. Grows /\ DOMAIN processes' = DOMAIN processes
  BY <1>1, ProcessesStay DEF Before
<1>3. HandlesFall => Superseded'
  BY <1>2, SupersededKept DEF Before
<1> QED BY <1>1, <1>2, <1>3, Elsewhere

LEMMA StepInv == RelaunchInv /\ [Next]_vars => RelaunchInv'
<1> SUFFICES ASSUME RelaunchInv, [Next]_vars PROVE RelaunchInv'
  OBVIOUS
<1>1. Before
  BY DEF Before, RelaunchInv
<1>2. ASSUME NEW r \in Relauncher, NEW i \in DOMAIN processes, RequestOne(r, i)
      PROVE  RelaunchInv'
  BY <1>1, <1>2, RequestStep DEF RequestOne
<1>3. ASSUME NEW r \in Relauncher, NEW visible \in SUBSET Live,
             RequestAll(r, visible)
      PROVE  RelaunchInv'
  <2>1. visible \ {Own[r]} \in SUBSET DOMAIN processes
    BY DEF Live
  <2> QED BY <1>1, <1>3, <2>1, RequestStep DEF RequestAll
<1>4. ASSUME NEW r \in Relauncher, Call(r) PROVE RelaunchInv'
  BY <1>1, <1>4, DoneStep, ReadPathStep, OpenStep, TerminateStep, WaitStep,
     LaunchStep DEF Call
<1>5. ASSUME NEW p \in FreePid, NEW exe \in Exe, StartElsewhere(p, exe)
      PROVE  RelaunchInv'
  BY <1>1, <1>5, StartStep
<1>6. ASSUME NEW i \in DOMAIN processes, Exit(i) \/ Vanish(i) PROVE RelaunchInv'
  BY <1>1, <1>6, ChangeStep
<1>7. CASE UNCHANGED vars
  BY <1>1, <1>7, StutterStep
<1> QED BY <1>2, <1>3, <1>4, <1>5, <1>6, <1>7 DEF Next

\* The invariant of relaunching: a pid names the last process that was given
\* it, a program reads and opens what has had the pid since the choice, and of the
\* calls that have stopped a process two are about the same one only if it was
\* stopped while it ran down, under the other's eyes or after a wait ran out.
THEOREM RelaunchInvariant == Spec => []RelaunchInv
BY InitInv, StepInv, PTL DEF Spec

\* However many programs relaunch one pid, none starts the executable while the
\* process runs, nor while it runs down within the five seconds, and two do so for
\* one process only if both stopped it while it ran down.
THEOREM OneReplacement == Spec => []OneReplacementEach
<1>1. RelaunchInv => OneReplacementEach
  BY DEF RelaunchInv
<1> QED BY <1>1, RelaunchInvariant, PTL

\* The process stopped and the executable started are of processes that have had
\* the pid since it was chosen, in this order: with a pid that does not change
\* hands, both are the chosen one's.
THEOREM RestartsTheChosen == Spec => []RestartsWhatWasChosen
<1>1. RelaunchInv => RestartsWhatWasChosen
  BY DEF RelaunchInv
<1> QED BY <1>1, RelaunchInvariant, PTL
=============================================================================
