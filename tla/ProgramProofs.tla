--------------------------- MODULE ProgramProofs ---------------------------
(***************************************************************************)
(* What holds of the terminal interface for every number of tasks and      *)
(* instances: a traced task that keeps its policy while a screen is put    *)
(* together is on it in one line, in its section and under its pid.        *)
(***************************************************************************)
EXTENDS Program, TableProofs, SequenceTheorems

----------------------------------------------------------------------------
(* Types. *)

\* The variables that the terminal thread uses, and where it is.
TerminalTypes ==
  /\ TableTypes
  /\ policy \in [Pids -> Policy]
  /\ metrics \in [Instances -> [lastRT : 0 .. MaxRT, WCRT : 0 .. MaxRT]]
  /\ tiPc \in {"none", "start", "lock", "scan", "columns", "refresh"}
  /\ section \in 1 .. 3 /\ at \in 0 .. MAX_TRACED_TASKS
  /\ row \in [pid : Pids \cup {NoPid}, lastRT : 0 .. MaxRT, WCRT : 0 .. MaxRT]
  /\ toRead \subseteq Columns
  /\ steady \subseteq Instances
  /\ tiPc = "columns" => at \in Instances
  /\ tiPc \in {"none", "start", "refresh"} => section = 1
  /\ main \in {"inputs", "init", "terminal"} => tiPc = "none"
  /\ tiPc \in {"none", "start"} => steady = {}

\* At the start no thread has run (Supervisor.c:29, main.c:13).
LEMMA InitTerminalTypes == Init => TerminalTypes
<1>1. SUFFICES ASSUME Init PROVE TerminalTypes
  OBVIOUS
<1>2. /\ TableInit
      /\ metrics = [i \in Instances |-> [lastRT |-> 0, WCRT |-> 0]]
      /\ tiPc = "none" /\ section = 1 /\ at = 0 /\ row = NoRow /\ toRead = {} /\ steady = {}
  BY <1>1, Zenon DEF Init
<1>3. policy \in [Pids -> Policy]
  BY <1>1 DEF Init
<1>4. 0 \in Instances /\ 0 \in 0 .. MaxRT /\ 0 \in 0 .. MAX_TRACED_TASKS /\ 1 \in 1 .. 3
  BY ProgramAssumption, TableAssumption DEF Instances
<1>5. QED
  BY <1>2, <1>3, <1>4, InitTable DEF TerminalTypes, NoRow

\* The pass over the arguments (UserInputs.c:17-41) touches nothing but its place,
\* the switch and where main is.
LEMMA ReadingFacts ==
  ASSUME UserInputs_read
  PROVE  /\ main = "inputs" /\ main' \in {"inputs", "refused", "init"}
         /\ UNCHANGED <<argv, tableVars, policy, monVars, tiVars, steady, jobs>>
<1>1. CASE ReadLog
  BY <1>1 DEF ReadLog, ReadArgument
<1>2. CASE ReadHelp
  BY <1>2 DEF ReadHelp, ReadArgument
<1>3. CASE ReadOther
  BY <1>3 DEF ReadOther, ReadArgument
<1>4. CASE ReadEnd
  BY <1>4 DEF ReadEnd, inputVars
<1>5. QED
  BY <1>1, <1>2, <1>3, <1>4 DEF UserInputs_read

\* Of the table the program does what module Table says, and in one run of the
\* process no restart.
LEMMA TableUsed ==
  ASSUME [Next]_vars
  PROVE  (\E p \in Pids : Reserve(p)) \/ SetPid \/ UNCHANGED tableVars
<1>1. CASE UserInputs_read
  BY <1>1, ReadingFacts
<1>2. CASE InitSupervisor \/ StartTerminal
  BY <1>2 DEF InitSupervisor, StartTerminal
<1>3. CASE \E p \in Pids : CheckReserve(p)
  BY <1>3 DEF CheckReserve
<1>4. CASE CheckSetPid
  BY <1>4 DEF CheckSetPid
<1>5. CASE \E i \in Instances : HandleTelegram(i) \/ UpdateWorst(i)
  BY <1>5 DEF HandleTelegram, UpdateWorst
<1>6. CASE \E p \in Pids : SetPolicy(p)
  BY <1>6 DEF SetPolicy
<1>7. CASE Terminal
  BY <1>7 DEF Terminal, TiLock, TiScan, TiColumn, TiUnlock, TiClear
<1>8. CASE UNCHANGED vars
  BY <1>8 DEF vars
<1>9. QED
  BY <1>1, <1>2, <1>3, <1>4, <1>5, <1>6, <1>7, <1>8 DEF Next

\* The program around the terminal thread keeps to the table that the whole of the
\* supervisor implements: what holds of that holds here.
THEOREM ProgramUsesTable == Spec => TableSpec
<1>1. Init => TableInit
  BY DEF Init
<1>2. [Next]_vars => [TableNext]_tableVars
  BY TableUsed DEF TableNext
<1>3. QED
  BY <1>1, <1>2, PTL DEF Spec, TableSpec

\* So every task is in one instance at most.
LEMMA ProgramOneInstance == Spec => []OneInstance
BY ProgramUsesTable, TableOneInstance, PTL

\* One step of any thread keeps them.
LEMMA TerminalTypesStep ==
  ASSUME TerminalTypes, OneInstance, [Next]_vars
  PROVE  TerminalTypes'
<1>0. TableTypes /\ TableTypes'
  BY TableUsed, TableStep DEF TerminalTypes, TableNext
<1> USE <1>0
<1> USE ProgramAssumption, TableAssumption DEF TerminalTypes, Instances, Columns, NoRow
<1> USE DEF tableVars, monVars, tiVars
<1>1. CASE UserInputs_read
  BY <1>1, ReadingFacts
<1>2. CASE InitSupervisor
  BY <1>2 DEF InitSupervisor
<1>3. CASE StartTerminal
  BY <1>3 DEF StartTerminal
<1>4. ASSUME NEW p \in Pids, CheckReserve(p)
      PROVE  TerminalTypes'
  BY <1>4 DEF CheckReserve
<1>5. CASE CheckSetPid
  BY <1>5 DEF CheckSetPid
<1>6. ASSUME NEW i \in Instances, HandleTelegram(i)
      PROVE  TerminalTypes'
  <2>1. metrics' \in [Instances -> [lastRT : 0 .. MaxRT, WCRT : 0 .. MaxRT]]
    <3>1. PICK rt \in 1 .. MaxRT : metrics' = [metrics EXCEPT ![i].lastRT = rt]
      BY <1>6 DEF HandleTelegram
    <3>2. rt \in 0 .. MaxRT
      OBVIOUS
    <3>3. QED
      BY <3>1, <3>2
  <2>2. UNCHANGED <<main, tableVars, policy, tiVars, steady>>
    BY <1>6 DEF HandleTelegram
  <2>3. QED
    BY <2>1, <2>2
<1>7. ASSUME NEW i \in Instances, UpdateWorst(i)
      PROVE  TerminalTypes'
  <2>1. metrics' \in [Instances -> [lastRT : 0 .. MaxRT, WCRT : 0 .. MaxRT]]
    BY <1>7, SMTT(30) DEF UpdateWorst
  <2>2. UNCHANGED <<main, tableVars, policy, tiVars, steady>>
    BY <1>7 DEF UpdateWorst
  <2>3. QED
    BY <2>1, <2>2
<1>8. ASSUME NEW p \in Pids, SetPolicy(p)
      PROVE  TerminalTypes'
  <2>1. policy' \in [Pids -> Policy] /\ steady' \subseteq steady
    BY <1>8 DEF SetPolicy
  <2>2. UNCHANGED <<main, tableVars, monVars, tiVars>>
    BY <1>8 DEF SetPolicy
  <2>3. QED
    BY <2>1, <2>2
<1>9. CASE TiLock
  BY <1>9 DEF TiLock
<1>10. CASE TiScan
  <2>1. /\ tiPc = "scan" /\ at < MAX_TRACED_TASKS
        /\ UNCHANGED <<main, tableVars, policy, monVars, section, row, steady>>
    BY <1>10 DEF TiScan
  <2>2. \/ tiPc' = "columns" /\ toRead' = Columns /\ at' = at
        \/ tiPc' = "scan" /\ toRead' = toRead /\ at' = at + 1
    BY <1>10 DEF TiScan
  <2>3. at \in Instances /\ at + 1 \in 0 .. MAX_TRACED_TASKS
    <3>1. at \in 0 .. MAX_TRACED_TASKS /\ MAX_TRACED_TASKS \in Nat
      OBVIOUS
    <3>2. QED
      BY <2>1, <3>1
  <2> HIDE DEF Instances, Columns
  <2>4. QED
    BY <2>1, <2>2, <2>3
<1>11. ASSUME NEW c \in Columns, TiColumn(c)
       PROVE  TerminalTypes'
  <2>1. /\ tiPc = "columns" /\ toRead' = toRead \ {c} /\ at \in Instances
        /\ UNCHANGED <<main, tableVars, policy, metrics, section, steady>>
    BY <1>11 DEF TiColumn
  <2>2. row' \in [pid : Pids \cup {NoPid}, lastRT : 0 .. MaxRT, WCRT : 0 .. MaxRT]
    <3>1. row' = NoRow
             \/ row' = [row EXCEPT ![c] = IF c = "pid" THEN monitorPid[at] ELSE metrics[at][c]]
      BY <1>11 DEF TiColumn
    <3>2. monitorPid[at] \in Pids \cup {NoPid} /\ metrics[at] \in [lastRT : 0 .. MaxRT, WCRT : 0 .. MaxRT]
      BY <2>1 DEF TableTypes
    <3>3. NoRow \in [pid : Pids \cup {NoPid}, lastRT : 0 .. MaxRT, WCRT : 0 .. MaxRT]
      OBVIOUS
    <3>4. CASE c = "pid"
      BY <3>1, <3>2, <3>3, <3>4
    <3>5. CASE c = "lastRT"
      <4>1. metrics[at].lastRT \in 0 .. MaxRT
        BY <3>2
      <4>2. QED
        BY <3>1, <3>3, <3>5, <4>1
    <3>6. CASE c = "WCRT"
      <4>1. metrics[at].WCRT \in 0 .. MaxRT
        BY <3>2
      <4>2. QED
        BY <3>1, <3>3, <3>6, <4>1
    <3>7. QED
      BY <3>4, <3>5, <3>6 DEF Columns
  <2>3. \/ at' = at + 1 /\ tiPc' = "scan"
        \/ at' = at /\ tiPc' = tiPc
    BY <1>11 DEF TiColumn
  <2>4. at \in 0 .. MAX_TRACED_TASKS /\ at + 1 \in 0 .. MAX_TRACED_TASKS
    BY <2>1
  <2> HIDE DEF Instances, Columns
  <2>5. QED
    BY <2>1, <2>2, <2>3, <2>4
<1>12. CASE TiUnlock
  <2>1. /\ \/ section < 3 /\ tiPc' = "lock" /\ section' = section + 1
           \/ tiPc' = "refresh" /\ section' = 1
        /\ tiPc = "scan"
        /\ UNCHANGED <<main, tableVars, policy, monVars, at, row, toRead, steady>>
    BY <1>12 DEF TiUnlock
  <2>2. section' \in 1 .. 3
    BY <2>1
  <2> HIDE DEF Instances, Columns
  <2>3. QED
    BY <2>1, <2>2
<1>13. CASE TiClear
  BY <1>13 DEF TiClear
<1>14. CASE UNCHANGED vars
  BY <1>14 DEF vars
<1>15. QED
  BY <1>1, <1>2, <1>3, <1>4, <1>5, <1>6, <1>7, <1>8, <1>9, <1>10, <1>11, <1>12,
     <1>13, <1>14 DEF Next, Terminal

----------------------------------------------------------------------------
(* What is steady. *)

\* What is steady has its pid: no write hits an instance that is being shown.
SteadyTraced == \A i \in steady : isTaskBeingTraced[i] /\ monitorPid[i] \in Pids

\* Nobody takes the pid of a steady instance away (Supervisor.c:169).
LEMMA SteadyStep ==
  ASSUME TerminalTypes, OneInstance, SteadyTraced, [Next]_vars
  PROVE  SteadyTraced'
<1>1. TableTypes /\ steady \subseteq Instances
  BY DEF TerminalTypes
<1>2. \A i \in steady : isTaskBeingTraced'[i] /\ monitorPid'[i] \in Pids
  BY <1>1, TableUsed, PidStays, TableAssumption DEF SteadyTraced
<1>3. CASE TiClear
  BY <1>1, <1>3 DEF TiClear, tableVars, TableTypes, SteadyTraced
<1>4. CASE ~TiClear
  <2>1. steady' \subseteq steady
    <3>1. CASE UserInputs_read
      BY <3>1, ReadingFacts
    <3>2. CASE InitSupervisor \/ StartTerminal
      BY <3>2 DEF InitSupervisor, StartTerminal
    <3>3. CASE \E p \in Pids : CheckReserve(p) \/ SetPolicy(p)
      BY <3>3 DEF CheckReserve, SetPolicy
    <3>4. CASE CheckSetPid
      BY <3>4 DEF CheckSetPid
    <3>5. CASE \E i \in Instances : HandleTelegram(i) \/ UpdateWorst(i)
      BY <3>5 DEF HandleTelegram, UpdateWorst
    <3>6. CASE Terminal
      BY <1>4, <3>6 DEF Terminal, TiLock, TiScan, TiColumn, TiUnlock
    <3>7. CASE UNCHANGED vars
      BY <3>7 DEF vars
    <3>8. QED
      BY <3>1, <3>2, <3>3, <3>4, <3>5, <3>6, <3>7 DEF Next
  <2>2. QED
    BY <1>2, <2>1 DEF SteadyTraced
<1>5. QED
  BY <1>3, <1>4

----------------------------------------------------------------------------
(* The lines. *)

\* Every policy is shown in one of the three sections (TerminalInterface.c:60-125),
\* and in one alone.
LEMMA OneSection ==
  ASSUME NEW q \in Policy
  PROVE  /\ \E s \in 1 .. 3 : q \in SectionPolicies(s)
         /\ \A s, t \in 1 .. 3 : q \in SectionPolicies(s) /\ q \in SectionPolicies(t) => s = t
BY DEF Policy, SectionPolicies

\* The terminal thread has looked at instance i in section s of this screen.
Passed(s, i) ==
  \/ tiPc = "refresh"
  \/ s < section
  \/ s = section /\ tiPc \in {"scan", "columns"} /\ i < at

\* The only line of instance i, in section s.
OnlyLine(i, s) ==
  \E l \in lines :
    /\ l.instance = i /\ l.section = s /\ l.pid = monitorPid[i]
    /\ \A k \in lines : k.instance = i => k = l

\* A steady task has its line once its section has been passed, and none before;
\* a line that is put together for one has its pid.
Lines ==
  /\ \A i \in steady, s \in 1 .. 3 :
       policy[monitorPid[i]] \in SectionPolicies(s) =>
         IF Passed(s, i) THEN OnlyLine(i, s) ELSE \A k \in lines : k.instance # i
  /\ tiPc = "columns" /\ at \in steady =>
       /\ policy[monitorPid[at]] \in SectionPolicies(section)
       /\ "pid" \notin toRead => row.pid = monitorPid[at]

\* What is not the terminal thread's own changes neither lines nor what a steady
\* task is shown by.
LEMMA LinesOutside ==
  ASSUME Lines, UNCHANGED tiVars, steady' \subseteq steady,
         \A i \in steady' : /\ monitorPid'[i] = monitorPid[i]
                            /\ policy'[monitorPid'[i]] = policy[monitorPid[i]]
  PROVE  Lines'
BY DEF Lines, Passed, OnlyLine, tiVars

\* The end of a line is the step past its instance.
LEMMA LinesColumn ==
  ASSUME TerminalTypes, OneInstance, SteadyTraced, Lines, NEW c \in Columns, TiColumn(c)
  PROVE  Lines'
<1> USE DEF TerminalTypes
<1>1. /\ tiPc = "columns" /\ at \in Instances /\ c \in toRead /\ toRead' = toRead \ {c}
      /\ UNCHANGED <<monitorPid, policy, section, steady>>
  BY DEF TiColumn, tableVars
<1> DEFINE r == [row EXCEPT ![c] = IF c = "pid" THEN monitorPid[at] ELSE metrics[at][c]]
           new == [instance |-> at, section |-> section,
                   pid |-> r.pid, lastRT |-> r.lastRT, WCRT |-> r.WCRT]
<1>2. r.pid = IF c = "pid" THEN monitorPid[at] ELSE row.pid
  BY DEF Columns
<1>3. CASE toRead # {c}
  <2>1. row' = r /\ UNCHANGED <<lines, at, tiPc>>
    BY <1>3 DEF TiColumn
  <2> HIDE DEF r
  <2>2. ASSUME at \in steady, "pid" \notin toRead'
        PROVE  row'.pid = monitorPid[at]
    <3>1. CASE c = "pid"
      BY <1>2, <2>1, <3>1
    <3>2. CASE c # "pid"
      BY <1>1, <1>2, <2>1, <2>2, <3>2 DEF Lines
    <3>3. QED
      BY <3>1, <3>2
  <2>3. \A i \in steady, s \in 1 .. 3 :
          (Passed(s, i)' <=> Passed(s, i)) /\ (OnlyLine(i, s)' <=> OnlyLine(i, s))
    BY <1>1, <2>1 DEF Passed, OnlyLine
  <2>4. QED
    BY <1>1, <2>1, <2>2, <2>3 DEF Lines
<1>4. CASE toRead = {c}
  <2>1. lines' = lines \cup {new} /\ at' = at + 1 /\ tiPc' = "scan"
    BY <1>4 DEF TiColumn
  <2>2. new.instance = at /\ new.section = section /\ new.pid = r.pid
    OBVIOUS
  <2>3. at \in steady => r.pid = monitorPid[at]
    <3> HIDE DEF r
    <3>1. QED
      BY <1>1, <1>2, <1>4 DEF Lines
  <2> HIDE DEF new, r
  <2>4. at \in Nat
    BY <1>1, ProgramAssumption, TableAssumption DEF Instances
  <2>5. ASSUME NEW i \in steady, NEW s \in 1 .. 3, policy[monitorPid[i]] \in SectionPolicies(s)
        PROVE  IF Passed(s, i)' THEN OnlyLine(i, s)' ELSE \A k \in lines' : k.instance # i
    <3>1. CASE i = at
      <4>1. s = section
        <5>1. policy[monitorPid[i]] \in Policy
          BY DEF SteadyTraced, TableTypes
        <5>2. policy[monitorPid[i]] \in SectionPolicies(section)
          BY <1>1, <3>1 DEF Lines
        <5>3. QED
          BY <2>5, <5>1, <5>2, OneSection
      <4>2. ~Passed(s, i)
        BY <1>1, <2>4, <3>1, <4>1 DEF Passed
      <4>3. \A k \in lines : k.instance # i
        BY <2>5, <4>2 DEF Lines
      <4>4. OnlyLine(i, s)'
        BY <1>1, <2>1, <2>2, <2>3, <3>1, <4>1, <4>3 DEF OnlyLine
      <4>5. Passed(s, i)'
        BY <1>1, <2>1, <2>4, <3>1, <4>1 DEF Passed
      <4>6. QED
        BY <4>4, <4>5
    <3>2. CASE i # at
      <4>1. i \in Nat
        BY ProgramAssumption, TableAssumption DEF Instances
      <4>2. Passed(s, i)' <=> Passed(s, i)
        BY <1>1, <2>1, <2>4, <3>2, <4>1 DEF Passed
      <4>3. OnlyLine(i, s) => OnlyLine(i, s)'
        BY <1>1, <2>1, <2>2, <3>2 DEF OnlyLine
      <4>4. (\A k \in lines : k.instance # i) => (\A k \in lines' : k.instance # i)
        BY <2>1, <2>2, <3>2
      <4>5. QED
        BY <2>5, <4>2, <4>3, <4>4 DEF Lines
    <3>3. QED
      BY <3>1, <3>2
  <2>6. QED
    BY <1>1, <2>1, <2>5 DEF Lines
<1>5. QED
  BY <1>3, <1>4

\* One step of any thread keeps the lines right.
LEMMA LinesStep ==
  ASSUME TerminalTypes, OneInstance, SteadyTraced, Lines, [Next]_vars
  PROVE  Lines'
<1>1. CASE UserInputs_read
  BY <1>1, ReadingFacts, LinesOutside DEF tableVars
<1>2. CASE InitSupervisor
  BY <1>2, LinesOutside DEF InitSupervisor, tableVars
<1>3. CASE StartTerminal
  BY <1>3 DEF StartTerminal, TerminalTypes, Lines
<1>4. ASSUME NEW p \in Pids, CheckReserve(p)
      PROVE  Lines'
  BY <1>4, LinesOutside DEF CheckReserve, Reserve
<1>5. CASE CheckSetPid
  <2>1. UNCHANGED <<tiVars, policy, steady>>
    BY <1>5 DEF CheckSetPid
  <2>2. \A i \in steady : i \in Instances /\ monitorPid[i] # NoPid
    BY TableAssumption DEF SteadyTraced, TerminalTypes
  <2>3. \A i \in steady : monitorPid'[i] = monitorPid[i]
    BY <2>2, TableUsed, PidStays DEF TerminalTypes
  <2>4. QED
    BY <2>1, <2>3, LinesOutside
<1>6. ASSUME NEW i \in Instances, HandleTelegram(i)
      PROVE  Lines'
  BY <1>6, LinesOutside DEF HandleTelegram, tableVars
<1>7. ASSUME NEW i \in Instances, UpdateWorst(i)
      PROVE  Lines'
  BY <1>7, LinesOutside DEF UpdateWorst, tableVars
<1>8. ASSUME NEW p \in Pids, SetPolicy(p)
      PROVE  Lines'
  <2>1. /\ UNCHANGED <<tiVars, monitorPid>>
        /\ \E q \in Policy : policy' = [policy EXCEPT ![p] = q]
        /\ steady' = {i \in steady : monitorPid[i] # p}
    BY <1>8 DEF SetPolicy, tableVars
  <2>2. \A i \in steady' : policy'[monitorPid'[i]] = policy[monitorPid[i]]
    BY <2>1 DEF TerminalTypes, TableTypes, SteadyTraced
  <2>3. QED
    BY <2>1, <2>2, LinesOutside
<1>9. CASE TiLock
  <2>1. /\ tiPc = "lock" /\ tiPc' = "scan" /\ at' = 0
        /\ UNCHANGED <<monitorPid, policy, section, lines, steady>>
    BY <1>9 DEF TiLock, tableVars
  <2>2. \A i \in steady : i \in Nat
    BY ProgramAssumption, TableAssumption DEF TerminalTypes, Instances
  <2>3. \A i \in steady, s \in 1 .. 3 : Passed(s, i)' <=> Passed(s, i)
    BY <2>1, <2>2 DEF Passed, TerminalTypes
  <2>4. \A i \in steady, s \in 1 .. 3 : OnlyLine(i, s)' <=> OnlyLine(i, s)
    BY <2>1 DEF OnlyLine
  <2>5. QED
    BY <2>1, <2>3, <2>4 DEF Lines
<1>10. CASE TiScan
  <2>1. /\ tiPc = "scan" /\ at < MAX_TRACED_TASKS
        /\ UNCHANGED <<monitorPid, policy, section, lines, steady>>
    BY <1>10 DEF TiScan, tableVars
  <2>2. at \in Instances /\ at \in Nat
    BY <2>1, ProgramAssumption, TableAssumption DEF TerminalTypes, Instances
  <2>3. \A i \in steady, s \in 1 .. 3 : OnlyLine(i, s)' <=> OnlyLine(i, s)
    BY <2>1 DEF OnlyLine
  <2>4. at \in steady =>
          PID_getSchedulerPolicy(monitorPid[at]) = policy[monitorPid[at]] /\ isTaskBeingTraced[at]
    BY ProgramAssumption, TableAssumption DEF SteadyTraced, PID_getSchedulerPolicy
  <2>5. CASE tiPc' = "columns"
    <3>1. /\ PID_getSchedulerPolicy(monitorPid[at]) \in SectionPolicies(section)
          /\ toRead' = Columns /\ at' = at
      BY <1>10, <2>1, <2>5 DEF TiScan
    <3>2. \A i \in steady, s \in 1 .. 3 : Passed(s, i)' <=> Passed(s, i)
      BY <2>1, <2>5, <3>1 DEF Passed
    <3>3. QED
      BY <2>1, <2>3, <2>4, <2>5, <3>1, <3>2 DEF Lines, Columns
  <2>6. CASE tiPc' # "columns"
    <3>1. /\ ~(/\ isTaskBeingTraced[at]
               /\ PID_getSchedulerPolicy(monitorPid[at]) \in SectionPolicies(section))
          /\ at' = at + 1 /\ tiPc' = "scan"
      BY <1>10, <2>1, <2>6 DEF TiScan
    <3>2. ASSUME NEW i \in steady, NEW s \in 1 .. 3,
                 policy[monitorPid[i]] \in SectionPolicies(s)
          PROVE  Passed(s, i)' <=> Passed(s, i)
      <4>1. i \in Nat /\ section \in Nat
        BY ProgramAssumption, TableAssumption DEF TerminalTypes, Instances
      <4>2. ~(i = at /\ s = section)
        BY <2>4, <3>1, <3>2
      <4>3. QED
        BY <2>1, <2>2, <3>1, <4>1, <4>2 DEF Passed
    <3>3. QED
      BY <2>1, <2>3, <3>1, <3>2 DEF Lines
  <2>7. QED
    BY <2>5, <2>6
<1>11. ASSUME NEW c \in Columns, TiColumn(c)
       PROVE  Lines'
  BY <1>11, LinesColumn
<1>12. CASE TiUnlock
  <2>1. /\ tiPc = "scan" /\ at = MAX_TRACED_TASKS
        /\ UNCHANGED <<monitorPid, policy, lines, steady>>
        /\ \/ section < 3 /\ tiPc' = "lock" /\ section' = section + 1
           \/ ~(section < 3) /\ tiPc' = "refresh" /\ section' = 1
    BY <1>12 DEF TiUnlock, tableVars
  <2>2. section \in 1 .. 3 /\ \A i \in steady : i \in Nat /\ i < at
    BY <2>1, ProgramAssumption, TableAssumption DEF TerminalTypes, Instances
  <2>3. \A i \in steady, s \in 1 .. 3 : Passed(s, i)' <=> Passed(s, i)
    BY <2>1, <2>2 DEF Passed
  <2>4. \A i \in steady, s \in 1 .. 3 : OnlyLine(i, s)' <=> OnlyLine(i, s)
    BY <2>1 DEF OnlyLine
  <2>5. QED
    BY <2>1, <2>3, <2>4 DEF Lines
<1>13. CASE TiClear
  <2>1. tiPc' = "lock" /\ lines' = {} /\ section' = 1
    BY <1>13 DEF TiClear, TerminalTypes
  <2>2. \A i \in steady', s \in 1 .. 3 : ~Passed(s, i)'
    BY <2>1 DEF Passed
  <2>3. QED
    BY <2>1, <2>2 DEF Lines
<1>14. CASE UNCHANGED vars
  BY <1>14, LinesOutside DEF vars, tableVars
<1>15. QED
  BY <1>1, <1>2, <1>3, <1>4, <1>5, <1>6, <1>7, <1>8, <1>9, <1>10, <1>11, <1>12,
     <1>13, <1>14 DEF Next, Terminal

----------------------------------------------------------------------------
(* The pids on the screen. *)

\* A pid that is shown, or has been read for a line, is still the one of its
\* instance; a line of an instance whose pid was not there yet shows none.
PidsShown ==
  /\ \A l \in lines : /\ l.instance \in Instances
                      /\ l.pid # NoPid => l.pid = monitorPid[l.instance]
  /\ tiPc = "columns" /\ "pid" \notin toRead /\ row.pid # NoPid => row.pid = monitorPid[at]

\* What is not the terminal thread's own changes neither lines nor the pids they
\* show.
LEMMA PidsOutside ==
  ASSUME TerminalTypes, OneInstance, PidsShown, [Next]_vars, UNCHANGED tiVars
  PROVE  PidsShown'
<1>1. UNCHANGED <<tiPc, at, row, toRead, lines>>
  BY DEF tiVars
<1>2. ASSUME NEW i \in Instances, monitorPid[i] # NoPid
      PROVE  monitorPid'[i] = monitorPid[i]
  BY <1>2, TableUsed, PidStays DEF TerminalTypes
<1>3. tiPc = "columns" => at \in Instances
  BY DEF TerminalTypes
<1>4. QED
  BY <1>1, <1>2, <1>3 DEF PidsShown

\* One step keeps the pids that are shown right: the terminal thread reads one in
\* mvprintw (TerminalInterface.c:73) and it stays.
LEMMA PidsStep ==
  ASSUME TerminalTypes, OneInstance, PidsShown, [Next]_vars
  PROVE  PidsShown'
<1>1. CASE UserInputs_read
  BY <1>1, ReadingFacts, PidsOutside
<1>2. CASE InitSupervisor
  BY <1>2, PidsOutside DEF InitSupervisor
<1>3. CASE StartTerminal
  BY <1>3 DEF StartTerminal, tableVars, PidsShown
<1>4. CASE \E p \in Pids : CheckReserve(p) \/ SetPolicy(p)
  BY <1>4, PidsOutside DEF CheckReserve, SetPolicy
<1>5. CASE CheckSetPid
  BY <1>5, PidsOutside DEF CheckSetPid
<1>6. CASE \E i \in Instances : HandleTelegram(i) \/ UpdateWorst(i)
  BY <1>6, PidsOutside DEF HandleTelegram, UpdateWorst
<1>7. CASE TiLock \/ TiUnlock
  BY <1>7 DEF TiLock, TiUnlock, tableVars, PidsShown
<1>8. CASE TiScan
  <2>1. UNCHANGED <<monitorPid, lines, row>> /\ (tiPc' = "columns" => toRead' = Columns)
    BY <1>8 DEF TiScan, tableVars
  <2>2. QED
    BY <2>1 DEF PidsShown, Columns
<1>9. ASSUME NEW c \in Columns, TiColumn(c)
      PROVE  PidsShown'
  <2> DEFINE r == [row EXCEPT ![c] = IF c = "pid" THEN monitorPid[at] ELSE metrics[at][c]]
             l == [instance |-> at, section |-> section,
                   pid |-> r.pid, lastRT |-> r.lastRT, WCRT |-> r.WCRT]
  <2>1. /\ tiPc = "columns" /\ at \in Instances /\ c \in toRead /\ toRead' = toRead \ {c}
        /\ monitorPid' = monitorPid
    BY <1>9 DEF TiColumn, tableVars, TerminalTypes
  <2>2. r.pid = IF c = "pid" THEN monitorPid[at] ELSE row.pid
    BY DEF Columns, TerminalTypes
  <2>3. l.instance = at /\ l.pid = r.pid
    OBVIOUS
  <2>4. \/ toRead' # {} /\ row' = r /\ UNCHANGED <<lines, at, tiPc>>
        \/ toRead' = {} /\ lines' = lines \cup {l} /\ tiPc' = "scan"
    BY <1>9, <2>1 DEF TiColumn
  <2> HIDE DEF r, l
  <2>5. "pid" \notin toRead' /\ r.pid # NoPid => r.pid = monitorPid[at]
    BY <2>1, <2>2 DEF PidsShown
  <2>6. CASE toRead' # {} /\ row' = r /\ UNCHANGED <<lines, at, tiPc>>
    BY <2>1, <2>5, <2>6 DEF PidsShown
  <2>7. CASE toRead' = {} /\ lines' = lines \cup {l} /\ tiPc' = "scan"
    BY <2>1, <2>3, <2>5, <2>7 DEF PidsShown
  <2>8. QED
    BY <2>4, <2>6, <2>7
<1>10. CASE TiClear
  BY <1>10 DEF TiClear, PidsShown
<1>11. CASE UNCHANGED vars
  BY <1>11, PidsOutside DEF vars
<1>12. QED
  BY <1>1, <1>2, <1>3, <1>4, <1>5, <1>6, <1>7, <1>8, <1>9, <1>10, <1>11 DEF Next, Terminal

\* Although each section asks for the policy anew and the check thread writes
\* pids outside the mutex, a traced task that keeps its policy is on every screen
\* in one line, its own, and no other line shows its pid.
THEOREM ProgramShownOnce == Spec => []ShownOnce
<1>1. Init => TerminalTypes /\ SteadyTraced /\ Lines /\ PidsShown
  <2>1. SUFFICES ASSUME Init PROVE SteadyTraced /\ Lines /\ PidsShown
    BY InitTerminalTypes
  <2>2. tiPc = "none" /\ steady = {} /\ lines = {}
    BY <2>1, Zenon DEF Init
  <2>3. QED
    BY <2>2 DEF SteadyTraced, Lines, PidsShown
<1>2. TerminalTypes /\ OneInstance /\ SteadyTraced /\ Lines /\ PidsShown /\ [Next]_vars
        => TerminalTypes' /\ SteadyTraced' /\ Lines' /\ PidsShown'
  BY TerminalTypesStep, SteadyStep, LinesStep, PidsStep
<1>3. TerminalTypes /\ OneInstance /\ SteadyTraced /\ Lines /\ PidsShown => ShownOnce
  <2>1. SUFFICES ASSUME TerminalTypes, OneInstance, SteadyTraced, Lines, PidsShown,
                        tiPc = "refresh", NEW i \in steady
                 PROVE  \E l \in lines :
                          /\ l.pid = monitorPid[i] /\ policy[l.pid] \in SectionPolicies(l.section)
                          /\ \A k \in lines : k.instance = i \/ k.pid = l.pid => k = l
    BY DEF ShownOnce
  <2>2. i \in Instances /\ monitorPid[i] \in Pids /\ policy[monitorPid[i]] \in Policy
    BY <2>1 DEF TerminalTypes, SteadyTraced
  <2>3. PICK s \in 1 .. 3 : policy[monitorPid[i]] \in SectionPolicies(s)
    BY <2>2, OneSection
  <2>4. Passed(s, i)
    BY <2>1 DEF Passed
  <2>5. PICK l \in lines :
          /\ l.instance = i /\ l.section = s /\ l.pid = monitorPid[i]
          /\ \A k \in lines : k.instance = i => k = l
    BY <2>1, <2>3, <2>4, Zenon DEF Lines, OnlyLine
  <2>6. ASSUME NEW k \in lines, k.pid = monitorPid[i] PROVE k.instance = i
    <3>1. k.instance \in Instances /\ k.pid = monitorPid[k.instance]
      BY <2>1, <2>2, <2>6, TableAssumption DEF PidsShown
    <3>2. QED
      BY <2>1, <2>2, <2>6, <3>1 DEF OneInstance
  <2>7. QED
    BY <2>3, <2>5, <2>6
<1>4. QED
  BY <1>1, <1>2, <1>3, ProgramOneInstance, PTL DEF Spec

----------------------------------------------------------------------------
(* The command line. *)

\* The arguments and the place of the pass over them.
InputTypes ==
  /\ main \in {"inputs", "refused", "init", "exited", "terminal", "join"}
  /\ argv \in Seq(Arg) /\ Len(argv) <= MaxArgs
  /\ arg \in 1 .. Len(argv) + 1 /\ enableLogging \in BOOLEAN

\* The lists of arguments that TLC enumerates are the sequences up to the bound.
LEMMA ArgListsAreSequences ==
  ASSUME NEW a
  PROVE  a \in ArgLists <=> a \in Seq(Arg) /\ Len(a) <= MaxArgs
<1>1. ASSUME a \in ArgLists PROVE a \in Seq(Arg) /\ Len(a) <= MaxArgs
  <2>1. PICK n \in 0 .. MaxArgs : a \in [1 .. n -> Arg]
    BY <1>1 DEF ArgLists
  <2>2. n \in Nat /\ n <= MaxArgs
    BY <2>1, ProgramAssumption
  <2>3. QED
    BY <2>1, <2>2
<1>2. ASSUME a \in Seq(Arg), Len(a) <= MaxArgs PROVE a \in ArgLists
  <2>1. Len(a) \in 0 .. MaxArgs /\ a \in [1 .. Len(a) -> Arg]
    BY <1>2, LenProperties, ProgramAssumption
  <2>2. QED
    BY <2>1 DEF ArgLists
<1>3. QED
  BY <1>1, <1>2

\* At the start no argument has been read (UserInputs.c:17).
LEMMA InitInputTypes == Init => InputTypes
<1>1. SUFFICES ASSUME Init PROVE InputTypes
  OBVIOUS
<1>2. main = "inputs" /\ argv \in ArgLists /\ arg = 1 /\ enableLogging = FALSE
  BY <1>1 DEF Init
<1>3. argv \in Seq(Arg) /\ Len(argv) <= MaxArgs /\ Len(argv) \in Nat
  BY <1>2, ArgListsAreSequences
<1>4. arg \in 1 .. Len(argv) + 1
  BY <1>2, <1>3
<1>5. QED
  BY <1>2, <1>3, <1>4, Zenon DEF InputTypes

\* Steps outside the pass leave the arguments alone, or end main's use of them.
LEMMA OutsideInputs ==
  ASSUME [Next]_vars, ~UserInputs_read
  PROVE  \/ UNCHANGED <<main, inputVars>>
         \/ /\ main \in {"init", "terminal"} /\ main' \in {"terminal", "exited", "join"}
            /\ UNCHANGED enableLogging
            /\ UNCHANGED <<argv, arg>> \/ (argv' = <<>> /\ arg' = 1)
<1>1. CASE InitSupervisor
  BY <1>1 DEF InitSupervisor
<1>2. CASE StartTerminal
  BY <1>2 DEF StartTerminal, inputVars
<1>3. CASE \E p \in Pids : CheckReserve(p) \/ SetPolicy(p)
  BY <1>3 DEF CheckReserve, SetPolicy
<1>4. CASE CheckSetPid
  BY <1>4 DEF CheckSetPid
<1>5. CASE \E i \in Instances : HandleTelegram(i) \/ UpdateWorst(i)
  BY <1>5 DEF HandleTelegram, UpdateWorst
<1>6. CASE Terminal
  BY <1>6 DEF Terminal, TiLock, TiScan, TiColumn, TiUnlock, TiClear
<1>7. CASE UNCHANGED vars
  BY <1>7 DEF vars
<1>8. QED
  BY <1>1, <1>2, <1>3, <1>4, <1>5, <1>6, <1>7 DEF Next

\* One step keeps the types: a value jumped over was there (UserInputs.c:20).
LEMMA InputTypesStep ==
  ASSUME InputTypes, [Next]_vars
  PROVE  InputTypes'
<1>1. Len(argv) \in Nat
  BY DEF InputTypes
<1>2. CASE UserInputs_read
  <2>1. UNCHANGED argv /\ main' \in {"inputs", "refused", "init"}
    BY <1>2, ReadingFacts
  <2>2. arg' \in 1 .. Len(argv) + 1 /\ enableLogging' \in BOOLEAN
    <3>1. CASE ReadLog
      <4>1. arg \in 1 .. Len(argv) /\ enableLogging \in BOOLEAN
        BY <3>1, <1>1 DEF ReadLog, ReadArgument, InputTypes
      <4>2. CASE ValueGiven(arg)
        <5>1. arg < Len(argv) /\ arg' = arg + 2 /\ enableLogging' = (argv[arg + 1] = "on")
          BY <3>1, <4>2 DEF ReadLog, ValueGiven
        <5>2. enableLogging' \in BOOLEAN
          BY <5>1
        <5>3. QED
          BY <1>1, <4>1, <5>1, <5>2
      <4>3. CASE ~ValueGiven(arg)
        BY <1>1, <3>1, <4>1, <4>3 DEF ReadLog
      <4>4. QED
        BY <4>2, <4>3
    <3>2. CASE ReadHelp
      BY <3>2 DEF ReadHelp, ReadArgument, InputTypes
    <3>3. CASE ReadOther
      BY <3>3, <1>1 DEF ReadOther, ReadArgument, InputTypes
    <3>4. CASE ReadEnd
      BY <3>4 DEF ReadEnd, inputVars, InputTypes
    <3>5. QED
      BY <1>2, <3>1, <3>2, <3>3, <3>4 DEF UserInputs_read
  <2>3. QED
    BY <2>1, <2>2 DEF InputTypes
<1>3. CASE ~UserInputs_read
  <2>1. CASE argv' = <<>> /\ arg' = 1 /\ main' \in {"terminal", "exited", "join"}
             /\ UNCHANGED enableLogging
    BY <2>1, ProgramAssumption, TableAssumption DEF InputTypes
  <2>2. CASE UNCHANGED <<argv, arg, enableLogging>>
             /\ main' \in {main, "terminal", "exited", "join"}
    BY <2>2 DEF InputTypes
  <2>3. QED
    BY <1>3, <2>1, <2>2, OutsideInputs DEF inputVars
<1>4. QED
  BY <1>2, <1>3

\* The arguments that have been passed over had their values and asked for no
\* help, and the switch is what the last --log among them said.
PassedOver ==
  main = "inputs" =>
    /\ \A i \in 1 .. arg - 1 : argv[i] # "-h" /\ (argv[i] = "--log" => ValueGiven(i))
    /\ enableLogging <=> LoggingOn(arg - 1)

\* One more argument, or a --log and its value (UserInputs.c:17-41).
LEMMA PassedOverStep ==
  ASSUME InputTypes, PassedOver, UserInputs_read
  PROVE  PassedOver' /\ PassDecides'
<1>1. /\ main = "inputs" /\ UNCHANGED argv
      /\ Len(argv) \in Nat /\ arg \in 1 .. Len(argv) + 1
  BY ReadingFacts DEF InputTypes
<1>2. /\ \A i \in 1 .. arg - 1 : argv[i] # "-h" /\ (argv[i] = "--log" => ValueGiven(i))
      /\ enableLogging <=> LoggingOn(arg - 1)
  BY <1>1 DEF PassedOver
<1>3. /\ \A n : LoggingOn(n) <=> \E i \in 1 .. n :
             /\ argv'[i] = "--log" /\ argv'[i + 1] = "on"
             /\ \A j \in i + 1 .. n : argv'[j] # "--log"
      /\ \A i : ValueGiven(i) <=> i < Len(argv') /\ argv'[i + 1] \in {"on", "off"}
      /\ LetPass' <=> LetPass
  BY <1>1 DEF LoggingOn, ValueGiven, LetPass
<1>4. ASSUME main' = "inputs" =>
               /\ \A i \in 1 .. arg' - 1 :
                    argv[i] # "-h" /\ (argv[i] = "--log" => ValueGiven(i))
               /\ enableLogging' <=> LoggingOn(arg' - 1),
             main' = "refused" => ~LetPass,
             main' = "init" => LetPass /\ (enableLogging' <=> LoggingOn(Len(argv)))
      PROVE  PassedOver' /\ PassDecides'
  <2>1. PassedOver'
    BY <1>1, <1>3, <1>4 DEF PassedOver, LoggingOn, ValueGiven
  <2>2. PassDecides'
    BY <1>1, <1>3, <1>4 DEF PassDecides, LoggingOn
  <2>3. QED
    BY <2>1, <2>2
<1>5. ASSUME ReadLog, ValueGiven(arg)
      PROVE  PassedOver' /\ PassDecides'
  <2>1. /\ argv[arg] = "--log" /\ arg < Len(argv) /\ argv[arg + 1] \in {"on", "off"}
        /\ enableLogging' = (argv[arg + 1] = "on") /\ arg' = arg + 2 /\ main' = "inputs"
    BY <1>1, <1>5 DEF ReadLog, ReadArgument, ValueGiven
  <2>2. ASSUME NEW i \in 1 .. arg + 1
        PROVE  argv[i] # "-h" /\ (argv[i] = "--log" => ValueGiven(i))
    <3>1. i \in 1 .. arg - 1 \/ i = arg \/ i = arg + 1
      BY <1>1
    <3>2. QED
      BY <1>2, <1>5, <2>1, <3>1
  <2>3. LoggingOn(arg + 1) <=> argv[arg + 1] = "on"
    <3>1. ASSUME LoggingOn(arg + 1) PROVE argv[arg + 1] = "on"
      <4>1. PICK i \in 1 .. arg + 1 :
              /\ argv[i] = "--log" /\ argv[i + 1] = "on"
              /\ \A j \in i + 1 .. arg + 1 : argv[j] # "--log"
        BY <3>1 DEF LoggingOn
      <4>2. i = arg
        <5>1. ~(arg \in i + 1 .. arg + 1) /\ i # arg + 1
          BY <2>1, <4>1
        <5>2. QED
          BY <1>1, <5>1
      <4>3. QED
        BY <4>1, <4>2
    <3>2. ASSUME argv[arg + 1] = "on" PROVE LoggingOn(arg + 1)
      <4>1. arg \in 1 .. arg + 1 /\ \A j \in arg + 1 .. arg + 1 : j = arg + 1
        BY <1>1
      <4>2. QED
        BY <2>1, <3>2, <4>1 DEF LoggingOn
    <3>3. QED
      BY <3>1, <3>2
  <2>4. arg' - 1 = arg + 1
    BY <1>1, <2>1
  <2>5. QED
    BY <1>1, <1>4, <2>1, <2>2, <2>3, <2>4
<1>6. ASSUME (ReadLog /\ ~ValueGiven(arg)) \/ ReadHelp
      PROVE  PassedOver' /\ PassDecides'
  <2>1. /\ arg \in 1 .. Len(argv) /\ main' = "refused"
        /\ argv[arg] = "-h" \/ (argv[arg] = "--log" /\ ~ValueGiven(arg))
    BY <1>1, <1>6 DEF ReadLog, ReadHelp, ReadArgument
  <2>2. ~LetPass
    BY <2>1 DEF LetPass
  <2>3. QED
    BY <1>4, <2>1, <2>2
<1>7. CASE ReadOther
  <2>1. /\ argv[arg] # "-h" /\ argv[arg] # "--log" /\ arg \in 1 .. Len(argv)
        /\ arg' = arg + 1 /\ main' = "inputs" /\ enableLogging' = enableLogging
    BY <1>1, <1>7 DEF ReadOther, ReadArgument
  <2>2. arg' - 1 = arg /\ \A i \in 1 .. arg : i \in 1 .. arg - 1 \/ i = arg
    BY <1>1, <2>1
  <2>3. LoggingOn(arg) <=> LoggingOn(arg - 1)
    <3>1. ASSUME NEW i \in 1 .. arg - 1
          PROVE  (\A j \in i + 1 .. arg : argv[j] # "--log")
                   <=> (\A j \in i + 1 .. arg - 1 : argv[j] # "--log")
      BY <1>1, <2>1
    <3>2. 1 .. arg - 1 \subseteq 1 .. arg
      BY <1>1
    <3>3. QED
      BY <2>1, <2>2, <3>1, <3>2 DEF LoggingOn
  <2>4. QED
    BY <1>2, <1>4, <2>1, <2>2, <2>3
<1>8. CASE ReadEnd
  <2>1. /\ main' = (IF argv = <<>> THEN "refused" ELSE "init")
        /\ arg - 1 = Len(argv) /\ enableLogging' = enableLogging
    BY <1>1, <1>8 DEF ReadEnd, inputVars
  <2>2. CASE argv = <<>>
    <3>1. main' = "refused" /\ ~LetPass
      BY <2>1, <2>2 DEF LetPass
    <3>2. QED
      BY <1>4, <3>1
  <2>3. CASE argv # <<>>
    <3>1. main' = "init" /\ LetPass
      BY <1>2, <2>1, <2>3 DEF LetPass
    <3>2. enableLogging' <=> LoggingOn(Len(argv))
      BY <1>2, <2>1
    <3>3. QED
      BY <1>4, <3>1, <3>2
  <2>4. QED
    BY <2>2, <2>3
<1>9. QED
  BY <1>5, <1>6, <1>7, <1>8 DEF UserInputs_read

\* For any number of arguments the pass over them, which jumps from argument to
\* argument (UserInputs.c:17-43), comes to what LetPass and LoggingOn say of the
\* list as a whole: every --log has its value, nobody asks for help, the last --log
\* wins.  That a --log is there at all, as UserInputs.c:11 wants it, is not among it.
THEOREM ProgramPassDecides == Spec => []PassDecides
<1>1. Init => InputTypes /\ PassedOver /\ PassDecides
  <2>1. SUFFICES ASSUME Init PROVE PassedOver /\ PassDecides
    BY InitInputTypes
  <2>2. main = "inputs" /\ arg = 1 /\ enableLogging = FALSE
    BY <2>1 DEF Init
  <2>3. \A i : i \notin 1 .. arg - 1
    BY <2>2
  <2>4. ~LoggingOn(arg - 1)
    BY <2>3 DEF LoggingOn
  <2>5. PassedOver
    BY <2>2, <2>3, <2>4, Zenon DEF PassedOver
  <2>6. PassDecides
    BY <2>2 DEF PassDecides
  <2>7. QED
    BY <2>5, <2>6
<1>2. InputTypes /\ PassedOver /\ PassDecides /\ [Next]_vars
        => InputTypes' /\ PassedOver' /\ PassDecides'
  <2>1. SUFFICES ASSUME InputTypes, PassedOver, PassDecides, [Next]_vars
                 PROVE  InputTypes' /\ PassedOver' /\ PassDecides'
    OBVIOUS
  <2>2. CASE UserInputs_read
    BY <2>1, <2>2, InputTypesStep, PassedOverStep
  <2>3. CASE UNCHANGED <<main, inputVars>>
    <3>1. UNCHANGED <<main, argv, arg, enableLogging>>
      BY <2>3 DEF inputVars
    <3>2. QED
      BY <2>1, <3>1, InputTypesStep
         DEF PassedOver, PassDecides, LoggingOn, LetPass, ValueGiven
  <2>4. CASE main' \in {"terminal", "exited", "join"}
    BY <2>1, <2>4, InputTypesStep DEF PassedOver, PassDecides
  <2>5. QED
    BY <2>1, <2>2, <2>3, <2>4, OutsideInputs
<1>3. QED
  BY <1>1, <1>2, PTL DEF Spec

----------------------------------------------------------------------------
(* All types together. *)

\* What the terminal thread does not use itself: the monitors' place, the lines
\* it has printed, the counter.
OtherTypes ==
  /\ handling \in [Instances -> BOOLEAN]
  /\ lines \subseteq [instance : Instances, section : 1 .. 3, pid : Pids \cup {NoPid},
                      lastRT : 0 .. MaxRT, WCRT : 0 .. MaxRT]
  /\ jobs \in 0 .. MaxJobs

\* One step keeps them: a line is made of a pid and metrics that were read
\* (TerminalInterface.c:73-90).
LEMMA OtherTypesStep ==
  ASSUME TerminalTypes, OtherTypes, [Next]_vars
  PROVE  OtherTypes'
<1> USE DEF monVars, tiVars
<1>1. CASE UserInputs_read
  BY <1>1, ReadingFacts DEF OtherTypes
<1>2. CASE InitSupervisor \/ StartTerminal
  BY <1>2 DEF InitSupervisor, StartTerminal, OtherTypes
<1>3. CASE \E p \in Pids : CheckReserve(p)
  BY <1>3 DEF CheckReserve, OtherTypes
<1>4. CASE CheckSetPid
  BY <1>4 DEF CheckSetPid, OtherTypes
<1>5. ASSUME NEW i \in Instances, HandleTelegram(i)
      PROVE  OtherTypes'
  <2>1. /\ handling' = [handling EXCEPT ![i] = TRUE] /\ jobs < MaxJobs /\ jobs' = jobs + 1
        /\ UNCHANGED lines
    BY <1>5 DEF HandleTelegram
  <2>2. handling' \in [Instances -> BOOLEAN]
    BY <2>1 DEF OtherTypes
  <2>3. jobs' \in 0 .. MaxJobs
    BY <2>1, ProgramAssumption, TableAssumption DEF OtherTypes
  <2>4. QED
    BY <2>1, <2>2, <2>3 DEF OtherTypes
<1>6. ASSUME NEW i \in Instances, UpdateWorst(i)
      PROVE  OtherTypes'
  <2>1. handling' = [handling EXCEPT ![i] = FALSE] /\ UNCHANGED <<lines, jobs>>
    BY <1>6 DEF UpdateWorst
  <2>2. handling' \in [Instances -> BOOLEAN]
    BY <2>1 DEF OtherTypes
  <2>3. QED
    BY <2>1, <2>2 DEF OtherTypes
<1>7. ASSUME NEW p \in Pids, SetPolicy(p)
      PROVE  OtherTypes'
  <2>1. UNCHANGED <<handling, lines, jobs>>
    BY <1>7 DEF SetPolicy
  <2>2. QED
    BY <2>1 DEF OtherTypes
<1>8. CASE TiLock \/ TiScan \/ TiUnlock
  BY <1>8 DEF TiLock, TiScan, TiUnlock, OtherTypes
<1>9. ASSUME NEW c \in Columns, TiColumn(c)
      PROVE  OtherTypes'
  <2>1. DEFINE r == [row EXCEPT ![c] = IF c = "pid" THEN monitorPid[at] ELSE metrics[at][c]]
               l == [instance |-> at, section |-> section,
                     pid |-> r.pid, lastRT |-> r.lastRT, WCRT |-> r.WCRT]
  <2>2. /\ lines' = lines \/ lines' = lines \cup {l}
        /\ tiPc = "columns" /\ UNCHANGED <<handling, jobs>>
    BY <1>9 DEF TiColumn
  <2>3. /\ at \in Instances /\ section \in 1 .. 3 /\ c \in {"pid", "lastRT", "WCRT"}
        /\ row \in [pid : Pids \cup {NoPid}, lastRT : 0 .. MaxRT, WCRT : 0 .. MaxRT]
        /\ monitorPid[at] \in Pids \cup {NoPid}
        /\ metrics[at] \in [lastRT : 0 .. MaxRT, WCRT : 0 .. MaxRT]
    BY <2>2 DEF TerminalTypes, TableTypes, Columns
  <2>4. metrics[at].lastRT \in 0 .. MaxRT /\ metrics[at].WCRT \in 0 .. MaxRT
    BY <2>3
  <2>5. r.pid \in Pids \cup {NoPid} /\ r.lastRT \in 0 .. MaxRT /\ r.WCRT \in 0 .. MaxRT
    <3>1. CASE c = "pid"
      BY <2>3, <3>1
    <3>2. CASE c = "lastRT"
      BY <2>3, <2>4, <3>2
    <3>3. CASE c = "WCRT"
      BY <2>3, <2>4, <3>3
    <3>4. QED
      BY <2>3, <3>1, <3>2, <3>3
  <2> HIDE DEF r
  <2>6. l \in [instance : Instances, section : 1 .. 3, pid : Pids \cup {NoPid},
                lastRT : 0 .. MaxRT, WCRT : 0 .. MaxRT]
    BY <2>3, <2>5
  <2> HIDE DEF l
  <2>7. QED
    BY <2>2, <2>6 DEF OtherTypes
<1>10. CASE TiClear
  BY <1>10 DEF TiClear, OtherTypes
<1>11. CASE UNCHANGED vars
  BY <1>11 DEF vars, OtherTypes
<1>12. QED
  BY <1>1, <1>2, <1>3, <1>4, <1>5, <1>6, <1>7, <1>8, <1>9, <1>10, <1>11 DEF Next, Terminal

\* For any number of arguments, tasks and instances every variable keeps its type:
\* the pass stays inside the arguments, the screen inside the table.
THEOREM ProgramTypes == Spec => []TypeOK
<1>1. Init => InputTypes /\ TerminalTypes /\ OtherTypes
  <2>1. SUFFICES ASSUME Init PROVE OtherTypes
    BY InitTerminalTypes, InitInputTypes
  <2>2. /\ handling = [i \in Instances |-> FALSE] /\ lines = {} /\ jobs = 0
    BY <2>1 DEF Init
  <2>3. 0 \in 0 .. MaxJobs
    BY ProgramAssumption
  <2>4. QED
    BY <2>2, <2>3 DEF OtherTypes
<1>2. InputTypes /\ TerminalTypes /\ OneInstance /\ OtherTypes /\ [Next]_vars
        => InputTypes' /\ TerminalTypes' /\ OtherTypes'
  BY InputTypesStep, TerminalTypesStep, OtherTypesStep
<1>3. InputTypes /\ TerminalTypes /\ OtherTypes => TypeOK
  <2>1. SUFFICES ASSUME InputTypes, TerminalTypes, OtherTypes PROVE TypeOK
    OBVIOUS
  <2>2. argv \in ArgLists
    BY <2>1, ArgListsAreSequences DEF InputTypes
  <2>3. QED
    BY <2>1, <2>2, Zenon DEF InputTypes, TerminalTypes, TableTypes, OtherTypes, TypeOK
<1>4. QED
  BY <1>1, <1>2, <1>3, ProgramOneInstance, PTL DEF Spec

=============================================================================
