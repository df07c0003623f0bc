------------------------------ MODULE Program ------------------------------
(***************************************************************************)
(* The supervisor program around its threads: the command line             *)
(* (UserInputs.c), the order in which main starts the threads (main.c,     *)
(* Supervisor_init), and the terminal interface (TerminalInterface.c),     *)
(* which shows every traced task once a second.                            *)
(*                                                                         *)
(* The terminal thread reads what other threads write: the table, whose    *)
(* flags the mutex protects but not its pids; the metrics, which nothing   *)
(* protects; and the policy of each task, which the task may change.       *)
(* The table is that of module Table, which module Supervisor, with the    *)
(* whole of the check thread and of the regions, implements: the check     *)
(* thread finds a task that is not traced at any time.                     *)
(***************************************************************************)
EXTENDS Table, Sequences

CONSTANTS
  MaxArgs,           \* bound: arguments on the command line
  Restless,          \* bound: the ids whose tasks change their policy, end and start
  MaxJobs,           \* bound: telegrams handled by the monitors
  MaxRT              \* bound: response time of a job

ASSUME ProgramAssumption ==
  /\ MaxArgs \in Nat /\ Restless \subseteq Pids /\ MaxJobs \in Nat /\ MaxRT \in Nat

VARIABLES
  main,               \* where main is
  argv, arg,          \* the arguments after the program's name; the one to be read next
  enableLogging,
  policy,             \* per id: its task's policy, "none" if there is no such task
  metrics, handling,  \* per instance: lastRT and WCRT; its monitor has written lastRT alone
  tiPc,               \* the terminal thread
  section, at,        \* the section it prints, the instance it looks at
  row, toRead,        \* the line it puts together, and the columns yet to be read
  lines,              \* the lines on the screen
  steady,             \* history: instances that have not changed since the screen was cleared
  jobs                \* counter for the bound

inputVars == <<argv, arg, enableLogging>>
monVars   == <<metrics, handling>>
tiVars    == <<tiPc, section, at, row, toRead, lines>>
vars      == <<main, inputVars, tableVars, policy, monVars, tiVars, steady, jobs>>

Policy == {"none", "other", "fifo", "deadline"}

Arg == {"--log", "on", "off", "-h", "else"}

ArgLists == UNION {[1 .. n -> Arg] : n \in 0 .. MaxArgs}

Columns == {"pid", "lastRT", "WCRT"}

NoRow == [pid |-> NoPid, lastRT |-> 0, WCRT |-> 0]

Init ==
  /\ main = "inputs" /\ argv \in ArgLists /\ arg = 1 /\ enableLogging = FALSE
  /\ TableInit
  /\ policy \in [Pids -> Policy \ {"none"}]
  /\ metrics = [i \in Instances |-> [lastRT |-> 0, WCRT |-> 0]]
  /\ handling = [i \in Instances |-> FALSE]
  /\ tiPc = "none" /\ section = 1 /\ at = 0
  /\ row = NoRow /\ toRead = {} /\ lines = {}
  /\ steady = {} /\ jobs = 0

----------------------------------------------------------------------------
(* main. *)

\* UserInputs_read: one pass over the arguments, one action for each.
ReadArgument(is) ==
  /\ main = "inputs" /\ arg <= Len(argv) /\ argv[arg] = is
  /\ UNCHANGED <<argv, tableVars, policy, monVars, tiVars, steady, jobs>>

ValueGiven(i) == i < Len(argv) /\ argv[i + 1] \in {"on", "off"}

\* Seeded fault: a --log at the end is passed over.
ReadLogAtEnd ==
  /\ ReadArgument("--log")
  /\ IF arg = Len(argv) \/ ValueGiven(arg)
       THEN /\ enableLogging' = (arg < Len(argv) /\ argv[arg + 1] = "on")
            /\ arg' = (IF arg = Len(argv) THEN arg + 1 ELSE arg + 2)
            /\ UNCHANGED main
       ELSE main' = "refused" /\ UNCHANGED <<arg, enableLogging>>

\* A --log and its value are read together.
ReadLog ==
  /\ ReadArgument("--log")
  /\ IF ValueGiven(arg)
       THEN enableLogging' = (argv[arg + 1] = "on") /\ arg' = arg + 2 /\ UNCHANGED main
       ELSE main' = "refused" /\ UNCHANGED <<arg, enableLogging>>

ReadHelp ==
  /\ ReadArgument("-h")
  /\ main' = "refused"
  /\ UNCHANGED <<arg, enableLogging>>

\* Any other argument, a stray on or off among them, is passed over.
ReadOther ==
  /\ \E a \in Arg \ {"--log", "-h"} : ReadArgument(a)
  /\ arg' = arg + 1
  /\ UNCHANGED <<main, enableLogging>>

\* The pass is over.  Without any argument the program does not start.
ReadEnd ==
  /\ main = "inputs" /\ arg > Len(argv)
  /\ main' = IF argv = <<>> THEN "refused" ELSE "init"
  /\ UNCHANGED <<inputVars, tableVars, policy, monVars, tiVars, steady, jobs>>

UserInputs_read == ReadLog \/ ReadHelp \/ ReadOther \/ ReadEnd

\* Supervisor_init starts the check thread last.  If the user is not root or a
\* thread cannot be created, main returns and the process ends with the threads
\* it has.  The arguments are not looked at again.
InitSupervisor ==
  /\ main = "init"
  /\ main' \in {"terminal", "exited"}
  /\ argv' = <<>> /\ arg' = 1
  /\ UNCHANGED <<enableLogging, tableVars, policy, monVars, tiVars, steady, jobs>>

\* Without its terminal thread the supervisor goes on all the same.
StartTerminal ==
  /\ main = "terminal"
  /\ main' = "join"
  /\ tiPc' \in {"none", "start"}
  /\ UNCHANGED <<inputVars, tableVars, policy, monVars, section, at, row, toRead,
                 lines, steady, jobs>>

----------------------------------------------------------------------------
(* What the other threads and the tasks do to what is shown. *)

\* The mutex is held by the terminal thread for a whole section.
Locked == tiPc \in {"scan", "columns"}

\* The check thread runs once Supervisor_init has returned, searches the table
\* and takes an instance of it under the mutex.
CheckReserve(p) ==
  /\ main \in {"terminal", "join"} /\ ~Locked
  /\ Reserve(p)
  /\ UNCHANGED <<main, inputVars, policy, monVars, tiVars, steady, jobs>>

\* The pid is written without the mutex.
CheckSetPid ==
  /\ SetPid
  /\ UNCHANGED <<main, inputVars, policy, monVars, tiVars, steady, jobs>>

\* The monitor of instance i handles a telegram: it writes lastRT, then WCRT.
HandleTelegram(i) ==
  /\ monitorPid[i] # NoPid /\ ~handling[i] /\ jobs < MaxJobs
  /\ \E rt \in 1 .. MaxRT : metrics' = [metrics EXCEPT ![i].lastRT = rt]
  /\ handling' = [handling EXCEPT ![i] = TRUE]
  /\ jobs' = jobs + 1
  /\ UNCHANGED <<main, inputVars, tableVars, policy, tiVars, steady>>

\* Seeded fault: the comparison is the wrong way round.
UpdateWorstLess(i) ==
  /\ handling[i]
  /\ metrics' = [metrics EXCEPT ![i].WCRT =
                   IF metrics[i].lastRT < @ THEN metrics[i].lastRT ELSE @]
  /\ handling' = [handling EXCEPT ![i] = FALSE]
  /\ UNCHANGED <<main, inputVars, tableVars, policy, tiVars, steady, jobs>>

UpdateWorst(i) ==
  /\ handling[i]
  /\ metrics' = [metrics EXCEPT ![i].WCRT =
                   IF metrics[i].lastRT > @ THEN metrics[i].lastRT ELSE @]
  /\ handling' = [handling EXCEPT ![i] = FALSE]
  /\ UNCHANGED <<main, inputVars, tableVars, policy, tiVars, steady, jobs>>

\* A task sets its policy or is given one, ends, or starts under an id that is
\* free again, any number of times.
SetPolicy(p) ==
  /\ p \in Restless
  /\ \E q \in Policy \ {policy[p]} : policy' = [policy EXCEPT ![p] = q]
  /\ steady' = {i \in steady : monitorPid[i] # p}
  /\ UNCHANGED <<main, inputVars, tableVars, monVars, tiVars, jobs>>

----------------------------------------------------------------------------
(* TerminalInterface_interfaceUpdateTask. *)

\* PID_getSchedulerPolicy: for pid 0 the policy of the thread that asks, for a
\* task that is not there -1.
PID_getSchedulerPolicy(p) == IF p = NoPid THEN "other" ELSE policy[p]

\* Seeded fault: the last section leaves out SCHED_FIFO alone.
SectionPoliciesTwice(s) ==
  CASE s = 1 -> {"deadline"} [] s = 2 -> {"fifo"} [] s = 3 -> {"other", "deadline", "none"}

\* The policies a section shows.
SectionPolicies(s) ==
  CASE s = 1 -> {"deadline"} [] s = 2 -> {"fifo"} [] s = 3 -> {"other", "none"}

\* pthread_mutex_lock for a section.
TiLock ==
  /\ tiPc = "lock"
  /\ tiPc' = "scan" /\ at' = 0
  /\ UNCHANGED <<main, inputVars, tableVars, policy, monVars, section, row, toRead,
                 lines, steady, jobs>>

\* The next instance: if it is in use and its task has a policy of this section
\* there will be a line for it.
TiScan ==
  /\ tiPc = "scan" /\ at < MAX_TRACED_TASKS
  /\ IF isTaskBeingTraced[at]
        /\ PID_getSchedulerPolicy(monitorPid[at]) \in SectionPolicies(section)
       THEN tiPc' = "columns" /\ toRead' = Columns /\ UNCHANGED at
       ELSE at' = at + 1 /\ UNCHANGED <<tiPc, toRead>>
  /\ UNCHANGED <<main, inputVars, tableVars, policy, monVars, section, row, lines,
                 steady, jobs>>

\* The arguments of mvprintw are read in an order C leaves open.
TiColumn(c) ==
  /\ tiPc = "columns" /\ c \in toRead
  /\ LET r == [row EXCEPT ![c] = IF c = "pid" THEN monitorPid[at] ELSE metrics[at][c]] IN
       IF toRead = {c}
         THEN /\ lines' = lines \cup
                   {[instance |-> at, section |-> section,
                     pid |-> r.pid, lastRT |-> r.lastRT, WCRT |-> r.WCRT]}
              /\ row' = NoRow /\ at' = at + 1 /\ tiPc' = "scan"
         ELSE row' = r /\ UNCHANGED <<lines, at, tiPc>>
  /\ toRead' = toRead \ {c}
  /\ UNCHANGED <<main, inputVars, tableVars, policy, monVars, section, steady, jobs>>

\* Seeded fault: the last section is not left.
TiUnlockNever ==
  /\ tiPc = "scan" /\ at = MAX_TRACED_TASKS /\ section < 3
  /\ tiPc' = "lock" /\ section' = section + 1
  /\ UNCHANGED <<main, inputVars, tableVars, policy, monVars, at, row, toRead, lines,
                 steady, jobs>>

\* Seeded fault: the next screen does not begin with the first section.
TiUnlockOnward ==
  /\ tiPc = "scan" /\ at = MAX_TRACED_TASKS
  /\ tiPc' = IF section < 3 THEN "lock" ELSE "refresh"
  /\ section' = section + 1
  /\ UNCHANGED <<main, inputVars, tableVars, policy, monVars, at, row, toRead, lines,
                 steady, jobs>>

\* pthread_mutex_unlock, and on to the next section.
TiUnlock ==
  /\ tiPc = "scan" /\ at = MAX_TRACED_TASKS
  /\ IF section < 3 THEN tiPc' = "lock" /\ section' = section + 1
                    ELSE tiPc' = "refresh" /\ section' = 1
  /\ UNCHANGED <<main, inputVars, tableVars, policy, monVars, at, row, toRead, lines,
                 steady, jobs>>

\* The terminal thread has slept three seconds after its start, or one after a
\* refresh: the screen is cleared.
TiClear ==
  /\ tiPc \in {"start", "refresh"}
  /\ tiPc' = "lock" /\ lines' = {}
  /\ steady' = {i \in Instances : isTaskBeingTraced[i] /\ monitorPid[i] # NoPid}
  /\ UNCHANGED <<main, inputVars, tableVars, policy, monVars, section, at, row,
                 toRead, jobs>>

Terminal == TiLock \/ TiScan \/ (\E c \in Columns : TiColumn(c)) \/ TiUnlock \/ TiClear

Next ==
  \/ UserInputs_read
  \/ InitSupervisor
  \/ StartTerminal
  \/ \E p \in Pids : CheckReserve(p)
  \/ CheckSetPid
  \/ \E i \in Instances : HandleTelegram(i)
  \/ \E i \in Instances : UpdateWorst(i)
  \/ \E p \in Pids : SetPolicy(p)
  \/ Terminal

Spec == Init /\ [][Next]_vars

\* The terminal thread goes on for ever, and a monitor finishes the telegram it
\* handles; all else owes nothing.
FairSpec ==
  /\ Spec
  /\ WF_vars(Terminal)
  /\ \A i \in Instances : WF_vars(UpdateWorst(i))

----------------------------------------------------------------------------
(* Properties. *)

\* Every variable has its type.
TypeOK ==
  /\ main \in {"inputs", "refused", "init", "exited", "terminal", "join"}
  /\ argv \in ArgLists /\ arg \in 1 .. Len(argv) + 1 /\ enableLogging \in BOOLEAN
  /\ isTaskBeingTraced \in [Instances -> BOOLEAN]
  /\ monitorPid \in [Instances -> Pids \cup {NoPid}]
  /\ ckPid \in Pids \cup {NoPid} /\ ckInstance \in Instances
  /\ policy \in [Pids -> Policy]
  /\ metrics \in [Instances -> [lastRT : 0 .. MaxRT, WCRT : 0 .. MaxRT]]
  /\ handling \in [Instances -> BOOLEAN]
  /\ tiPc \in {"none", "start", "lock", "scan", "columns", "refresh"}
  /\ section \in 1 .. 3 /\ at \in 0 .. MAX_TRACED_TASKS
  /\ row \in [pid : Pids \cup {NoPid}, lastRT : 0 .. MaxRT, WCRT : 0 .. MaxRT]
  /\ toRead \subseteq Columns
  /\ lines \subseteq [instance : Instances, section : 1 .. 3, pid : Pids \cup {NoPid},
                      lastRT : 0 .. MaxRT, WCRT : 0 .. MaxRT]
  /\ steady \subseteq Instances
  /\ jobs \in 0 .. MaxJobs

\* What UserInputs_read lets pass, as a condition on the whole list: there is an
\* argument, every --log has its value behind it, and nobody asks for help.  It is
\* less than the message at UserInputs.c:11 says the user must pass: a list without
\* --log passes if it has any argument.
LetPass ==
  /\ argv # <<>>
  /\ \A i \in 1 .. Len(argv) : argv[i] # "-h" /\ (argv[i] = "--log" => ValueGiven(i))

\* Of the first n arguments the last --log turns logging on.
LoggingOn(n) ==
  \E i \in 1 .. n :
    /\ argv[i] = "--log" /\ argv[i + 1] = "on"
    /\ \A j \in i + 1 .. n : argv[j] # "--log"

\* Reading the arguments one by one, and jumping over values, comes to what the
\* list says as a whole (UserInputs.c:17-43): the program is refused or goes on as
\* LetPass has it, with logging on exactly if the last --log says on, so off
\* without one.
PassDecides ==
  /\ main = "refused" => ~LetPass
  /\ main = "init" => LetPass /\ (enableLogging <=> LoggingOn(Len(argv)))

\* A task that is traced and keeps its policy while a screen is put together is
\* on it in one line, in its own section, and no other line has its pid, although
\* each section asks for the policy anew and the check thread writes pids
\* meanwhile.
ShownOnce ==
  tiPc = "refresh" =>
    \A i \in steady : \E l \in lines :
      /\ l.pid = monitorPid[i] /\ policy[l.pid] \in SectionPolicies(l.section)
      /\ \A k \in lines : k.instance = i \/ k.pid = l.pid => k = l

\* From some time on the task p keeps its policy, or stays away once it has ended.
Settles(p) == <>[][policy'[p] = policy[p]]_policy

\* Every traced task comes to be on the screen under its pid once the terminal
\* thread runs, also when it has ended, provided that it does not change its policy
\* for ever.  Nothing keeps one that does on any screen: each section asks anew,
\* and the task can have another policy each time (TerminalInterface.c:61, 106, 134).
TracedTaskShown ==
  \A p \in Pids :
    Settles(p) =>
      ((tiPc # "none" /\ Traced(p))
         ~> (tiPc = "refresh" /\ \E l \in lines : l.pid = p))

\* A line whose response time exceeds its worst case, because the monitor was
\* between its two writes or wrote while the line was read, does not stay: a later
\* screen has no such line of the instance, whatever the tasks do meanwhile.
Odd(l) == l.lastRT > l.WCRT

OddLinePutRight ==
  \A i \in Instances :
    (\E l \in lines : l.instance = i /\ Odd(l))
      ~> (tiPc = "refresh" /\ \A l \in lines : l.instance = i => ~Odd(l))

=============================================================================
