----------------------------- MODULE Supervisor -----------------------------
(***************************************************************************)
(* PID 1 of the sensor's container (deploy/ironmonkey/conpot_supervisor.py)*)
(* runs conpot as a child, restarts it when it exits or when it is wedged  *)
(* (burning a whole core while the event log does not grow, STRIKES samples*)
(* in a row), and stops it when it is told to stop itself.  The signal     *)
(* handler runs between any two steps of main(), which waits for it.       *)
(*                                                                         *)
(* Time is counted in check intervals: Wake is the end of one sleep.  CPU  *)
(* and log size are abstracted to what a sample tells apart: whether the   *)
(* child spun for all of the interval, whether the size changed.           *)
(***************************************************************************)
EXTENDS Integers, FiniteSets

CONSTANTS
    STRIKES,      \* bad samples in a row before a restart
    MaxFaulty,    \* bound: children that spin, wedge or die; the next is well
    MaxLogLoss,   \* bound: times the log file disappears
    MaxSignals    \* bound: SIGTERM / SIGINT received

ASSUME SupervisorAssumption == STRIKES \in Nat \ {0} /\ MaxFaulty \in Nat

VARIABLES
    procs,      \* the state of every child ever spawned
    spawned,    \* how many there are
    child,      \* the global _child, 0 for None
    pc,         \* where main() is
    hpc,        \* where the signal handler is, "off" when it does not run
    down,       \* _shutting_down
    strikes,
    health,     \* HEALTH_FILE
    spun,       \* the child spun ever since the last sample
    grew,       \* the log's size changed since the last sample
    present,    \* CONPOT_LOG exists
    sized,      \* it did at the last sample (prev_size >= 0)
    losses, signals,
    quiet       \* history: whole intervals in a row a child spun, log still

main == <<pc, strikes, health>>
sample == <<spun, grew, present, sized>>
counts == <<losses, signals>>
vars == <<procs, spawned, child, main, hpc, down, sample, counts, quiet>>

\* One child after the last faulty one, one more spawned during a shutdown.
Pids == 1..(MaxFaulty + 2)
Faulty(p) == p <= MaxFaulty
Alive(p) == procs[p] \in {"idle", "busy", "wedged"}
Spins(p) == procs[p] \in {"busy", "wedged"}

Init ==
    /\ procs = [p \in Pids |-> "none"]
    /\ spawned = 0
    /\ child = 0
    /\ pc = "spawn"
    /\ hpc = "off"
    /\ down = FALSE
    /\ strikes = 0
    /\ health = "none"
    /\ spun = FALSE
    /\ grew = FALSE
    /\ present \in BOOLEAN
    /\ sized = FALSE
    /\ losses = 0
    /\ signals = 0
    /\ quiet = [p \in Pids |-> 0]

-----------------------------------------------------------------------------
(* conpot and the machine.                                                 *)

\* The child starts or stops using a whole core, with or without its hub.
Turns(p, to) ==
    /\ Alive(p) /\ Faulty(p) /\ procs[p] # to
    /\ procs' = [procs EXCEPT ![p] = to]
    /\ spun' = IF p = child THEN spun /\ to # "idle" ELSE spun
    /\ UNCHANGED <<spawned, child, main, hpc, down, grew, present, sized,
                   counts, quiet>>

\* The log worker writes a line, which takes a hub that is not starved.
LogLine(p) ==
    /\ procs[p] \in {"idle", "busy"} /\ ~grew
    /\ present \/ losses < MaxLogLoss
    /\ grew' = TRUE
    /\ present' = TRUE
    /\ UNCHANGED <<procs, spawned, child, main, hpc, down, spun, sized,
                   counts, quiet>>

LogLost ==
    /\ present /\ losses < MaxLogLoss
    /\ present' = FALSE
    /\ losses' = losses + 1
    /\ UNCHANGED <<procs, spawned, child, main, hpc, down, spun, grew, sized,
                   signals, quiet>>

\* conpot exits by itself; until somebody waits for it it is a zombie.
Dies(p) ==
    /\ Alive(p) /\ Faulty(p)
    /\ procs' = [procs EXCEPT ![p] = "zombie"]
    /\ UNCHANGED <<spawned, child, main, hpc, down, sample, counts, quiet>>

-----------------------------------------------------------------------------
(* main().                                                                 *)

Running(at) == hpc = "off" /\ pc = at

\* Popen starts the process ...
Spawn ==
    /\ Running("spawn")
    /\ spawned' = spawned + 1
    /\ procs' = [procs EXCEPT ![spawned + 1] = "idle"]
    /\ pc' = "assign"
    /\ UNCHANGED <<child, hpc, down, strikes, health, sample, counts, quiet>>

Forgiven == 0

\* ... and only then is _child bound; the first sample of the new child.
Assign ==
    /\ Running("assign")
    /\ child' = spawned
    /\ spun' = Spins(spawned)
    /\ grew' = FALSE
    /\ sized' = present
    /\ strikes' = Forgiven
    /\ health' = "ok"
    /\ pc' = "head"
    /\ UNCHANGED <<procs, spawned, hpc, down, present, counts, quiet>>

\* `while not _shutting_down`
Head ==
    /\ Running("head")
    /\ pc' = IF down THEN "final" ELSE "sleep"
    /\ UNCHANGED <<procs, spawned, child, hpc, down, strikes, health, sample,
                   counts, quiet>>

\* time.sleep(CHECK_INTERVAL) is over.
Wake ==
    /\ Running("sleep")
    /\ pc' = IF down THEN "final" ELSE "poll"
    /\ quiet' = [quiet EXCEPT ![child] =
                    IF Spins(child) /\ spun /\ ~grew
                    THEN IF @ < STRIKES THEN @ + 1 ELSE @
                    ELSE 0]
    /\ UNCHANGED <<procs, spawned, child, hpc, down, strikes, health, sample,
                   counts>>

Poll_pid ==   \* mutant: takes a zombie, whose pid still exists, for alive
    /\ Running("poll")
    /\ pc' = IF procs[child] = "reaped" THEN "spawn" ELSE "sample"
    /\ UNCHANGED <<procs, spawned, child, hpc, down, strikes, health, sample,
                   counts, quiet>>

\* _child.poll(): a child that has exited is waited for and replaced.
Poll ==
    /\ Running("poll")
    /\ procs' = [procs EXCEPT ![child] = IF @ = "zombie" THEN "reaped" ELSE @]
    /\ pc' = IF procs[child] \in {"zombie", "reaped"} THEN "spawn" ELSE "sample"
    /\ UNCHANGED <<spawned, child, hpc, down, strikes, health, sample, counts,
                   quiet>>

Stalled_moved == present /\ grew      \* mutant: the comparison inverted
Stalled == present /\ sized /\ ~grew

Bad_cpu == spun                       \* mutant: the CPU alone decides
Bad == spun /\ Stalled

\* The new sample against the last one.  The child can be gone by now, but
\* only the handler waits for it: then its ticks cannot be read.
Sample ==
    /\ Running("sample")
    /\ IF procs[child] = "reaped"
       THEN /\ pc' = "head"
            /\ UNCHANGED <<strikes, health>>
       ELSE /\ strikes' = IF Bad THEN strikes + 1 ELSE 0
            /\ health' = IF ~Bad THEN "ok"
                         ELSE IF strikes + 1 >= STRIKES THEN "wedged"
                         ELSE "suspect"
            /\ pc' = IF strikes' >= STRIKES THEN "stop" ELSE "head"
    /\ spun' = Spins(child)
    /\ grew' = FALSE
    /\ sized' = present
    /\ UNCHANGED <<procs, spawned, child, hpc, down, present, counts, quiet>>

\* _stop_child: what is there to stop?  A zombie is waited for.
StopFrom(from, stopping, done) ==
    /\ procs' = [procs EXCEPT ![child] = IF @ = "zombie" THEN "reaped" ELSE @]
    /\ from' = IF Alive(child) THEN stopping ELSE done

StopEnds_term(from, done) ==   \* mutant: no SIGKILL after the grace period
    /\ procs' \in {procs, [procs EXCEPT ![child] = "reaped"]}
    /\ from' = done

StopEnds_wait(from, done) ==   \* mutant: proc.wait() without its timeout
    UNCHANGED procs /\ from' = from

\* TERM, the grace period, KILL, the wait: sooner or later the child is gone.
StopEnds(from, done) ==
    /\ procs' = [procs EXCEPT ![child] = "reaped"]
    /\ from' = done

\* _stop_child(_child) of a wedged child, then its replacement.
Stop ==
    /\ Running("stop")
    /\ StopFrom(pc, "stopping", "spawn")
    /\ UNCHANGED <<spawned, child, hpc, down, strikes, health, sample, counts,
                   quiet>>

Stopped ==
    /\ Running("stopping")
    /\ StopEnds(pc, "spawn")
    /\ UNCHANGED <<spawned, child, hpc, down, strikes, health, sample, counts,
                   quiet>>

Final_trust ==   \* mutant: leaves the stopping to the handler
    /\ Running("final")
    /\ pc' = "exit"
    /\ UNCHANGED <<procs, spawned, child, hpc, down, strikes, health, sample,
                   counts, quiet>>

\* The last lines of main(): stop whatever _child is by now and exit.
Final ==
    /\ Running("final")
    /\ StopFrom(pc, "finishing", "exit")
    /\ UNCHANGED <<spawned, child, hpc, down, strikes, health, sample, counts,
                   quiet>>

Finished ==
    /\ Running("finishing")
    /\ StopEnds(pc, "exit")
    /\ UNCHANGED <<spawned, child, hpc, down, strikes, health, sample, counts,
                   quiet>>

-----------------------------------------------------------------------------
(* _forward_signal, between any two steps of main().                       *)

Signal ==
    /\ hpc = "off" /\ pc # "exit"
    /\ signals < MaxSignals
    /\ signals' = signals + 1
    /\ down' = TRUE
    /\ IF child = 0 THEN UNCHANGED <<procs, hpc>>
       ELSE StopFrom(hpc, "stopping", "off")
    /\ UNCHANGED <<spawned, child, main, sample, losses, quiet>>

SignalDone ==
    /\ hpc = "stopping"
    /\ StopEnds(hpc, "off")
    /\ UNCHANGED <<spawned, child, main, down, sample, counts, quiet>>

Exited == pc = "exit" /\ UNCHANGED vars

-----------------------------------------------------------------------------
Conpot == \E p \in Pids : \/ \E to \in {"idle", "busy", "wedged"} : Turns(p, to)
                          \/ LogLine(p)
                          \/ Dies(p)

Main == Spawn \/ Assign \/ Head \/ Wake \/ Poll \/ Sample
        \/ Stop \/ Stopped \/ Final \/ Finished

Next == Conpot \/ LogLost \/ Main \/ Signal \/ SignalDone \/ Exited

Spec == Init /\ [][Next]_vars

(* main() and the handler are straight code whose calls all return: sleep  *)
(* and the waits have timeouts, and a process does not outlive SIGKILL.    *)
FairSpec == Spec /\ WF_vars(Main) /\ WF_vars(SignalDone)

-----------------------------------------------------------------------------
(* Two conpots never run at once: whatever a signal interrupts, a child is *)
(* spawned only when the one before it is gone.                            *)
OneConpot == \A p, q \in Pids : Alive(p) /\ Alive(q) => p = q

(* The supervisor never leaves a conpot behind when it exits, even one that*)
(* was spawned after the signal that ended the supervisor.                 *)
NoOrphan == pc = "exit" => \A p \in Pids : ~Alive(p)

(* conpot_supervisor.py:36-38: a flood, or anything else that is not the   *)
(* child itself spinning for STRIKES whole intervals without a change of   *)
(* the log, never makes the supervisor kill it.                            *)
OnlyWedgedIsKilled ==
    pc \in {"stop", "stopping"} => quiet[child] >= STRIKES

(* A conpot whose hub stays starved, or that exits, is replaced, unless the*)
(* sensor is being stopped; the first only as long as there is a log file  *)
(* to be looked at.                                                        *)
SensorRecovers ==
    \A p \in Pids :
        procs[p] \in {"wedged", "zombie"}
            ~> \/ down \/ procs[p] \in {"idle", "busy"}
               \/ procs[p] = "wedged" /\ ~present
               \/ \E q \in Pids : q > p /\ Alive(q)

(* A signal ends the supervisor.                                           *)
SignalEnds == signals > 0 ~> pc = "exit"

=============================================================================
