-------------------------- MODULE SupervisorProofs --------------------------
(***************************************************************************)
(* Proofs about Supervisor, for every number of strikes, of faulty         *)
(* children, of signals and of lost logs.                                  *)
(***************************************************************************)
EXTENDS Supervisor, TLAPS

Kinds == {"none", "idle", "busy", "wedged", "zombie", "reaped"}
Places == {"spawn", "assign", "head", "sleep", "poll", "sample", "stop",
           "stopping", "final", "finishing", "exit"}

(* Types.                                                                  *)
TypeInv ==
    /\ procs \in [Pids -> Kinds]
    /\ spawned \in 0..(MaxFaulty + 2)
    /\ pc \in Places
    /\ hpc \in {"off", "stopping"}
    /\ strikes \in Nat
    /\ quiet \in [Pids -> Nat]

(* _child is the last child spawned, except between Popen and the          *)
(* assignment; every child before the last is gone and waited for, and so  *)
(* is the last one where the next may be spawned and when main() is over.  *)
Lineage ==
    /\ child = IF pc = "assign" THEN spawned - 1 ELSE spawned
    /\ pc # "spawn" => spawned > 0
    /\ \A p \in Pids : /\ procs[p] = "none" <=> p > spawned
                       /\ p < spawned => procs[p] = "reaped"
                       /\ p = spawned /\ pc \in {"spawn", "exit"}
                            => procs[p] = "reaped"

(* A child that is well never spins and never dies by itself.  It is       *)
(* stopped only when the sensor is, so that at most one is spawned after   *)
(* it, which main() does not come to look at.                              *)
Well ==
    /\ \A p \in Pids : ~Faulty(p) => /\ procs[p] \in {"none", "idle", "reaped"}
                                     /\ quiet[p] = 0
                                     /\ procs[p] = "reaped" => down
    /\ pc \in {"final", "finishing", "exit"} => down
    /\ hpc = "stopping" => down
    /\ spawned = MaxFaulty + 2
         => down /\ pc \in {"assign", "head", "final", "finishing", "exit"}

(* The intervals an observer has counted are as many as the strikes, and   *)
(* one more between the end of an interval and the sample that may make a  *)
(* strike of it; beyond STRIKES nobody counts.                             *)
Counted ==
    /\ child \in Pids /\ Alive(child) /\ spun => Spins(child)
    /\ pc \in {"head", "sleep"} /\ Alive(child) => strikes <= quiet[child]
    /\ \/ pc = "poll" /\ Alive(child) /\ spun /\ ~grew
       \/ pc = "sample" /\ spun /\ ~grew
       => quiet[child] > strikes \/ quiet[child] >= STRIKES
    /\ OnlyWedgedIsKilled

IInv == TypeInv /\ Lineage /\ Well /\ Counted

-----------------------------------------------------------------------------
(* The sets and tests that every step below reads.                         *)
USE SupervisorAssumption DEF SupervisorAssumption, Kinds, Places, Pids, Faulty,
    Alive, Spins, main, sample, counts

LEMMA InitIInv == Init => IInv
  BY SMT DEF Init, IInv, TypeInv, Lineage, Well, Counted, OnlyWedgedIsKilled

(* Each step of main(), of the handler and of a child.                     *)
LEMMA TurnsIInv ==
  ASSUME IInv, NEW p \in Pids,
         NEW to \in {"idle", "busy", "wedged"}, Turns(p, to)
  PROVE  IInv'
  <1>1. TypeInv'
    BY SMT DEF Turns, IInv, TypeInv
  <1>2. Lineage'
    BY SMT DEF Turns, IInv, TypeInv, Lineage
  <1>3. Well'
    BY SMT DEF Turns, IInv, TypeInv, Lineage, Well
  <1>4. Counted'
    <2>1. (child \in Pids /\ Alive(child) /\ spun => Spins(child))'
      BY DEF Turns, IInv, TypeInv, Lineage, Well, Counted, OnlyWedgedIsKilled
    <2>2. (pc \in {"head", "sleep"} /\ Alive(child) => strikes <= quiet[child])'
      BY SMT DEF Turns, IInv, TypeInv, Lineage, Well, Counted, OnlyWedgedIsKilled
    <2>3. (\/ pc = "poll" /\ Alive(child) /\ spun /\ ~grew
           \/ pc = "sample" /\ spun /\ ~grew
           => quiet[child] > strikes \/ quiet[child] >= STRIKES)'
      <3>1. spun' => spun
        BY DEF Turns
      <3>2. Alive(child)' => Alive(child)
        BY SMT DEF Turns, IInv, TypeInv
      <3> QED BY <3>1, <3>2 DEF Turns, IInv, Counted
    <2>4. OnlyWedgedIsKilled'
      BY SMT DEF Turns, IInv, TypeInv, Lineage, Well, Counted, OnlyWedgedIsKilled
    <2> QED BY <2>1, <2>2, <2>3, <2>4 DEF Counted
  <1> QED BY <1>1, <1>2, <1>3, <1>4 DEF IInv

LEMMA LogLineIInv ==
  ASSUME IInv, NEW p \in Pids, LogLine(p)
  PROVE  IInv'
  <1>1. TypeInv'
    BY SMT DEF LogLine, IInv, TypeInv
  <1>2. Lineage'
    BY SMT DEF LogLine, IInv, TypeInv, Lineage
  <1>3. Well'
    BY SMT DEF LogLine, IInv, TypeInv, Lineage, Well
  <1>4. Counted'
    BY SMT DEF LogLine, IInv, TypeInv, Lineage, Well, Counted, OnlyWedgedIsKilled
  <1> QED BY <1>1, <1>2, <1>3, <1>4 DEF IInv

LEMMA DiesIInv ==
  ASSUME IInv, NEW p \in Pids, Dies(p)
  PROVE  IInv'
  <1>1. TypeInv'
    BY SMT DEF Dies, IInv, TypeInv
  <1>2. Lineage'
    BY SMT DEF Dies, IInv, TypeInv, Lineage
  <1>3. Well'
    BY SMT DEF Dies, IInv, TypeInv, Lineage, Well
  <1>4. Counted'
    BY SMT DEF Dies, IInv, TypeInv, Lineage, Well, Counted, OnlyWedgedIsKilled
  <1> QED BY <1>1, <1>2, <1>3, <1>4 DEF IInv

LEMMA LogLostIInv ==
  ASSUME IInv, LogLost
  PROVE  IInv'
  <1>1. TypeInv'
    BY SMT DEF LogLost, IInv, TypeInv
  <1>2. Lineage'
    BY SMT DEF LogLost, IInv, TypeInv, Lineage
  <1>3. Well'
    BY SMT DEF LogLost, IInv, TypeInv, Lineage, Well
  <1>4. Counted'
    BY SMT DEF LogLost, IInv, TypeInv, Lineage, Well, Counted, OnlyWedgedIsKilled
  <1> QED BY <1>1, <1>2, <1>3, <1>4 DEF IInv

LEMMA SpawnIInv ==
  ASSUME IInv, Spawn
  PROVE  IInv'
  <1>1. TypeInv'
    <2>1. procs' \in [Pids -> Kinds]
      BY DEF Spawn, Running, IInv, TypeInv, Lineage
    <2> QED BY <2>1, SMT DEF Spawn, Running, IInv, TypeInv, Lineage
  <1>2. Lineage'
    BY SMT DEF Spawn, Running, IInv, TypeInv, Lineage
  <1>3. Well'
    BY SMT DEF Spawn, Running, IInv, TypeInv, Lineage, Well
  <1>4. Counted'
    BY SMT DEF Spawn, Running, IInv, TypeInv, Lineage, Well, Counted, OnlyWedgedIsKilled
  <1> QED BY <1>1, <1>2, <1>3, <1>4 DEF IInv

LEMMA AssignIInv ==
  ASSUME IInv, Assign
  PROVE  IInv'
  <1>1. TypeInv'
    BY SMT DEF Assign, Running, Forgiven, IInv, TypeInv
  <1>2. Lineage'
    BY SMT DEF Assign, Running, Forgiven, IInv, TypeInv, Lineage
  <1>3. Well'
    BY SMT DEF Assign, Running, Forgiven, IInv, TypeInv, Lineage, Well
  <1>4. Counted'
    <2>1. (child \in Pids /\ Alive(child) /\ spun => Spins(child))'
      BY DEF Assign, Running, Forgiven, IInv, TypeInv, Lineage, Well, Counted, OnlyWedgedIsKilled
    <2>2. (pc \in {"head", "sleep"} /\ Alive(child) => strikes <= quiet[child])'
      BY SMT DEF Assign, Running, Forgiven, IInv, TypeInv, Lineage, Well, Counted, OnlyWedgedIsKilled
    <2>3. (\/ pc = "poll" /\ Alive(child) /\ spun /\ ~grew
           \/ pc = "sample" /\ spun /\ ~grew
           => quiet[child] > strikes \/ quiet[child] >= STRIKES)'
      BY SMT DEF Assign, Running, Forgiven, IInv, TypeInv, Lineage, Well, Counted, OnlyWedgedIsKilled
    <2>4. OnlyWedgedIsKilled'
      BY SMT DEF Assign, Running, Forgiven, IInv, TypeInv, Lineage, Well, Counted, OnlyWedgedIsKilled
    <2> QED BY <2>1, <2>2, <2>3, <2>4 DEF Counted
  <1> QED BY <1>1, <1>2, <1>3, <1>4 DEF IInv

LEMMA HeadIInv ==
  ASSUME IInv, Head
  PROVE  IInv'
  <1>1. TypeInv'
    BY SMT DEF Head, Running, IInv, TypeInv
  <1>2. Lineage'
    BY SMT DEF Head, Running, IInv, TypeInv, Lineage
  <1>3. Well'
    BY SMT DEF Head, Running, IInv, TypeInv, Lineage, Well
  <1>4. Counted'
    BY SMT DEF Head, Running, IInv, TypeInv, Lineage, Well, Counted, OnlyWedgedIsKilled
  <1> QED BY <1>1, <1>2, <1>3, <1>4 DEF IInv

LEMMA WakeIInv ==
  ASSUME IInv, Wake
  PROVE  IInv'
  <1>1. TypeInv'
    <2>1. quiet' \in [Pids -> Nat]
      BY DEF Wake, Running, IInv, TypeInv, Lineage
    <2> QED BY <2>1, SMT DEF Wake, Running, IInv, TypeInv, Lineage
  <1>2. Lineage'
    BY SMT DEF Wake, Running, IInv, TypeInv, Lineage
  <1>3. Well'
    BY SMT DEF Wake, Running, IInv, TypeInv, Lineage, Well
  <1>4. Counted'
    BY SMT DEF Wake, Running, IInv, TypeInv, Lineage, Well, Counted, OnlyWedgedIsKilled
  <1> QED BY <1>1, <1>2, <1>3, <1>4 DEF IInv

LEMMA PollIInv ==
  ASSUME IInv, Poll
  PROVE  IInv'
  <1>1. TypeInv'
    <2>1. procs' \in [Pids -> Kinds]
      BY DEF Poll, Running, IInv, TypeInv, Lineage
    <2> QED BY <2>1, SMT DEF Poll, Running, IInv, TypeInv, Lineage
  <1>2. Lineage'
    BY SMT DEF Poll, Running, IInv, TypeInv, Lineage
  <1>3. Well'
    BY SMT DEF Poll, Running, IInv, TypeInv, Lineage, Well
  <1>4. Counted'
    BY SMT DEF Poll, Running, IInv, TypeInv, Lineage, Well, Counted, OnlyWedgedIsKilled
  <1> QED BY <1>1, <1>2, <1>3, <1>4 DEF IInv

LEMMA SampleIInv ==
  ASSUME IInv, Sample
  PROVE  IInv'
  <1>1. TypeInv'
    BY SMT DEF Sample, Running, Bad, Stalled, IInv, TypeInv
  <1>2. Lineage'
    BY SMT DEF Sample, Running, Bad, Stalled, IInv, TypeInv, Lineage
  <1>3. Well'
    BY SMT DEF Sample, Running, Bad, Stalled, IInv, TypeInv, Lineage, Well
  <1>4. Counted'
    <2>1. (child \in Pids /\ Alive(child) /\ spun => Spins(child))'
      BY DEF Sample, Running, Bad, Stalled, IInv, TypeInv, Lineage, Well, Counted, OnlyWedgedIsKilled
    <2>2. (pc \in {"head", "sleep"} /\ Alive(child) => strikes <= quiet[child])'
      BY SMT DEF Sample, Running, Bad, Stalled, IInv, TypeInv, Lineage, Well, Counted, OnlyWedgedIsKilled
    <2>3. (\/ pc = "poll" /\ Alive(child) /\ spun /\ ~grew
           \/ pc = "sample" /\ spun /\ ~grew
           => quiet[child] > strikes \/ quiet[child] >= STRIKES)'
      BY SMT DEF Sample, Running, Bad, Stalled, IInv, TypeInv, Lineage, Well, Counted, OnlyWedgedIsKilled
    <2>4. OnlyWedgedIsKilled'
      BY SMT DEF Sample, Running, Bad, Stalled, IInv, TypeInv, Lineage, Well, Counted, OnlyWedgedIsKilled
    <2> QED BY <2>1, <2>2, <2>3, <2>4 DEF Counted
  <1> QED BY <1>1, <1>2, <1>3, <1>4 DEF IInv

LEMMA StopIInv ==
  ASSUME IInv, Stop
  PROVE  IInv'
  <1>1. TypeInv'
    <2>1. procs' \in [Pids -> Kinds]
      BY DEF Stop, Running, StopFrom, IInv, TypeInv, Lineage
    <2> QED BY <2>1, SMT DEF Stop, Running, StopFrom, IInv, TypeInv, Lineage
  <1>2. Lineage'
    BY SMT DEF Stop, Running, StopFrom, IInv, TypeInv, Lineage
  <1>3. Well'
    BY SMT DEF Stop, Running, StopFrom, IInv, TypeInv, Lineage, Well, Counted, OnlyWedgedIsKilled
  <1>4. Counted'
    BY SMT DEF Stop, Running, StopFrom, IInv, TypeInv, Lineage, Well, Counted, OnlyWedgedIsKilled
  <1> QED BY <1>1, <1>2, <1>3, <1>4 DEF IInv

LEMMA StoppedIInv ==
  ASSUME IInv, Stopped
  PROVE  IInv'
  <1>1. TypeInv'
    <2>1. procs' \in [Pids -> Kinds]
      BY DEF Stopped, Running, StopEnds, IInv, TypeInv, Lineage
    <2> QED BY <2>1, SMT DEF Stopped, Running, StopEnds, IInv, TypeInv, Lineage
  <1>2. Lineage'
    BY SMT DEF Stopped, Running, StopEnds, IInv, TypeInv, Lineage
  <1>3. Well'
    BY SMT DEF Stopped, Running, StopEnds, IInv, TypeInv, Lineage, Well, Counted, OnlyWedgedIsKilled
  <1>4. Counted'
    BY SMT DEF Stopped, Running, StopEnds, IInv, TypeInv, Lineage, Well, Counted, OnlyWedgedIsKilled
  <1> QED BY <1>1, <1>2, <1>3, <1>4 DEF IInv

LEMMA FinalIInv ==
  ASSUME IInv, Final
  PROVE  IInv'
  <1>1. TypeInv'
    <2>1. procs' \in [Pids -> Kinds]
      BY DEF Final, Running, StopFrom, IInv, TypeInv, Lineage
    <2> QED BY <2>1, SMT DEF Final, Running, StopFrom, IInv, TypeInv, Lineage
  <1>2. Lineage'
    BY SMT DEF Final, Running, StopFrom, IInv, TypeInv, Lineage
  <1>3. Well'
    BY SMT DEF Final, Running, StopFrom, IInv, TypeInv, Lineage, Well
  <1>4. Counted'
    BY SMT DEF Final, Running, StopFrom, IInv, TypeInv, Lineage, Well, Counted, OnlyWedgedIsKilled
  <1> QED BY <1>1, <1>2, <1>3, <1>4 DEF IInv

LEMMA FinishedIInv ==
  ASSUME IInv, Finished
  PROVE  IInv'
  <1>1. TypeInv'
    <2>1. procs' \in [Pids -> Kinds]
      BY DEF Finished, Running, StopEnds, IInv, TypeInv, Lineage
    <2> QED BY <2>1, SMT DEF Finished, Running, StopEnds, IInv, TypeInv, Lineage
  <1>2. Lineage'
    BY SMT DEF Finished, Running, StopEnds, IInv, TypeInv, Lineage
  <1>3. Well'
    BY SMT DEF Finished, Running, StopEnds, IInv, TypeInv, Lineage, Well
  <1>4. Counted'
    BY SMT DEF Finished, Running, StopEnds, IInv, TypeInv, Lineage, Well, Counted, OnlyWedgedIsKilled
  <1> QED BY <1>1, <1>2, <1>3, <1>4 DEF IInv

LEMMA SignalIInv ==
  ASSUME IInv, Signal
  PROVE  IInv'
  <1>1. TypeInv'
    BY SMT DEF Signal, StopFrom, IInv, TypeInv
  <1>2. Lineage'
    BY SMT DEF Signal, StopFrom, IInv, TypeInv, Lineage
  <1>3. Well'
    BY SMT DEF Signal, StopFrom, IInv, TypeInv, Lineage, Well
  <1>4. Counted'
    BY SMT DEF Signal, StopFrom, IInv, TypeInv, Lineage, Well, Counted, OnlyWedgedIsKilled
  <1> QED BY <1>1, <1>2, <1>3, <1>4 DEF IInv

LEMMA SignalDoneIInv ==
  ASSUME IInv, SignalDone
  PROVE  IInv'
  <1>1. TypeInv'
    <2>1. procs' \in [Pids -> Kinds]
      BY DEF SignalDone, StopEnds, IInv, TypeInv, Lineage
    <2> QED BY <2>1, SMT DEF SignalDone, StopEnds, IInv, TypeInv, Lineage
  <1>2. Lineage'
    BY SMT DEF SignalDone, StopEnds, IInv, TypeInv, Lineage
  <1>3. Well'
    BY SMT DEF SignalDone, StopEnds, IInv, TypeInv, Lineage, Well
  <1>4. Counted'
    BY SMT DEF SignalDone, StopEnds, IInv, TypeInv, Lineage, Well, Counted, OnlyWedgedIsKilled
  <1> QED BY <1>1, <1>2, <1>3, <1>4 DEF IInv

LEMMA NextIInv == IInv /\ [Next]_vars => IInv'
  <1> SUFFICES ASSUME IInv, [Next]_vars PROVE IInv'
    OBVIOUS
  <1>1. CASE Conpot
    BY <1>1, TurnsIInv, LogLineIInv, DiesIInv DEF Conpot
  <1>2. CASE Main
    BY <1>2, SpawnIInv, AssignIInv, HeadIInv, WakeIInv, PollIInv, SampleIInv,
       StopIInv, StoppedIInv, FinalIInv, FinishedIInv DEF Main
  <1>3. CASE UNCHANGED vars
    BY <1>3 DEF vars, IInv, TypeInv, Lineage, Well, Counted, OnlyWedgedIsKilled
  <1> QED
    BY <1>1, <1>2, <1>3, LogLostIInv, SignalIInv, SignalDoneIInv DEF Next, Exited

LEMMA SpecIInv == Spec => []IInv
  BY InitIInv, NextIInv, PTL DEF Spec

-----------------------------------------------------------------------------
(* Two conpots never run at once, whatever steps of main() the signals come*)
(* between and however many children die or are wedged.                    *)
THEOREM OneAtATime == Spec => []OneConpot
  <1>1. IInv => OneConpot
    BY SMT DEF IInv, TypeInv, Lineage, OneConpot
  <1> QED BY <1>1, SpecIInv, PTL

(* When the supervisor has exited no child of it runs.                     *)
THEOREM NoneLeft == Spec => []NoOrphan
  <1>1. IInv => NoOrphan
    BY SMT DEF IInv, TypeInv, Lineage, NoOrphan
  <1> QED BY <1>1, SpecIInv, PTL

(* main() stops a child only after STRIKES whole intervals in which it spun*)
(* and the log stood still.                                                *)
THEOREM OnlyWedged == Spec => []OnlyWedgedIsKilled
  <1>1. IInv => OnlyWedgedIsKilled
    BY DEF IInv, Counted
  <1> QED BY <1>1, SpecIInv, PTL

=============================================================================
