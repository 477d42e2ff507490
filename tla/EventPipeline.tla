--------------------------- MODULE EventPipeline ---------------------------
(***************************************************************************)
(* The road of an attack event inside one conpot process: a protocol       *)
(* handler looks its session up (core/session_manager.py), records an      *)
(* event on it (core/attack_session.py), the event travels through the one *)
(* log queue to the log worker (core/log_worker.py), which hands it to     *)
(* every enabled sink in turn and, whenever the queue was silent for two   *)
(* seconds, expires idle sessions.  bin/conpot starts these parts and, on  *)
(* an interrupt, stops them one after the other and waits for each, while  *)
(* the handlers that run go on until the process exits; any unhandled      *)
(* exception, or the supervisor's signal, ends the process, and it is      *)
(* started again with everything but the sinks' files gone.                *)
(*                                                                         *)
(* All parts are greenlets of one thread: code between two blocking calls  *)
(* is atomic, and so is the action that models it.                         *)
(***************************************************************************)
EXTENDS Integers, Sequences, FiniteSets, SequencesExt

CONSTANTS
    Conns,         \* client connections that may come
    ProtoOf,       \* the protocol of a connection
    SrcOf,         \* its source address
    Quiet,         \* protocols that record exchanges only, neither a connection
                   \* nor its end: proxy, http, snmp
    Servers,       \* bin/conpot's `servers`: protocols, then Worker, then proxies
    Worker,        \* the log worker's place in Servers
    Sinks,         \* the enabled sinks, in the order the worker serves them
    NoSession,     \* held by a connection that has no handler
    MsPerSec,      \* clock ticks (milliseconds) in a second: 1000 in the code
    TimeoutSec,    \* [session] timeout
    ClockSteps,    \* what one tick may add to the wall clock
    MaxTime,       \* bound: the clock
    MaxEvents,     \* bound: events recorded
    MaxSessions,   \* bound: sessions made by one process
    MaxCrashes     \* bound: deaths of a process that has recorded something

ASSUME ClockAssumption ==
    /\ MsPerSec \in Nat \ {0}
    /\ TimeoutSec \in Nat \ {0}
    /\ ClockSteps \subseteq Int
    /\ MaxTime \in Nat /\ MaxEvents \in Nat
    /\ MaxSessions \in Nat /\ MaxCrashes \in Nat

ASSUME ServersAssumption ==
    /\ Servers \in Seq(STRING)
    /\ Worker \in ToSet(Servers)
    /\ \A c \in Conns : ProtoOf[c] \in ToSet(Servers) \ {Worker}

ASSUME SinksAssumption ==
    /\ Sinks \in Seq(STRING)
    /\ \A i, j \in DOMAIN Sinks : Sinks[i] = Sinks[j] => i = j

ASSUME NoSessionAssumption == NoSession \notin Nat

VARIABLES
    now,       \* datetime.utcnow(), in ticks
    sess,      \* every AttackSession made by this process; its id is its index
    sessions,  \* SessionManager._sessions: the ids in it.  It is only ever
               \* appended to and removed from, so its order is that of the ids
    held,      \* the session each connection's handler holds
    queue,     \* log_queue: events in flight, by their number
    pc,        \* where the log worker is
    hand,      \* the event the worker took
    at,        \* the sink, in Sinks, that event is to visit next, or 0
    enabled,   \* LogWorker.enabled
    server,    \* what each protocol server does: "serving", "stopped" (its
               \* listener closed), "returned" (its greenlet ended)
    stopAt,    \* 0, or the entry of Servers the shutdown loop is at
    up,        \* the process runs
    crashes,   \* such deaths so far
    logged,    \* what each sink was given, by every process
    made,      \* history: how many events were recorded; they are 1..made
    base       \* history: events recorded by processes that are gone

worker == <<pc, hand, at, enabled>>
main == <<server, stopAt>>
vars == <<now, sessions, sess, held, queue, pc, hand, at, enabled, server,
          stopAt, up, crashes, logged, made, base>>

Events == 1..MaxEvents
SinkSet == ToSet(Sinks)
Listeners == ToSet(Servers) \ {Worker}
Key(c) == <<ProtoOf[c], SrcOf[c]>>

Init ==
    /\ now = 0
    /\ sessions = {}
    /\ sess = <<>>
    /\ held = [c \in Conns |-> NoSession]
    /\ queue = <<>>
    /\ pc = "loop"
    /\ hand = 0
    /\ at = 0
    /\ enabled = TRUE
    /\ server = [p \in Listeners |-> "serving"]
    /\ stopAt = 0
    /\ up = TRUE
    /\ crashes = 0
    /\ logged = [k \in SinkSet |-> <<>>]
    /\ made = 0
    /\ base = 0

-----------------------------------------------------------------------------
(* Sessions.                                                               *)

NewSession_seconds(c) ==   \* mutant: the start taken in the wrong unit
    [key |-> Key(c), start |-> now * MsPerSec, data |-> {}, events |-> 0,
     touched |-> now]

NewSession(c) ==
    [key |-> Key(c), start |-> now, data |-> {}, events |-> 0,
     touched |-> now]

\* The listed sessions of a connection's protocol and source.
FindSession(c) == {s \in sessions : sess[s].key = Key(c)}

FreeKey_same(data, k) == k   \* mutant: no search

FreeKey_down(data, k) ==     \* mutant: searches towards the past
    CHOOSE m \in (k - Cardinality(data))..k :
        /\ m \notin data
        /\ \A j \in (m + 1)..k : j \in data

\* The first free millisecond at or after k: `while elapse_ms in self.data`.
FreeKey(data, k) ==
    CHOOSE m \in k..(k + Cardinality(data)) :
        /\ m \notin data
        /\ \A j \in k..(m - 1) : j \in data

\* A session after add_event.  Its last two fields are history: how many
\* events it was given, and the latest reading of the clock at one of them.
Recorded(r, k) ==
    [key |-> r.key, start |-> r.start, data |-> r.data \cup {k},
     events |-> r.events + 1,
     touched |-> IF r.data # {} /\ now < r.touched THEN r.touched ELSE now]

\* add_event on session s of table t.
AddEvent(t, s) ==
    LET key == FreeKey(t[s].data, now - t[s].start)
    IN  /\ sess' = [t EXCEPT ![s] = Recorded(t[s], key)]
        /\ made' = made + 1
        /\ queue' = Append(queue, made + 1)

Closed == up /\ stopAt > Len(Servers)
Running == up /\ ~Closed
Accepting(c) == server[ProtoOf[c]] = "serving"

\* A handler starts: get_session and, but for the quiet protocols, a
\* NEW_CONNECTION event.
Open(c) ==
    /\ Running /\ Accepting(c) /\ held[c] = NoSession
    /\ made < MaxEvents
    /\ FindSession(c) # {} \/ Len(sess) < MaxSessions
    /\ LET found == FindSession(c)
           isNew == found = {}
           s     == IF isNew THEN Len(sess) + 1 ELSE Min(found)
           table == IF isNew THEN Append(sess, NewSession(c)) ELSE sess
       IN  /\ sessions' = sessions \cup {s}
           /\ held' = [held EXCEPT ![c] = s]
           /\ IF ProtoOf[c] \in Quiet
              THEN sess' = table /\ UNCHANGED <<made, queue>>
              ELSE AddEvent(table, s)
    /\ UNCHANGED <<now, worker, main, up, crashes, logged, base>>

\* The handler records one exchange on the session it holds, listed or not.
Activity(c) ==
    /\ Running /\ held[c] # NoSession
    /\ made < MaxEvents
    /\ AddEvent(sess, held[c])
    /\ UNCHANGED <<now, sessions, held, worker, main, up, crashes, logged, base>>

\* The handler records how the connection ended (CONNECTION_LOST and the
\* like) and returns.
Close(c) ==
    /\ Running /\ held[c] # NoSession /\ ProtoOf[c] \notin Quiet
    /\ made < MaxEvents
    /\ AddEvent(sess, held[c])
    /\ held' = [held EXCEPT ![c] = NoSession]
    /\ UNCHANGED <<now, sessions, worker, main, up, crashes, logged, base>>

\* The handler ends without such an event: a quiet protocol's, a finished
\* transfer's, one that cannot reach the proxied service, one that raises.
\* What set_ended writes is read by nothing and left out.
Leave(c) ==
    /\ Running /\ held[c] # NoSession
    /\ held' = [held EXCEPT ![c] = NoSession]
    /\ UNCHANGED <<now, sessions, sess, queue, worker, main, up, crashes,
                   logged, made, base>>

-----------------------------------------------------------------------------
(* The log worker.                                                         *)

\* The worker comes to sink i with event n, or is through with it.
Serve(i, n) ==
    IF i <= Len(Sinks) THEN pc' = "publish" /\ hand' = n /\ at' = i
    ELSE pc' = "loop" /\ hand' = 0 /\ at' = 0

Take ==
    /\ up /\ queue # <<>>
    /\ pc = "wait" \/ (pc = "loop" /\ enabled)
    /\ queue' = Tail(queue)
    /\ Serve(1, Head(queue))
    /\ UNCHANGED <<now, sessions, sess, held, enabled, main, up, crashes,
                   logged, made, base>>

\* log_queue.get(timeout=2) on an empty queue.
Wait ==
    /\ up /\ pc = "loop" /\ enabled /\ queue = <<>>
    /\ pc' = "wait"
    /\ UNCHANGED <<now, sessions, sess, held, queue, hand, at, enabled,
                   main, up, crashes, logged, made, base>>

NextSink_elif == Len(Sinks) + 1   \* mutant: the sinks' `if`s as one if/elif
NextSink == at + 1

\* One sink of the worker's list.  The network sinks yield, so other
\* greenlets run between two of these steps.
Publish ==
    /\ up /\ pc = "publish"
    /\ logged' = [logged EXCEPT ![Sinks[at]] = Append(@, hand)]
    /\ Serve(NextSink, hand)
    /\ UNCHANGED <<now, sessions, sess, held, queue, enabled, main, up,
                   crashes, made, base>>

LastKey(s) == IF sess[s].data = {} THEN 0 ELSE Max(sess[s].data)

TimedOut_start(s) ==   \* mutant: idleness measured from the session's start
    (now \div MsPerSec - sess[s].start \div MsPerSec) >= TimeoutSec

\* Whole seconds by the wall clock (time.mktime of a timetuple) against the
\* milliseconds of the latest key.
TimedOut(s) ==
    (now \div MsPerSec - sess[s].start \div MsPerSec) * MsPerSec - LastKey(s)
        >= TimeoutSec * MsPerSec

\* The sessions in the list up to s with none before s that is not timed out.
Run(s) == {t \in sessions : /\ t <= s
                           /\ \A u \in sessions : t <= u /\ u <= s => TimedOut(u)}

Gone_break ==   \* mutant: the loop stops at the first session that is not idle
    {s \in sessions : /\ Cardinality(Run(s)) % 2 = 1
                      /\ \A t \in sessions : t <= s => TimedOut(t)}

\* `for session in sessions: ... sessions.remove(session)`: removing an entry
\* moves the rest down under the iterator, so the entry after it is not seen.
\* Of a run of timed-out sessions every other one goes, the first of it first.
Gone == {s \in sessions : Cardinality(Run(s)) % 2 = 1}

AfterEmpty_retry == "wait"   \* mutant: the get retried without a look at enabled

AfterEmpty == "loop"         \* back to `while self.enabled`

\* Queue.get raises Empty: _process_sessions runs.  The timer is abstracted
\* to a choice: it may fire at any time while the worker waits.
ProcessSessions ==
    /\ up /\ pc = "wait"
    /\ sessions' = sessions \ Gone
    /\ pc' = AfterEmpty
    /\ UNCHANGED <<now, sess, held, queue, hand, at, enabled, main, up, crashes,
                   logged, made, base>>

WorkerExit ==
    /\ up /\ pc = "loop" /\ ~enabled
    /\ pc' = "done"
    /\ UNCHANGED <<now, sessions, sess, held, queue, hand, at, enabled,
                   main, up, crashes, logged, made, base>>

-----------------------------------------------------------------------------
(* bin/conpot.                                                             *)

\* KeyboardInterrupt while the main greenlet waits.
Interrupt ==
    /\ up /\ stopAt = 0
    /\ stopAt' = 1
    /\ UNCHANGED <<now, sessions, sess, held, queue, worker, server, up,
                   crashes, logged, made, base>>

Stopping == up /\ stopAt \in DOMAIN Servers
Stopped == Servers[stopAt]

\* The entries of `servers` after the log worker are the proxies.
IsProxy(i) == \E j \in DOMAIN Servers : j < i /\ Servers[j] = Worker
IsProtocol(i) == Servers[i] # Worker /\ ~IsProxy(i)

\* server.stop() of a protocol: its listener is closed.  What handlers it
\* has started live on.
StopServer ==
    /\ Stopping /\ IsProtocol(stopAt) /\ server[Stopped] = "serving"
    /\ server' = [server EXCEPT ![Stopped] = "stopped"]
    /\ UNCHANGED <<now, sessions, sess, held, queue, worker, stopAt, up,
                   crashes, logged, made, base>>

\* A stopped server's serve_forever, or its loop, comes to its end.
ServerReturns ==
    /\ Running
    /\ \E p \in Listeners :
           /\ server[p] = "stopped"
           /\ server' = [server EXCEPT ![p] = "returned"]
    /\ UNCHANGED <<now, sessions, sess, held, queue, worker, stopAt, up,
                   crashes, logged, made, base>>

\* greenlet.get() of a protocol server
JoinServer ==
    /\ Stopping /\ IsProtocol(stopAt) /\ server[Stopped] = "returned"
    /\ stopAt' = stopAt + 1
    /\ UNCHANGED <<now, sessions, sess, held, queue, worker, server, up,
                   crashes, logged, made, base>>

\* Proxy.stop() does nothing, and a proxy's greenlet ended when its listener
\* had been started: the proxy accepts until the process exits.
PassProxy ==
    /\ Stopping /\ Stopped # Worker /\ IsProxy(stopAt)
    /\ stopAt' = stopAt + 1
    /\ UNCHANGED <<now, sessions, sess, held, queue, worker, server, up,
                   crashes, logged, made, base>>

\* log_worker.stop()
StopWorker ==
    /\ Stopping /\ Stopped = Worker /\ enabled
    /\ enabled' = FALSE
    /\ UNCHANGED <<now, sessions, sess, held, queue, pc, hand, at, main, up,
                   crashes, logged, made, base>>

\* greenlet.get() of the log worker
JoinWorker ==
    /\ Stopping /\ Stopped = Worker /\ pc = "done"
    /\ stopAt' = stopAt + 1
    /\ UNCHANGED <<now, sessions, sess, held, queue, worker, server, up,
                   crashes, logged, made, base>>

\* What a new process starts with: only the sinks' files survive.
Fresh ==
    /\ sessions' = {}
    /\ sess' = <<>>
    /\ held' = [c \in Conns |-> NoSession]
    /\ queue' = <<>>
    /\ pc' = "loop"
    /\ hand' = 0
    /\ at' = 0
    /\ enabled' = TRUE
    /\ server' = [p \in Listeners |-> "serving"]
    /\ stopAt' = 0

\* A greenlet dies (on_unhandled_greenlet_exception exits) or the process
\* is killed.
Crash ==
    /\ Running
    /\ up' = FALSE
    /\ crashes' = IF made = base THEN crashes ELSE crashes + 1
    /\ crashes' <= MaxCrashes
    /\ Fresh /\ base' = made
    /\ UNCHANGED <<now, logged, made>>

\* The supervisor, or the container's restart policy, starts it again.
Restart ==
    /\ ~up
    /\ up' = TRUE
    /\ UNCHANGED <<now, sessions, sess, held, queue, worker, main, crashes,
                   logged, made, base>>

\* The wall clock moves; a negative step is the clock being set back.
Tick ==
    /\ \E d \in ClockSteps :
           /\ now + d \in 0..MaxTime
           /\ now' = now + d
    /\ UNCHANGED <<sessions, sess, held, queue, worker, main, up, crashes,
                   logged, made, base>>

Terminated == Closed /\ UNCHANGED vars

Next ==
    \/ \E c \in Conns : Open(c) \/ Activity(c) \/ Close(c) \/ Leave(c)
    \/ Take \/ Wait \/ Publish \/ ProcessSessions \/ WorkerExit
    \/ Interrupt
    \/ StopServer \/ ServerReturns \/ JoinServer \/ StopWorker \/ JoinWorker
    \/ PassProxy
    \/ Crash \/ Restart
    \/ Tick \/ Terminated

Spec == Init /\ [][Next]_vars

(* gevent runs every ready greenlet and fires every timer: the worker, the *)
(* main greenlet of a running shutdown and a stopped server's greenlet make*)
(* progress.  Clients, crashes and interrupts are under no obligation.     *)
Fairness ==
    /\ WF_vars(Take \/ Wait \/ Publish \/ WorkerExit)
    /\ WF_vars(ProcessSessions)
    /\ WF_vars(StopServer \/ JoinServer \/ StopWorker \/ JoinWorker \/ PassProxy)
    /\ WF_vars(ServerReturns)
    /\ WF_vars(Restart)

FairSpec == Spec /\ Fairness

-----------------------------------------------------------------------------
(* Properties.                                                             *)

Session == [key : {Key(c) : c \in Conns}, start : 0..MaxTime,
            data : SUBSET Int, events : Nat, touched : 0..MaxTime]

(* Every variable has its type, and the shutdown index, the worker and the *)
(* event it holds fit together.                                            *)
TypeOK ==
    /\ now \in 0..MaxTime
    /\ sess \in Seq(Session)
    /\ sessions \subseteq DOMAIN sess
    /\ held \in [Conns -> DOMAIN sess \cup {NoSession}]
    /\ queue \in Seq(Events)
    /\ pc \in {"loop", "wait", "publish", "done"}
    /\ IF pc = "publish" THEN hand \in Events /\ at \in DOMAIN Sinks
                         ELSE hand = 0 /\ at = 0
    /\ enabled \in BOOLEAN /\ up \in BOOLEAN
    /\ server \in [Listeners -> {"serving", "stopped", "returned"}]
    /\ stopAt \in 0..(Len(Servers) + 1)
    /\ crashes \in 0..MaxCrashes
    /\ logged \in [SinkSet -> Seq(Events)]
    /\ made \in 0..MaxEvents /\ base \in 0..made

\* What sink k still has to be given.
Pending(k) ==
    (IF pc = "publish" /\ \E i \in at..Len(Sinks) : Sinks[i] = k
     THEN <<hand>> ELSE <<>>) \o queue

(* Every event of this process has been given to each sink, or is in the   *)
(* worker's hand, or in the queue, once and in the order it was recorded;  *)
(* a sink's file never has an event twice or out of order, across restarts.*)
FifoDelivery ==
    \A k \in SinkSet :
        LET road == logged[k] \o Pending(k)
        IN  /\ \A i, j \in DOMAIN road : i < j => road[i] < road[j]
            /\ (base + 1)..made \subseteq ToSet(road)

(* An event never overwrites another in session.data, even when several    *)
(* fall in one millisecond or the clock is set back.                       *)
NoEventOverwritten ==
    \A s \in DOMAIN sess : Cardinality(sess[s].data) = sess[s].events

(* An event recorded when the clock reads no less than it ever did at an   *)
(* earlier event of its session gets a greater key than all of them, how-  *)
(* ever many handlers share the session and wherever a set-back clock and  *)
(* the search for a free key led before: max(session.data) then is the last*)
(* event, as _process_sessions takes it to be.                             *)
KeysInEventOrder ==
    [][\A s \in DOMAIN sess \cap DOMAIN sess' :
           now >= sess[s].touched
               => \A new \in sess'[s].data \ sess[s].data, k \in sess[s].data :
                      k < new]_vars

(* A session is expired only after no event was recorded on it, by the wall*)
(* clock, for more than the timeout less the second that truncating both   *)
(* readings can add; one that has no event, only after that time since it  *)
(* was made.                                                               *)
NoEarlyExpiry ==
    [][\A s \in sessions \ sessions' :
           up' => now - sess[s].touched > (TimeoutSec - 1) * MsPerSec]_vars

(* Every event that is recorded reaches every sink unless the process dies *)
(* first.  Of a shutdown, the events lost are those still in the queue when*)
(* the worker ended, what the handlers recorded behind its back among them;*)
(* never the one it had taken.                                             *)
EveryEventLogged ==
    \A n \in Events :
        (made >= n) ~> \/ \A k \in SinkSet : n \in ToSet(logged[k])
                       \/ base >= n \/ ~up
                       \/ pc = "done" /\ n \in ToSet(queue)

(* Once the clients are quiet a timed-out session leaves the list, although*)
(* one pass may step over it: later passes come back to it.                *)
TimedOutEventuallyExpires ==
    \A s \in 1..MaxSessions :
        (up /\ s \in sessions /\ TimedOut(s))
            ~> (~up \/ ~enabled \/ s \notin sessions \/ ~TimedOut(s))

(* A shutdown that was begun ends, although handlers go on and proxies go  *)
(* on accepting: it waits for the greenlets of the servers only, and the   *)
(* worker notices `enabled` within one turn of its loop because its get has*)
(* a timeout.                                                              *)
ShutdownCompletes == (up /\ stopAt # 0) ~> (Closed \/ ~up)

=============================================================================
