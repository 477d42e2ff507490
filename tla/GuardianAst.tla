---------------------------- MODULE GuardianAst ----------------------------
(* The Guardian AST server: a handler per connection, with the tanks' figures *)
(* read from the databus when it starts and product names of its own that     *)
(* commands change.  A command is reduced to its first letters and the text   *)
(* that was read with them: reading ends at a line feed, or at "00" wherever  *)
(* it stands, so that the stream may be cut within a name, or one read bring  *)
(* two commands.                                                              *)
EXTENDS Naturals, Sequences, FiniteSets, Functions

CONSTANTS AstPeers,     \* connections
          MaxCommands   \* bound: commands given on all of them

VARIABLES
  ast,      \* phase of each connection: "waiting", "more", "closed", "spinning"
  names,    \* product1..product4 of each connection
  hungup,   \* peers that have closed their side
  events,   \* commands recorded, per connection
  answers   \* the responses of those that have one, and the names shown

astVars == <<ast, names, hungup, events, answers>>

Tanks == 1..4
Default == "default"
\* The text a name is taken from: the whole name, which fits or is too long; what
\* came of it when the read ended at a "00", the one of S60200 ("none") or one in
\* the name ("part"); or the name and the command that came with it ("two").
Texts == {"fits", "long", "none", "part", "two"}
\* A name is padded or cut to 22 characters.
Padded == [t \in Texts |-> CASE t = "long" -> "cut" [] t = "none" -> "blank" [] OTHER -> t]

\* After a report or an error the second command of a read is not looked at.
AstCommands ==
  [name : {"report", "S60205"}, tank : {0}, text : {"fits"}]
    \union [name : {"S6020"}, tank : {0}, text : Texts]
    \union [name : {"S6020"}, tank : {4}, text : Texts \ {"none"}]

GuardianInit ==
  /\ ast = [p \in AstPeers |-> "waiting"] /\ names = [p \in AstPeers |-> [t \in Tanks |-> Default]]
  /\ hungup = {} /\ events = [p \in AstPeers |-> <<>>] /\ answers = [p \in AstPeers |-> <<>>]

Blocked == \E p \in AstPeers : ast[p] = "spinning"
AstServes(p) == ~Blocked /\ UNCHANGED hungup
To(p, phase) == ast' = [ast EXCEPT ![p] = phase]

\* The tanks that S60200 to S60204 name.
Named(cmd) == IF cmd.tank = 0 THEN Tanks ELSE {cmd.tank}

\* A command whose end has come: a name is set without a response, a report shows
\* the names, and anything else is answered with an error.
Run(p, cmd) ==
  /\ names' = IF cmd.name = "S6020"
              THEN [names EXCEPT ![p] = [t \in Tanks |-> IF t \in Named(cmd) THEN Padded[cmd.text] ELSE @[t]]]
              ELSE names
  /\ answers' = IF cmd.name = "S6020" THEN answers
                ELSE [answers EXCEPT ![p] = Append(@, IF cmd.name = "report" THEN names[p] ELSE <<"9999FF1B">>)]
  /\ events' = [events EXCEPT ![p] = Append(@, cmd)]

\* recv returned nothing: the connection is lost.
Lost(p) ==
  /\ AstServes(p) /\ ast[p] = "waiting" /\ p \in hungup /\ To(p, "closed")
  /\ UNCHANGED <<names, events, answers>>

Commands == FoldFunction(LAMBDA e, n : n + Len(e), 0, events)

\* A command, or the beginning of one, which has neither a line feed nor "00".
Command(p) ==
  /\ AstServes(p) /\ ast[p] = "waiting" /\ Commands < MaxCommands
  /\ \/ \E cmd \in AstCommands : Run(p, cmd) /\ UNCHANGED ast
     \/ To(p, "more") /\ UNCHANGED <<names, events, answers>>

\* Without ^A, as the rest of a name that was cut, or with fewer than six bytes,
\* the handler ends; what is no text, and a response that cannot be sent, raise,
\* which is logged and not recorded, and the next command is read.
Refused(p) ==
  /\ AstServes(p) /\ ast[p] \in {"waiting", "more"} /\ (To(p, "closed") \/ To(p, "waiting"))
  /\ UNCHANGED <<names, events, answers>>

\* The rest of the command comes; or the peer has closed, and the loop reads nothing
\* for ever without waiting, so that nothing else of the process runs.
Rest(p) ==
  /\ AstServes(p) /\ ast[p] = "more"
  /\ \/ To(p, "waiting") /\ \E cmd \in AstCommands : Run(p, cmd)
     \/ p \in hungup /\ To(p, "spinning") /\ UNCHANGED <<names, events, answers>>

HangUp(p) ==
  /\ p \notin hungup /\ hungup' = hungup \union {p}
  /\ UNCHANGED <<ast, names, events, answers>>

AstHandle(p) == Lost(p) \/ Command(p) \/ Refused(p) \/ Rest(p)
GuardianNext == \E p \in AstPeers : AstHandle(p) \/ HangUp(p)
\* The hub runs a handler whose socket is ready.
GuardianSpec ==
  GuardianInit /\ [][GuardianNext]_astVars /\ \A p \in AstPeers : WF_astVars(Lost(p) \/ Rest(p))

(* ------------------------------ properties ------------------------------- *)
\* A report shows, for each tank, the last name that was read for it on this
\* connection, with no trace of another connection's: the n-th response against the
\* commands before it.  A name that was cut, or ran on, is shown so.
Before(p, n) ==   \* how many commands came before the n-th that has a response
  CHOOSE k \in 0..Len(events[p]) - 1 :
    /\ events[p][k + 1].name # "S6020"
    /\ Cardinality({i \in 1..k + 1 : events[p][i].name # "S6020"}) = n
NameAt(p, k, t) ==
  LET set == {i \in 1..k : events[p][i].name = "S6020" /\ events[p][i].tank \in {0, t}}
  IN  IF set = {} THEN Default ELSE Padded[events[p][CHOOSE i \in set : \A j \in set : j <= i].text]
ReportsShowNames ==
  \A p \in AstPeers : \A n \in 1..Len(answers[p]) :
    LET k == Before(p, n)
    IN  events[p][k + 1].name = "report" => answers[p][n] = [t \in Tanks |-> NameAt(p, k, t)]

\* The handler of a peer that has closed its side ends, unless some peer closed
\* within a line: then the server is lost.
AstHandlerEnds == \A p \in AstPeers : p \in hungup ~> (ast[p] = "closed" \/ Blocked)
=============================================================================
