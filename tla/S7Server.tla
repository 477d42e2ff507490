----------------------------- MODULE S7Server -----------------------------
(* One S7comm connection (protocols/s7comm): ISO on TCP, a COTP connection    *)
(* request, the negotiation of S7, then requests for the system status lists. *)
(* A packet is its kind.  Before a connection request a packet is read by its *)
(* length, after it by recv(1024), which may return several at once or end    *)
(* inside one: what it returns is parsed as one packet from its first byte on *)
(* and the rest of it is lost, so the next may begin inside a packet.  What a *)
(* packet is matters when it is read, and is left open until then.            *)
EXTENDS Naturals, Sequences

CONSTANTS MaxPackets   \* bound: packets the client sends, each cut in two at most

VARIABLES
  stage,   \* what the handler waits for, or how it ended
  sent,    \* number of packets sent so far
  taken,   \* number of packets received to their end
  begun,   \* has the start of the next one been received?
  gone,    \* the client has closed the connection
  answers  \* what was answered, as what: each answer is recorded as an event

s7Vars == <<stage, sent, taken, begun, gone, answers>>

\* What the parsers tell apart.  A cr is a connection request; dt a TPDU that is
\* neither that nor data; short gives itself a length of 4 or less; data carries
\* an S7 header and asks for a function, diagnostics for status lists by index.
Plain(kind) == [kind |-> kind, fn |-> "none", lists |-> <<>>, index |-> 0]
Data(fn) == [Plain("data") EXCEPT !.fn = fn]
Diagnostics(lists, index) == [Data("diagnostics") EXCEPT !.lists = lists, !.index = index]
Packets ==
  {Plain(k) : k \in {"cr", "dt", "short", "malformed"}}
    \union {Data(fn) : fn \in {"negotiate", "plc_stop", "read"}}
    \union {Diagnostics(<<17>>, 1), Diagnostics(<<17>>, 6), Diagnostics(<<0, 28>>, 1),
            Diagnostics(<<0>>, 1)}

S7Init ==
  /\ stage = "connect" /\ sent = 0 /\ taken = 0 /\ begun = FALSE
  /\ gone = FALSE /\ answers = <<>>

Running == stage \in {"connect", "negotiate", "serve"}

S7Send ==
  /\ Running /\ ~gone /\ sent < MaxPackets /\ sent' = sent + 1
  /\ UNCHANGED <<stage, taken, begun, gone, answers>>

S7Leave ==
  Running /\ ~gone /\ gone' = TRUE /\ UNCHANGED <<stage, sent, taken, begun, answers>>

Goto(s) == stage' = s /\ UNCHANGED answers
Reply(p, s) ==
  /\ stage' = s
  /\ answers' = Append(answers, [at |-> taken + 1, rest |-> begun, as |-> p])
Raises == Goto("failed")   \* any other exception: logged, and the handler ends

\* Module identification: the version is a text where a number is packed, which
\* fails for hardware and firmware; an unknown index gets an empty list.
request_ssl_17(index) == index \notin {6, 7}

\* The first list that is known is answered; none gives two numbers, no data.
request_diagnostics(p) ==
  LET known == SelectSeq(p.lists, LAMBDA id : id \in {17, 28})
  IN  known # <<>> /\ (Head(known) = 17 => request_ssl_17(p.index))

\* S7.handle, and the packing of what it returns: the functions of the table that
\* are not implemented raise, and one that is not in it returns nothing.
S7_handle(p) ==
  IF p.fn = "plc_stop" \/ (p.fn = "diagnostics" /\ request_diagnostics(p))
  THEN Reply(p, "serve") ELSE Raises

\* Before a connection request: a packet is read by the length it gives itself.
Connect(p) ==
  CASE p.kind = "cr" -> Reply(p, "negotiate")
    [] p.kind = "short" -> Goto("rejected")
    [] p.kind = "malformed" -> Raises
    [] OTHER -> Goto("connect")    \* an error is recorded

\* After the confirmation: only the negotiation goes on, anything else that
\* parses is dropped and the server waits for a connection request again.
Negotiate(p) ==
  CASE p.fn = "negotiate" -> Reply(p, "serve")
    [] p.kind = "malformed" -> Raises
    [] OTHER -> Goto("connect")

\* In service every data TPDU is a request; other TPDUs are ignored.
Serve(p) ==
  CASE p.kind = "data" -> S7_handle(p)
    [] p.kind = "malformed" -> Raises
    [] OTHER -> Goto("serve")

\* recv returned the next n packets to their ends, and perhaps the start of one
\* more; before the connection request one packet, or its start, and no more
\* unless that begins inside a packet, where any two bytes are its length.
Received(n, more) ==
  /\ IF begun THEN n > 0 ELSE more \/ n > 0
  /\ stage = "connect" /\ ~begun => n = (IF more THEN 0 ELSE 1)
  /\ taken + n + (IF more THEN 1 ELSE 0) <= sent
  /\ taken' = taken + n /\ begun' = more

\* One round of the handler's loop with something to read: a packet, or its start,
\* cut in what is needed or not, or the rest of one, whatever that happens to be.
S7Packet ==
  /\ Running /\ taken < sent /\ UNCHANGED <<sent, gone>>
  /\ \E n \in 0..MaxPackets, more \in BOOLEAN, p \in Packets :
       /\ Received(n, more)
       /\ CASE stage = "connect" -> Connect(p)
            [] stage = "negotiate" -> Negotiate(p)
            [] OTHER -> Serve(p)

IsLost == Goto("lost")   \* with a CONNECTION_LOST event

\* recv returned nothing.  The inner loop of a connection in service ends, and
\* the outer one records the loss; before the negotiation an empty packet does
\* not parse, and nothing is recorded.
S7End ==
  /\ Running /\ taken = sent /\ gone /\ UNCHANGED <<sent, taken, begun, gone>>
  /\ IF stage = "negotiate" THEN Raises ELSE IsLost

\* Five seconds without a packet or the rest of one, or a reset.
S7Timeout ==
  /\ Running /\ (taken = sent \/ begun \/ gone)
  /\ IsLost /\ UNCHANGED <<sent, taken, begun, gone>>

S7Next == S7Send \/ S7Leave \/ S7Packet \/ S7End \/ S7Timeout
S7Spec == S7Init /\ [][S7Next]_s7Vars /\ WF_s7Vars(S7Packet \/ S7End)

(* ------------------------------ properties ------------------------------- *)
Before(a, b) == a.at < b.at \/ (a.at = b.at /\ ~a.rest /\ b.rest)

\* However recv cuts the stream, nothing is answered twice or out of order, and no
\* status list or stop signal is answered that does not follow a connection request
\* and a negotiation.
AnsweredInOrder ==
  /\ \A i \in 2..Len(answers) : Before(answers[i - 1], answers[i])
  /\ \A i \in 1..Len(answers) : answers[i].as.fn \in {"diagnostics", "plc_stop"} =>
       \E j \in 2..(i - 1) : answers[j].as.fn = "negotiate" /\ answers[j - 1].as.kind = "cr"
=============================================================================
