---------------------------- MODULE ProxyRelay ----------------------------
(* One connection of the proxy: a greenlet relays between the client and the  *)
(* proxied device, recording each piece before it is sent on.  Pieces are     *)
(* numbered in the order they were read.                                      *)
EXTENDS Naturals, Sequences

CONSTANTS MaxPieces   \* bound: pieces that both sides send

VARIABLES
  relay,     \* "connecting", "select", "send" or "done"
  readable,  \* the sides that select returned and that are still to be read, in order
  held,      \* the side whose piece is being sent on, while relay = "send"
  produced, fetched, recorded, sent, \* per side: pieces made, read, recorded, sent on
  torn,      \* per side: send took a part of a piece, and the rest is dropped
  shut,      \* sides that have closed
  ended      \* set_ended was called

proxyVars == <<relay, readable, held, produced, fetched, recorded, sent, torn, shut, ended>>
Sides == {"proxied", "remote"}   \* proxy_socket and sock
None == "none"

ProxyInit ==
  /\ relay = "connecting" /\ readable = <<>> /\ held = None
  /\ produced = [s \in Sides |-> 0] /\ fetched = [s \in Sides |-> 0]
  /\ recorded = [s \in Sides |-> 0] /\ sent = [s \in Sides |-> <<>>]
  /\ torn = [s \in Sides |-> FALSE] /\ shut = {} /\ ended = FALSE

Streams == <<produced, fetched, recorded, sent, torn>>

\* The sides are on their own.
Produce(s) ==
  /\ s \notin shut /\ produced["proxied"] + produced["remote"] < MaxPieces
  /\ produced' = [produced EXCEPT ![s] = @ + 1]
  /\ UNCHANGED <<relay, readable, held, fetched, recorded, sent, torn, shut, ended>>
Shut(s) ==
  /\ s \notin shut /\ shut' = shut \union {s} /\ UNCHANGED <<relay, readable, held, Streams, ended>>

\* No connection to the device: both sockets are closed, the session is not ended.
ConnectTo ==
  /\ relay = "connecting" /\ relay' \in {"select", "done"}
  /\ UNCHANGED <<readable, held, Streams, shut, ended>>

Finish == relay' = "done" /\ readable' = <<>> /\ held' = None /\ ended' = TRUE

\* select returns the sides that have something to read, their close included, in
\* the order they were given; an error of a socket ends the relay.
Ready(s) == produced[s] > fetched[s] \/ s \in shut
Wait ==
  /\ relay = "select" /\ readable = <<>> /\ UNCHANGED <<Streams, shut>>
  /\ \/ /\ readable' = SelectSeq(<<"proxied", "remote">>, Ready) /\ readable' # <<>>
        /\ UNCHANGED <<relay, held, ended>>
     \/ \E s \in Sides : s \in shut /\ Finish

\* handle_in_data and handle_out_data record the piece first.
Record(s) == recorded' = [recorded EXCEPT ![s] = @ + 1]

\* The next side is read: a piece, which is recorded, or nothing when it has closed.
Read ==
  /\ relay = "select" /\ readable # <<>>
  /\ LET s == Head(readable)
     IN  IF produced[s] > fetched[s]
         THEN /\ fetched' = [fetched EXCEPT ![s] = @ + 1] /\ Record(s)
              /\ relay' = "send" /\ held' = s /\ readable' = Tail(readable)
              /\ UNCHANGED <<produced, sent, torn, shut, ended>>
         ELSE Finish /\ UNCHANGED <<Streams, shut>>

\* send waits for room; it may take a part of the piece, and the rest is dropped,
\* or fail when the other side has closed, which ends the relay.
Send ==
  /\ relay = "send" /\ UNCHANGED <<produced, fetched, recorded, shut>>
  /\ \/ /\ sent' = [sent EXCEPT ![held] = Append(@, fetched[held])]
        /\ \/ UNCHANGED torn
           \/ torn' = [torn EXCEPT ![held] = TRUE]
        /\ relay' = "select" /\ held' = None /\ UNCHANGED <<readable, ended>>
     \/ (\E s \in Sides : s # held /\ s \in shut) /\ Finish /\ UNCHANGED <<sent, torn>>

ProxyNext == ConnectTo \/ Wait \/ Read \/ Send \/ \E s \in Sides : Produce(s) \/ Shut(s)
\* The hub runs the handler when its socket is ready; connect has a timeout of the
\* system's, and whether there is room to send is up to the other side.
ProxySpec ==
  ProxyInit /\ [][ProxyNext]_proxyVars /\ WF_proxyVars(ConnectTo \/ Wait \/ Read) /\ WF_proxyVars(Send)

(* ------------------------------ properties ------------------------------- *)
\* What reached the other side are the pieces in their order, none left out (but
\* for the rest of a torn one), and all of it is recorded, in either direction.
RelayedIsRecorded ==
  \A s \in Sides :
    sent[s] = [i \in 1..Len(sent[s]) |-> i] /\ Len(sent[s]) <= recorded[s] /\ recorded[s] <= produced[s]

\* A side that closes ends the relay, as long as what is sent on is taken in the end.
RelayEnds == shut # {} ~> relay = "done"
=============================================================================
