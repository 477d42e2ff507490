---------------------------- MODULE HttpServer ----------------------------
(* One kept-alive connection of the HTTP server (protocols/http): requests,   *)
(* the page or status the template configures for them, and how each reply is *)
(* delimited.  A text is reduced to its length in characters and in bytes:    *)
(* "wide" has a character that is not ASCII, "raw" a byte that is not UTF-8.  *)
EXTENDS Naturals

CONSTANTS MaxRequests   \* bound: requests of the connection

VARIABLES
  config,  \* the template: the page, the status pages, the disabled methods
  step,    \* what the handler does next
  request, \* the request at hand
  reply,   \* the reply loaded for it
  inStep,  \* the client finds the next reply where this one ends
  logged,  \* requests recorded, and requests received
  present  \* the client has not closed the connection

httpVars == <<config, step, request, reply, inStep, logged, present>>

Texts == {"empty", "ascii", "wide", "raw"}
Chars(t) == CASE t = "empty" -> 0 [] OTHER -> 1
Bytes(t) == CASE t = "empty" -> 0 [] t = "wide" -> 2 [] OTHER -> 1
NoLength == 9   \* no such header
Here(t) == [source |-> "file", text |-> t, chunks |-> FALSE]
Remote == [source |-> "proxy", text |-> "empty", chunks |-> FALSE]
Optional == {"HEAD", "TRACE", "OPTIONS"}
NoRequest == [method |-> "none", found |-> FALSE, body |-> "none", close |-> FALSE]
NoReply == [status |-> 0, text |-> "empty", length |-> NoLength, chunks |-> FALSE,
            from |-> "file", stale |-> FALSE]

HttpInit ==
  /\ config \in [page: {Here("wide"), Here("raw"), Remote,
                         [Here("ascii") EXCEPT !.chunks = TRUE]},
                 missing: {Here("wide"), Remote}, unavailable: {Here("raw"), Remote},
                 disabled: {{}, Optional}]
  /\ step = "idle" /\ request = NoRequest /\ reply = NoReply
  /\ inStep = TRUE /\ logged = [got |-> 0, kept |-> 0] /\ present = TRUE

(* ----------------------------- the reply --------------------------------- *)
\* The Content-Length of a text that is sent from here: its encoded length.
Sized(text) == Bytes(text)

\* substitute_template_fields puts any value of the databus in the text.
Substituted(text) == IF text = "empty" THEN {"empty"} ELSE {text, "wide"}

\* A page of the file system: status, headers and payload.
Local(status, page, text) ==
  [status |-> status, text |-> text, length |-> IF page.chunks THEN NoLength ELSE Sized(text),
   chunks |-> page.chunks, from |-> "file", stale |-> FALSE]

\* What a remote system answered, as it came; a status page drops the header of a
\* chunked reply and puts nothing in its place, an entity keeps it.
Relayed ==
  {[NoReply EXCEPT !.status = 200, !.text = "ascii", !.length = l, !.from = "proxy"] : l \in {NoLength, 1}}

Minimal503 == [NoReply EXCEPT !.status = 503, !.length = 0]

\* A fetch that fails after the headers leaves them to the page that stands in, and
\* the length or the encoding they give goes out before that page's own.
After(replies) == {[r EXCEPT !.stale = left] : r \in replies, left \in BOOLEAN}

Page(status) == CASE status = 404 -> config.missing [] status = 503 -> config.unavailable
                  [] OTHER -> Here("ascii")

\* load_status: a page that is configured to be fetched falls back to that of 503,
\* and when that one cannot be fetched either to a reply made up on the spot.
load_503 ==
  IF config.unavailable.source = "proxy" THEN Relayed \union After({Minimal503})
  ELSE After({Local(503, config.unavailable, t) : t \in Substituted(config.unavailable.text)})
load_status(status) ==
  LET page == Page(status)
  IN  IF status = 503 THEN load_503
      ELSE IF page.source = "proxy" THEN Relayed \union load_503
      ELSE {Local(status, page, t) : t \in Substituted(page.text)}

\* load_entity: the page of the request, after aliases and triggers.
load_entity ==
  IF config.page.source = "proxy" THEN Relayed \union load_503
  ELSE {Local(200, config.page, t) : t \in Substituted(config.page.text)}

Found == IF request.found THEN load_entity ELSE load_status(404)

\* TRACE answers with the headers of the request and no length; OPTIONS is empty.
Echo == [NoReply EXCEPT !.status = 200, !.text = "ascii"]
Allow == [NoReply EXCEPT !.status = 200, !.length = 0]

\* The body is dropped by HEAD, and by OPTIONS whatever it declared.
Silent == request.method \in {"HEAD", "OPTIONS"}

Replies ==
  CASE request.method \in config.disabled -> load_status(501)
    [] request.method \in {"GET", "POST", "HEAD"} -> Found
    [] request.method = "TRACE" -> {Echo}
    [] request.method = "OPTIONS" -> {Allow}
    [] OTHER -> load_status(501)                 \* send_error

(* ------------------------------ the handler ------------------------------ *)
Receive ==
  /\ step = "idle" /\ present /\ logged.got < MaxRequests
  /\ \E m \in {"GET", "POST", "PUT"} \union Optional, found, close \in BOOLEAN,
        body \in {"none", "whole", "short", "not a length"} :
       request' = [method |-> m, found |-> found, body |-> body, close |-> close]
  /\ step' = "body" /\ reply' = NoReply /\ logged' = [logged EXCEPT !.got = @ + 1]
  /\ UNCHANGED <<config, inStep, present>>

Closes == step' = "closed" /\ UNCHANGED <<reply, inStep, logged>>

\* The body is read whole: one that is short is waited for until the client goes.
Body ==
  /\ step = "body" /\ (request.body = "short" => ~present)
  /\ IF request.body = "not a length" THEN Closes
     ELSE step' = "load" /\ UNCHANGED <<reply, inStep, logged>>
  /\ UNCHANGED <<config, request, present>>

\* do_GET and the others, after any tarpit.
Load ==
  /\ step = "load" /\ reply' \in Replies /\ step' = "head"
  /\ UNCHANGED <<config, request, inStep, logged, present>>

\* The status line and the headers; a client that is gone ends the handler.
Head ==
  /\ step = "head" /\ UNCHANGED <<config, request, present>>
  /\ \/ step' = "payload" /\ UNCHANGED <<reply, inStep, logged>>
     \/ ~present /\ Closes

\* GET encodes as the length was counted; the others cannot encode a byte that was
\* not UTF-8; chunks are written as text, which the socket refuses.
Unwritable ==
  /\ ~Silent /\ request.method # "TRACE" /\ reply.from = "file"
  /\ reply.chunks \/ (request.method # "GET" /\ reply.text = "raw")

Payload ==
  /\ step = "payload" /\ UNCHANGED <<config, request, present>>
  /\ IF Unwritable \/ (~present /\ ~Silent) THEN Closes
     ELSE /\ step' = "log" /\ UNCHANGED <<reply, logged>>
          /\ inStep' = CASE request.method = "HEAD" -> TRUE
                         [] request.method = "OPTIONS" -> reply.length = 0
                         [] OTHER -> ~reply.stale /\ reply.length = Bytes(reply.text)

\* The event is added when the reply is out.
Log ==
  /\ step = "log" /\ logged' = [logged EXCEPT !.kept = @ + 1]
  /\ step' = IF request.close THEN "closed" ELSE "idle"
  /\ UNCHANGED <<config, request, reply, inStep, present>>

HttpLeave == present /\ present' = FALSE /\ UNCHANGED <<config, step, request, reply, inStep, logged>>
HttpEof ==
  /\ step = "idle" /\ ~present /\ Closes /\ UNCHANGED <<config, request, present>>

HttpNext == Receive \/ Body \/ Load \/ Head \/ Payload \/ Log \/ HttpLeave \/ HttpEof
HttpSpec == HttpInit /\ [][HttpNext]_httpVars

(* ------------------------------ properties ------------------------------- *)
\* On a connection that goes on, the reply to a request for a page that is served
\* from here ends where its Content-Length says, whatever was substituted in the
\* text and whichever status page stood in for another, unless a fetch that failed
\* half-way left it the headers of another; and at most the request at hand is
\* missing from the record.
RepliesDelimited ==
  step \in {"log", "idle"} =>
    /\ /\ request.method \in {"GET", "POST", "HEAD", "PUT"}
       /\ reply.from = "file" /\ ~reply.stale
       => inStep
    /\ logged.got - logged.kept = (IF step = "log" THEN 1 ELSE 0)
=============================================================================
