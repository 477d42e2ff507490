-------------------------- MODULE KamstrupParser --------------------------
(* KamstrupRequestParser: the bytes of a connection, in whatever pieces recv  *)
(* returns them, are put in a buffer that get_request scans from its start,   *)
(* taking the escapes out as it goes.  A byte is reduced to what the scan     *)
(* tells apart; "x^" is the escaped form of the byte x.                       *)
EXTENDS Naturals, Sequences, SequencesExt

CONSTANTS MaxFrames   \* bound: requests of the client

VARIABLES
  toCome,    \* bytes of the stream not yet received
  frames,    \* the requests the stream is made of
  buffer,    \* self.bytes
  position,  \* where the scan is, or 0 when it waits for recv
  parsing, escaped, \* self.parsing, self.data_escaped
  parsed,    \* requests returned
  unescaped, \* escapes taken out of what is in the buffer: none, some, or scanned twice
  scan       \* "recv", "scan" or "dead"

parserVars == <<toCome, frames, buffer, position, parsing, escaped, parsed, unescaped, scan>>

Magic == "magic"
Eot == "eot"
Escape == "escape"
Inverted == [x \in {"eot^", "escape^", "data", "eot", "magic", "escape", "invalid"} |->
               CASE x = "eot^" -> "eot" [] x = "escape^" -> "escape" [] x = "eot" -> "eot^"
                 [] x = "escape" -> "escape^" [] OTHER -> "data"]

\* Contents with their checksum, and one whose checksum is wrong.
Good == {<<"data", "data">>, <<"data", "eot">>, <<"escape", "data">>}
Bad == <<"data", "invalid">>
valid_crc(content) == content \in Good

Escaped(content) == FlattenSeq([i \in 1..Len(content) |->
  IF content[i] \in {Eot, Escape} THEN <<Escape, Inverted[content[i]]>> ELSE <<content[i]>>])
Framed(content) == <<Magic>> \o Escaped(content) \o <<Eot>>

ParserInit ==
  /\ frames \in UNION {[1..n -> Good \union {Bad}] : n \in 1..MaxFrames}
  /\ \E junk \in {<<>>, <<"data">>} :
       toCome = junk \o FlattenSeq([i \in 1..Len(frames) |-> Framed(frames[i])])
  /\ buffer = <<>> /\ position = 0 /\ parsing = FALSE /\ escaped = FALSE
  /\ parsed = <<>> /\ unescaped = "none" /\ scan = "recv"

\* recv returned n bytes: add_byte for each, and a scan from the start.
add_bytes ==
  /\ scan = "recv" /\ toCome # <<>>
  /\ \E n \in 1..Len(toCome) :
       buffer' = buffer \o SubSeq(toCome, 1, n) /\ toCome' = SubSeq(toCome, n + 1, Len(toCome))
  /\ position' = 1 /\ scan' = "scan"
  /\ unescaped' = IF unescaped = "none" THEN "none" ELSE "twice"
  /\ UNCHANGED <<frames, parsing, escaped, parsed>>

Byte == buffer[position]
Scanning == position > 0 /\ position <= Len(buffer)

\* No request in what there is: get_request returns nothing.
NoneYet ==
  /\ position > Len(buffer) /\ position' = 0 /\ scan' = "recv"
  /\ UNCHANGED <<toCome, frames, buffer, parsing, escaped, parsed, unescaped>>

\* Bytes before the start of a request are skipped.
Skip ==
  /\ Scanning /\ ~parsing /\ Byte # Magic /\ buffer' = RemoveAt(buffer, position)
  /\ UNCHANGED <<toCome, frames, position, parsing, escaped, parsed, unescaped, scan>>

InRequest == Scanning /\ (parsing \/ Byte = Magic) /\ parsing' = TRUE

\* The byte after an escape is inverted in place; the escape itself is dropped.
Unescape ==
  /\ InRequest /\ escaped /\ escaped' = FALSE
  /\ buffer' = [buffer EXCEPT ![position] = Inverted[@]] /\ position' = position + 1
  /\ UNCHANGED <<toCome, frames, parsed, unescaped, scan>>

DropEscape ==
  /\ InRequest /\ ~escaped /\ Byte = Escape /\ escaped' = TRUE
  /\ unescaped' = IF unescaped = "twice" THEN "twice" ELSE "some"
  /\ buffer' = RemoveAt(buffer, position)
  /\ UNCHANGED <<toCome, frames, position, parsed, scan>>

Next_byte ==
  /\ InRequest /\ ~escaped /\ Byte \notin {Escape, Eot} /\ position' = position + 1
  /\ UNCHANGED <<toCome, frames, buffer, escaped, parsed, unescaped, scan>>

Content == SubSeq(buffer, 2, position - 1)
AtEnd == Scanning /\ (parsing \/ Byte = Magic) /\ ~escaped /\ Byte = Eot

\* A request is returned, and get_request called again on what is left.
Request ==
  /\ AtEnd /\ valid_crc(Content) /\ parsed' = Append(parsed, Content)
  /\ buffer' = SubSeq(buffer, position + 1, Len(buffer)) /\ position' = 1
  /\ unescaped' = (IF unescaped = "twice" THEN "twice" ELSE "none")
  /\ UNCHANGED <<toCome, frames, parsing, escaped, scan>>

\* A wrong checksum drops the bytes before the end mark and goes on with what
\* follows as if it were the request: an index error when there is too little, and
\* otherwise a request that no one made, which ends the handler or is ignored.
BadCrc ==
  /\ AtEnd /\ ~valid_crc(Content) /\ scan' = "dead" /\ position' = 0
  /\ UNCHANGED <<toCome, frames, buffer, parsing, escaped, parsed, unescaped>>

ParserNext ==
  \/ add_bytes \/ NoneYet \/ Skip \/ Unescape \/ DropEscape \/ Next_byte \/ Request \/ BadCrc
ParserSpec == ParserInit /\ [][ParserNext]_parserVars

(* ------------------------------ properties ------------------------------- *)
\* Wherever recv cuts the stream, the requests returned are those of the client,
\* in order and without loss, up to the first with a wrong checksum; unless a cut
\* falls inside a request after an escape, whose bytes are then unescaped twice.
ParsedAsSent ==
  unescaped # "twice" =>
    /\ IsPrefix(parsed, frames)
    /\ scan = "dead" => Len(parsed) < Len(frames) /\ frames[Len(parsed) + 1] = Bad
    /\ (scan = "recv" /\ toCome = <<>>) => parsed = frames
=============================================================================
