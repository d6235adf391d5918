----------------------------- MODULE Connection -----------------------------
(***************************************************************************)
(* The data path of one connection: a client_session and a server_session *)
(* exchanging frames over the two directions of their stream, with the     *)
(* buffers of struct message (module FrameCodec) and the default echo      *)
(* request handler.  The order of operations within a session and the      *)
(* error paths are modelled in module Session; here every transfer         *)
(* succeeds and each step is one completion handler: the transfer it       *)
(* completes and the on_X hook that runs then.  A read of n bytes          *)
(* completes once n bytes are in its direction of the stream.              *)
(*                                                                         *)
(* Peer = "client_session": the client is micro_tcp's client_session,      *)
(* driven by client::send.  Peer = "hostile": the server's peer is any     *)
(* program that writes arbitrary bytes to the connection.                  *)
(***************************************************************************)
EXTENDS FrameCodec

CONSTANTS
  Peer,          \* "client_session" or "hostile"
  ContentChars,  \* the bytes a request content is made of
  MaxContent,    \* the largest request content, in bytes
  MaxSends       \* bound on the requests the peer sends

ASSUME PeerAssumption == Peer \in {"client_session", "hostile"}
ASSUME ContentAssumption ==
  ContentChars \subseteq Chars /\ ContentChars # {} /\ MaxContent \in Nat
ASSUME MaxSendsAssumption == MaxSends \in Nat

VARIABLES
  cw, cr,     \* client_session's write_buffer_ and read_buffer_
  sw, sr,     \* server_session's write_buffer_ and read_buffer_
  c2s, s2c,   \* bytes written and not yet read, client to server and back
  cpc, spc,   \* the operation each session waits for
  sends,      \* requests sent so far
  request,    \* the content of the client's last request (history)
  response    \* the content of the client's last response (history)

vars == <<cw, cr, sw, sr, c2s, s2c, cpc, spc, sends, request, response>>

\* The contents a request may have.
Contents == UNION {[1..n -> ContentChars] : n \in 0..MaxContent}

\* The first n bytes of a direction of the stream, and the rest.
Front(q, n) == SubSeq(q, 1, n)
Rest(q, n) == SubSeq(q, n + 1, Len(q))

Init ==
  /\ cw = NewMessage /\ cr = NewMessage
  /\ sw = NewMessage /\ sr = NewMessage
  /\ c2s = <<>> /\ s2c = <<>>
  /\ cpc = "idle"
  /\ spc = "read_header"
  /\ sends = 0
  /\ request = <<>> /\ response = <<>>

-----------------------------------------------------------------------------
(***************************************************************************)
(* client_session, driven by client::send.                                 *)
(***************************************************************************)

\* main builds message(content), client::send hands it to
\* client_session::send: write_buffer_ = message,
\* prepare_header_buffer_write(), do_write_header().  The caller modelled
\* here sends only once the previous response has been handled; the code
\* does not enforce this (a send during an exchange is module Session's
\* run client_send_during_exchange).
Send ==
  /\ Peer = "client_session"
  /\ cpc = "idle"
  /\ sends < MaxSends
  /\ \E c \in Contents :
       /\ cw' = PrepareHeaderWrite(MessageOf(c))
       /\ request' = c
  /\ cpc' = "write_header"
  /\ sends' = sends + 1
  /\ UNCHANGED <<cr, sw, sr, c2s, s2c, spc, response>>

\* The header is written; on_write_header: prepare_content_buffer_write(),
\* do_write_content().
ClientWriteHeader ==
  /\ cpc = "write_header"
  /\ c2s' = c2s \o cw.header
  /\ cw' = PrepareContentWrite(cw)
  /\ cpc' = "write_content"
  /\ UNCHANGED <<cr, sw, sr, s2c, spc, sends, request, response>>

\* The content is written; on_write_content:
\* read_buffer_.prepare_header_buffer_read(), do_read_header().
ClientWriteContent ==
  /\ cpc = "write_content"
  /\ c2s' = c2s \o cw.content
  /\ cr' = PrepareHeaderRead(cr)
  /\ cpc' = "read_header"
  /\ UNCHANGED <<cw, sw, sr, s2c, spc, sends, request, response>>

\* A header is read; on_read_header: prepare_content_buffer_read(),
\* do_read_content().  A length beyond max_size makes resize throw out of
\* the handler, which ends the worker thread and the process.
ClientReadHeader ==
  /\ cpc = "read_header"
  /\ Len(s2c) >= Len(cr.header)
  /\ LET m == [cr EXCEPT !.header = Front(s2c, Len(cr.header))]
     IN  IF ReadLength(m) > MaxVectorSize
         THEN cpc' = "terminated" /\ cr' = m
         ELSE cpc' = "read_content" /\ cr' = PrepareContentRead(m)
  /\ s2c' = Rest(s2c, Len(cr.header))
  /\ UNCHANGED <<cw, sw, sr, c2s, spc, sends, request, response>>

\* response_handler::handle_response(response): prints the content, or
\* writes it to a file when it is longer than 10000 bytes; `response`
\* records the content it outputs.
HandleResponse(m) == m.content

\* The content is read; on_read_content: handle_response, then both
\* buffers are cleared.
ClientReadContent ==
  /\ cpc = "read_content"
  /\ Len(s2c) >= Len(cr.content)
  /\ response' = HandleResponse([cr EXCEPT !.content = Front(s2c, Len(cr.content))])
  /\ s2c' = Rest(s2c, Len(cr.content))
  /\ cr' = Clear(cr) /\ cw' = Clear(cw)
  /\ cpc' = "idle"
  /\ UNCHANGED <<sw, sr, c2s, spc, sends, request>>

\* A peer that is not a client_session writes a header-sized chunk --
\* the magic or not, then any length field -- and up to MaxContent bytes.
HostileSend ==
  /\ Peer = "hostile"
  /\ sends < MaxSends
  /\ \E magic \in {Magic, [i \in 1..Len(Magic) |-> Other]},
        field \in [1..LengthDigits -> Chars], c \in Contents :
       c2s' = c2s \o magic \o field \o c
  /\ sends' = sends + 1
  /\ UNCHANGED <<cw, cr, sw, sr, s2c, cpc, spc, request, response>>

-----------------------------------------------------------------------------
(***************************************************************************)
(* server_session, after on_secure_handshake has prepared its read buffer  *)
(* and started do_read_header.                                             *)
(***************************************************************************)

\* A header is read; on_read_header: prepare_content_buffer_read(),
\* do_read_content() -- or resize throws as for the client.
ServerReadHeader ==
  /\ spc = "read_header"
  /\ Len(c2s) >= Len(sr.header)
  /\ LET m == [sr EXCEPT !.header = Front(c2s, Len(sr.header))]
     IN  IF ReadLength(m) > MaxVectorSize
         THEN spc' = "terminated" /\ sr' = m
         ELSE spc' = "read_content" /\ sr' = PrepareContentRead(m)
  /\ c2s' = Rest(c2s, Len(sr.header))
  /\ UNCHANGED <<cw, cr, sw, s2c, cpc, sends, request, response>>

\* request_handler::handle_request, the default: echo the request content
\* into the response (set_content_buffer).
HandleRequest(req, resp) == SetContentBuffer(resp, req.content)

\* The content is read; on_read_content: handle_request(read_buffer_,
\* write_buffer_), write_buffer_.prepare_header_buffer_write(),
\* do_write_header().
ServerReadContent ==
  /\ spc = "read_content"
  /\ Len(c2s) >= Len(sr.content)
  /\ LET m == [sr EXCEPT !.content = Front(c2s, Len(sr.content))]
     IN  /\ sr' = m
         /\ sw' = PrepareHeaderWrite(HandleRequest(m, sw))
  /\ c2s' = Rest(c2s, Len(sr.content))
  /\ spc' = "write_header"
  /\ UNCHANGED <<cw, cr, s2c, cpc, sends, request, response>>

\* The header is written; on_write_header: prepare_content_buffer_write(),
\* do_write_content().
ServerWriteHeader ==
  /\ spc = "write_header"
  /\ s2c' = s2c \o sw.header
  /\ sw' = PrepareContentWrite(sw)
  /\ spc' = "write_content"
  /\ UNCHANGED <<cw, cr, sr, c2s, cpc, sends, request, response>>

\* The content is written; on_write_content: both buffers cleared,
\* read_buffer_.prepare_header_buffer_read(), do_read_header().
ServerWriteContent ==
  /\ spc = "write_content"
  /\ s2c' = s2c \o sw.content
  /\ sr' = PrepareHeaderRead(Clear(sr))
  /\ sw' = Clear(sw)
  /\ spc' = "read_header"
  /\ UNCHANGED <<cw, cr, c2s, cpc, sends, request, response>>

Next ==
  \/ Send \/ ClientWriteHeader \/ ClientWriteContent
  \/ ClientReadHeader \/ ClientReadContent
  \/ HostileSend
  \/ ServerReadHeader \/ ServerReadContent
  \/ ServerWriteHeader \/ ServerWriteContent

\* Both sessions' handlers run once their transfer completes: the worker
\* threads run them and TCP delivers what was written.  The caller and the
\* peer are not fair.
Fairness ==
  /\ WF_vars(ClientWriteHeader) /\ WF_vars(ClientWriteContent)
  /\ WF_vars(ClientReadHeader) /\ WF_vars(ClientReadContent)
  /\ WF_vars(ServerReadHeader) /\ WF_vars(ServerReadContent)
  /\ WF_vars(ServerWriteHeader) /\ WF_vars(ServerWriteContent)

Spec == Init /\ [][Next]_vars

FairSpec == Spec /\ Fairness

-----------------------------------------------------------------------------
(***************************************************************************)
(* Properties.                                                             *)
(***************************************************************************)

TypeOK ==
  /\ {cw, cr, sw, sr} \subseteq Message
  /\ c2s \in Seq(Chars) /\ s2c \in Seq(Chars)
  /\ cpc \in {"idle", "write_header", "write_content", "read_header",
              "read_content", "terminated"}
  /\ spc \in {"read_header", "read_content", "write_header", "write_content",
              "terminated"}
  /\ sends \in 0..MaxSends

\* Spec section 8, scenario 1, and the round-trip property: once the
\* client's exchange is over, the response its handler received is the
\* request it sent -- the echo went through the client's header encoding,
\* the server's parsing, the server's encoding and the client's parsing.
EchoReturnsRequest == cpc = "idle" => response = request

\* Every request the client starts is answered: the client's response
\* handler runs and the session is idle again.
RequestEventuallyAnswered == (cpc = "write_header") ~> (cpc = "idle")

\* A length field with no digit at all.
NoDigitField(h) ==
  \A i \in (Len(Magic) + 1)..Len(h) : h[i] \notin Digits

\* Spec section 8, scenario 3: a server that reads a header whose length
\* field holds no number reads a content of zero bytes.
UnparsableLengthReadsEmpty ==
  spc = "read_content" /\ NoDigitField(sr.header) => sr.content = <<>>

\* Spec section 7: a malformed header degrades to a zero-length read, it is
\* not a crash path -- the server's handler never throws on a header.
ServerSurvivesAnyHeader == spc # "terminated"

=============================================================================
