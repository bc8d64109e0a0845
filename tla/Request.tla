------------------------------ MODULE Request -------------------------------
(***************************************************************************)
(* How one thread of TinyChat reads a request: the rio buffer over the     *)
(* socket, the request line, the header lines and the form in the body,    *)
(* up to the point where TinyChat.tla takes over with the parsed query.    *)
(* The client is external: it sends a prefix of a request and then closes, *)
(* resets or keeps the connection.                                         *)
(***************************************************************************)
EXTENDS HttpText, FiniteSetsExt

CONSTANTS
  Requests,     \* what clients send, see RequestType
  MAXLINE,      \* size of a line buffer, terminator included
  RIO_BUFSIZE   \* size of the buffer in rio_t

ASSUME SizesAssumption == MAXLINE \in Nat /\ MAXLINE > 3 /\ RIO_BUFSIZE \in Nat \ {0}

VARIABLES
  req,      \* the request of this connection, how many bytes of it are
            \* sent, and the lengths of the whole, its first line and its head
  net,      \* bytes on their way to the server
  broken,   \* the client has reset the connection
  rio,      \* the rio_cnt unread bytes of rio_buf
  got,      \* bytes the current readlineb or readnb has copied
  buf,      \* buf of read_requesthdrs, up to its terminator
  pc,       \* "line", "first", "headers", "body" or "done"
  request, headers, query, outcome

vars == <<req, net, broken, rio, got, buf, pc, request, headers, query, outcome>>

-----------------------------------------------------------------------------
(* The client.  Words: *)
GET == 256
POST == 258
HTTP_1_0 == 260
HTTP_1_1 == 262
Content_Length == 264
Content_Type == 266
form_urlencoded == 268

CRLF == <<CR, LF>>

(* A form is a sequence of pairs of a name and a value; in a body a space  *)
(* is sent as '+'.                                                         *)
Plus(s) == IF s = <<SP>> THEN <<PLUS>> ELSE query_encode(s)
Encoded(form, inBody) ==
  FlattenSeq([i \in DOMAIN form |->
    (IF i = 1 THEN <<>> ELSE <<AMP>>) \o query_encode(form[i].name) \o <<EQUALS>>
      \o FlattenSeq([k \in DOMAIN form[i].value |->
           IF inBody THEN Plus(<<form[i].value[k]>>) ELSE query_encode(<<form[i].value[k]>>)])])

Digits(n) == IF n < 10 THEN <<48 + n>> ELSE <<48 + (n \div 10), 48 + (n % 10)>>

Body(r) == Encoded(r.form, TRUE)
RequestLine(r) ==
  <<r.method, SP>> \o r.path \o (IF r.query = <<>> THEN <<>> ELSE <<QUERY>> \o Encoded(r.query, FALSE))
    \o <<SP, r.version>> \o CRLF
HeaderLine(r, h) ==
  <<h, COLON, SP>> \o (CASE tolower(h) = Content_Length -> IF r.claim = NULL THEN Digits(Len(Body(r))) ELSE r.claim
                         [] tolower(h) = Content_Type -> <<r.type>>
                         [] OTHER -> r.host) \o CRLF
Text(r) ==
  RequestLine(r) \o FlattenSeq([i \in DOMAIN r.headers |-> HeaderLine(r, r.headers[i])]) \o CRLF \o Body(r)

-----------------------------------------------------------------------------
(* The request, how much of it is sent, and what follows it.  A reset      *)
(* overtakes any part of what was sent, a client that keeps the connection *)
(* may let the server wait at any byte.                                    *)
Init ==
  /\ \E r \in Requests, ending \in {"close", "keep", "reset"} :
       \E n \in IF ending = "close" THEN 0..Len(Text(r)) ELSE {Len(Text(r))} :
         req = [asked |-> r, sent |-> n, ending |-> ending, whole |-> Len(Text(r)),
                line |-> Len(RequestLine(r)), head |-> Len(Text(r)) - Len(Body(r))]
  /\ net = SubSeq(Text(req.asked), 1, req.sent)
  /\ broken = FALSE
  /\ rio = <<>> /\ got = <<>>
  /\ buf = NULL
  /\ pc = "line"
  /\ request = NULL
  /\ headers = make_dictionary(TRUE)
  /\ query = make_dictionary(FALSE)
  /\ outcome = NULL

(* The client's reset overtakes what it has sent. *)
Reset ==
  /\ req.ending = "reset" /\ ~broken /\ pc # "done"
  /\ net' = <<>> /\ broken' = TRUE
  /\ UNCHANGED <<req, rio, got, buf, pc, request, headers, query, outcome>>

-----------------------------------------------------------------------------
Finish(result) == pc' = "done" /\ outcome' = result

len == LET s == dictionary_get(headers, <<Content_Length>>) IN IF s = NULL THEN 0 ELSE atoi(s)

(* doit: the request line has been read.  clienterror gets method, which   *)
(* is not initialised when the line is refused: append_strings may crash.  *)
(* The buf of read_requesthdrs is on the stack and not initialised.        *)
GotLine(s) ==
  LET is(word, known) == \E k \in known : ~strcasecmp(word, <<k>>)
      refused(result) == Finish(result) /\ UNCHANGED buf
  IN  \E parsed \in {parse_request_line(s)} :
        /\ request' = parsed
        /\ IF parsed = NULL THEN refused("400") \/ refused("died")
           ELSE IF ~is(parsed.version, {HTTP_1_0, HTTP_1_1}) \/ ~is(parsed.method, {GET, POST}) THEN refused("501")
           ELSE pc' = "first" /\ buf' \in {<<>>, CRLF} /\ UNCHANGED outcome
        /\ UNCHANGED <<headers, query>>

(* mutant: a blank first line does not end the headers *)
GotHeader_second(s) ==
  /\ buf' = s
  /\ headers' \in {IF pc = "first" THEN headers ELSE parse_header_line(s, headers)}
  /\ IF s = CRLF /\ pc = "headers"
     THEN /\ query' \in {parse_uriquery(request.uri, query)}
          /\ IF ~strcasecmp(request.method, <<POST>>) THEN pc' = "body" /\ UNCHANGED outcome ELSE Finish("served")
     ELSE pc' = "headers" /\ UNCHANGED <<query, outcome>>
  /\ UNCHANGED request

(* read_requesthdrs: a line has been read into buf.  The first one is only *)
(* compared.  After the blank line doit parses the query of the uri.       *)
GotHeader(s) ==
  /\ buf' = s
  /\ headers' \in {IF pc = "first" THEN headers ELSE parse_header_line(s, headers)}
  /\ IF s = CRLF
     THEN /\ query' \in {parse_uriquery(request.uri, query)}
          /\ IF ~strcasecmp(request.method, <<POST>>) THEN pc' = "body" /\ UNCHANGED outcome ELSE Finish("served")
     ELSE pc' = "headers" /\ UNCHANGED <<query, outcome>>
  /\ UNCHANGED request

(* len + 1 is an int and the size_t that malloc gets: below -1 it is too   *)
(* large a number, and so it is where it overflows.  malloc returns NULL.  *)
NoBuffer == len < -1 \/ len = INT_MAX

(* read_postquery: Rio_readnb has returned; what it did not fill of the    *)
(* malloc'd buffer holds any byte.  A missing type is dereferenced, and    *)
(* buffer[len] without a buffer is no address.  With a length of -1 the    *)
(* buffer has no size at all and was written as far as the client sent.    *)
GotBody(bytes) ==
  LET type == dictionary_get(headers, <<Content_Type>>)
      rest == IF len < 0 THEN 1 ELSE len - Len(bytes)
  IN  /\ UNCHANGED <<buf, headers, request>>
      /\ \/ (type = NULL \/ len < 0 \/ NoBuffer) /\ Finish("died") /\ UNCHANGED query
         \/ /\ type # NULL /\ ~NoBuffer
            /\ Finish("served")
            /\ IF strcasecmp(type, <<form_urlencoded>>) THEN UNCHANGED query
               ELSE \E buffer \in {bytes \o [i \in 1..rest |-> junk] : junk \in {0, 106}} :
                      query' \in {parse_query(buffer, query)}

-----------------------------------------------------------------------------
(* Rio_readnb takes its length as a size_t: a negative one has no end.     *)
Unfilled == len < 0 \/ Len(got) < len
Reading == pc \in {"line", "first", "headers"} \/ (pc = "body" /\ Unfilled)

(* rio_read refills its empty buffer with what has arrived.  An interrupted *)
(* read is only repeated.                                                   *)
Fill ==
  /\ Reading /\ rio = <<>> /\ net # <<>>
  /\ \E n \in 1..Min({Len(net), RIO_BUFSIZE}) :
       rio' = SubSeq(net, 1, n) /\ net' = From(net, n + 1)
  /\ UNCHANGED <<req, broken, got, buf, pc, request, headers, query, outcome>>

(* rio_readlineb takes bytes one by one, up to a newline or MAXLINE - 1.   *)
Line ==
  /\ pc \in {"line", "first", "headers"} /\ rio # <<>>
  /\ LET nl == strchr(rio, 1, {LF})
         n == Min({MAXLINE - 1 - Len(got), IF nl = 0 THEN Len(rio) ELSE nl})
     IN  \E s \in {got \o SubSeq(rio, 1, n)} :
           /\ rio' = From(rio, n + 1)
           /\ IF Last(s) = LF \/ Len(s) = MAXLINE - 1
              THEN got' = <<>> /\ IF pc = "line" THEN GotLine(s) ELSE GotHeader(s)
              ELSE got' = s /\ UNCHANGED <<buf, pc, request, headers, query, outcome>>
  /\ UNCHANGED <<req, net, broken>>

(* rio_readnb copies what rio_buf has, up to the length asked for; memcpy  *)
(* needs a buffer.                                                         *)
Bytes ==
  /\ pc = "body" /\ Unfilled /\ rio # <<>>
  /\ IF NoBuffer THEN Finish("died") /\ UNCHANGED <<got, rio>>
     ELSE /\ LET n == IF len < 0 THEN Len(rio) ELSE Min({len - Len(got), Len(rio)})
             IN  got' = got \o SubSeq(rio, 1, n) /\ rio' = From(rio, n + 1)
          /\ UNCHANGED <<pc, outcome>>
  /\ UNCHANGED <<req, net, broken, buf, request, headers, query>>

BodyRead ==
  /\ pc = "body" /\ Len(got) = len
  /\ GotBody(got)
  /\ UNCHANGED <<req, net, broken, rio, got>>

(* End of file.  A line without any byte leaves buf as it was, and         *)
(* read_requesthdrs does not look at the result.                           *)
Eof ==
  /\ Reading /\ rio = <<>> /\ net = <<>> /\ req.ending = "close"
  /\ got' = <<>>
  /\ CASE pc = "body" -> GotBody(got)
       [] pc = "line" /\ got = <<>> -> Finish("closed") /\ UNCHANGED <<buf, request, headers, query>>
       [] pc = "line" /\ got # <<>> -> GotLine(got)
       [] OTHER -> GotHeader(IF got = <<>> THEN buf ELSE got)
  /\ UNCHANGED <<req, net, broken, rio>>

(* An error: the bytes of the unfinished line are in buf, not terminated,  *)
(* over what was there.  The wrappers only report it.                      *)
Error ==
  /\ Reading /\ rio = <<>> /\ broken
  /\ got' = <<>>
  /\ CASE pc = "body" -> GotBody(got)
       [] pc = "line" -> Finish("closed") /\ UNCHANGED <<buf, request, headers, query>>
       [] OTHER ->
            \E stale \in IF Len(got) > Len(buf) THEN {<<>>, <<LF>>} ELSE {From(buf, Len(got) + 1)} :
              GotHeader(got \o stale)
  /\ UNCHANGED <<req, net, broken, rio>>

Server == Fill \/ Line \/ Bytes \/ BodyRead \/ Eof \/ Error
Next == Server \/ Reset

Spec == Init /\ [][Next]_vars

(* The thread keeps running and the network delivers what was sent.        *)
FairSpec == Spec /\ WF_vars(Server)

-----------------------------------------------------------------------------
(* What the client can expect. *)
Asked == req.asked
Whole == req.sent = req.whole
WellFormed == Len(Asked.path) = 1 /\ Asked.path # <<SP>>
LinesFit == req.line < MAXLINE /\ \A i \in DOMAIN Asked.headers : Len(HeaderLine(Asked, Asked.headers[i])) < MAXLINE

(* The headers the server looks at: all but the first one. *)
Kept(h) == \E i \in DOMAIN Asked.headers \ {1} : tolower(Asked.headers[i]) = h
Posted == tolower(Asked.method) = POST
FormRead == Posted /\ Kept(Content_Type) /\ Kept(Content_Length) /\ tolower(Asked.type) = form_urlencoded

Sent == Asked.query \o (IF FormRead THEN Asked.form ELSE <<>>)
(* The length the client announced, when it is not that of the body. *)
Truthful == Asked.claim = NULL

LastOf(name) == Max({i \in DOMAIN Sent : Sent[i].name = name})

(* However the bytes of a whole request are split over reads, the query    *)
(* that doit works on has the fields the client filled in, those of the    *)
(* body over those of the uri, the last one of a name winning, decoded,    *)
(* each under its name as it is sent (more_string.c:158).  The body counts *)
(* only when its length and its type are not the first header.             *)
FormReceived ==
  (outcome = "served" /\ Whole /\ LinesFit /\ ~broken /\ Truthful) =>
    {<<query.keys[i], query.values[i]>> : i \in DOMAIN query.keys} =
      {<<query_encode(Sent[i].name), Sent[i].value>> : i \in {LastOf(Sent[k].name) : k \in DOMAIN Sent}}

(* What kills the process, and with it every conversation, in this code is *)
(* exactly a request line that is cut, too long or not three words (method *)
(* is not initialised at tinychat.c:104), or a post whose Content-Type is  *)
(* not among the headers after the first, or is lost with a cut, a reset   *)
(* or an overlong line (tinychat.c:404), or whose announced length is      *)
(* negative or the largest int (tinychat.c:400-402).  That none of this    *)
(* should be possible is SurvivesClients.                                  *)
DiesOnlyMalformed ==
  outcome = "died" =>
    \/ req.sent < req.line \/ req.line >= MAXLINE \/ ~WellFormed
    \/ Posted /\ (~Kept(Content_Type) \/ ~LinesFit \/ ~Whole \/ broken)
    \/ Posted /\ ~Truthful /\ (atoi(Asked.claim) < 0 \/ atoi(Asked.claim) = INT_MAX)

(* tinychat.c:54-57 and trouble.rkt:31: no line that a client sends to its *)
(* end kills the server, be it garbage.                                    *)
SurvivesClients == Whole => outcome # "died"

(* A request that is sent completely and announces the length of its body  *)
(* is answered without waiting for the client to close; one that is cut by *)
(* a close is given up, except inside the headers, where read_requesthdrs  *)
(* never looks at the result of Rio_readlineb and the thread spins.        *)
RequestEnds ==
  (req.ending # "reset" /\ ((Whole /\ Truthful) \/ (req.ending = "close" /\ req.sent \notin req.line..(req.head - 1))))
    => <>(pc = "done")
=============================================================================
