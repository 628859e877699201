------------------------------- MODULE Reply -------------------------------
(***************************************************************************)
(* The Response object of a connection as operators: a response goes in    *)
(* with what is left from earlier, one comes out whose field out is the    *)
(* string that is sent.  A request is seen through its method, its uri and *)
(* keep (getConnectionAvailable).  The Date and Server fields, which say   *)
(* nothing of the request, are left out; a phrase is named by its status.  *)
(***************************************************************************)
EXTENDS Naturals, Sequences, SequencesExt

CONSTANTS
  StatusCodes,   \* what isValidHttpStatus accepts: three digits, the first 1 to 5
  Listed,        \* the statuses in the table of HttpStatus
  Hundred        \* the first status of the class of each status not listed

\* _responseHeader: a map from the names of fields to their values.
NoFields == [n \in {} |-> ""]

\* addHeader and addHeaderIfNotSet.
Add(h, name, value) == [n \in DOMAIN h \cup {name} |-> IF n = name THEN value ELSE h[n]]
AddIfNotSet(h, name, value) == IF name \in DOMAIN h THEN h ELSE Add(h, name, value)

\* _responseString, taken apart; ended: the empty line after the header is there.
NoString == [line |-> <<>>, header |-> NoFields, ended |-> FALSE, body |-> <<>>]

\* _statusCode, _statusLine, _responseHeader, _messageBody, _responseString.
NewResponse ==
  [code |-> "", line |-> <<>>, header |-> NoFields, body |-> <<>>, out |-> NoString]

Field(r, name, value)         == [r EXCEPT !.header = Add(r.header, name, value)]
FieldIfNotSet(r, name, value) == [r EXCEPT !.header = AddIfNotSet(r.header, name, value)]

\* HttpStatus::getReasonPhrase: a status that is not listed gets the phrase of 200.
ReasonPhrase(code) == IF code \in Listed THEN code ELSE "200"

\* createStatusLine appends to what is there.
WithLine(r) ==
  [r EXCEPT !.line = Append(r.line, [code |-> r.code, reason |-> ReasonPhrase(r.code)])]

\* MimeTypes::findMimeType looks at the end of the uri.
MimeType(uri) == uri[Len(uri)]

\* setBasicHeaders.
Basic(r, q) ==
  LET typed  == IF r.body = <<>> THEN r
                ELSE FieldIfNotSet(r, "Content-Type", MimeType(q.uri))
      linked == FieldIfNotSet(typed, "Connection", IF q.keep THEN "Keep-Alive" ELSE "close")
      sized  == IF q.method # "GET" THEN linked
                ELSE FieldIfNotSet(linked, "Content-Length", Len(r.body))
  IN IF q.method # "POST" THEN sized ELSE FieldIfNotSet(sized, "Location", q.uri)

\* createResponseString; the fields and the status line are used up, the body
\* is not.
Emitted(r) ==
  [r EXCEPT !.out = [line |-> r.line, header |-> r.header,
                     ended |-> r.body # <<>>, body |-> r.body],
            !.header = NoFields, !.line = <<>>]

\* generateResponse with a status only: whatever body is there goes along.
Plain(r, q, code) == Emitted(Basic(WithLine([r EXCEPT !.code = code]), q))

\* generateResponse with a body.
WithBody(r, q, body, code) == Plain([r EXCEPT !.body = body], q, code)

\* HttpStatus::generateErrorPage; the table has the first status of every class.
StatusPage(code) == <<"page", IF code \in Listed THEN code ELSE Hundred[code]>>

\* generateErrorPage: the page the block configures for the status, if the
\* connection knows its block, or the page every status has.
ErrorPage(code, custom) == IF code \in custom THEN <<"custom", code>> ELSE StatusPage(code)

\* generateErrorResponse.
ErrorReply(r, q, code, custom) ==
  WithBody(Field(r, "Content-Type", "text/html"), q, ErrorPage(code, custom), code)

\* generateRedirectResponse; the status is the configured one, which may be
\* missing, and nothing says whether the connection is kept.
Redirection(r, type, target) ==
  Emitted(WithLine(Field([r EXCEPT !.code = type], "Location", target)))

(***************************************************************************)
(* generateCGIResponse.  The output of a script is a body (split FALSE),   *)
(* or fields, an empty line and a body; fields are those before the first  *)
(* line that is not one, as the rest is dropped.  A Status field whose     *)
(* value is three digits is the status, any other is a field like the rest.*)
(***************************************************************************)
IsValidHttpStatus(value) == value \in StatusCodes

TakeField(r, f) ==
  IF f.name = "Status" /\ IsValidHttpStatus(f.value)
    THEN WithLine([r EXCEPT !.code = f.value, !.line = <<>>])
    ELSE Field(r, f.name, f.value)

ScriptReply(r, q, output) ==
  LET begun == WithLine(Field([r EXCEPT !.code = "200"], "Connection", "close"))
      whole == Field(Field(begun, "Content-Type", "text/html"),
                     "Content-Length", Len(output.body))
      taken == FoldLeft(TakeField, begun, output.fields)
      split == FieldIfNotSet(FieldIfNotSet(taken, "Content-Length", Len(output.body)),
                             "Content-Type", "text/html")
      head  == IF output.split THEN split ELSE whole
  IN Emitted(Basic([head EXCEPT !.body = output.body], q))

\* Faulty: the body stays (breaks ReplyFits), or the string (breaks TypeOK).
CleanedButBody(r)   == [NewResponse EXCEPT !.body = r.body]
CleanedButString(r) == [NewResponse EXCEPT !.out = r.out]

\* clean.
Cleaned(r) == NewResponse

=============================================================================
