---------------------------- MODULE ReferenceHTTP ----------------------------
(***************************************************************************)
(* One request to the reference server's HTTP handler                      *)
(* (internal/transport/http): ExtractBearer takes the credential out of the*)
(* request and rejects every other carrier of one, the handler             *)
(* authenticates, validates, reads the body, calls the authorizing service *)
(* and answers.  The body is the one shared object: the handler and any    *)
(* other holder of the request read and close it through                   *)
(* credentialTrailerBody, which removes the trailer fields that net/http   *)
(* adds to the request when the body ends.                                 *)
(*                                                                         *)
(* Names and values are classes: a "token" query or cookie is one that     *)
(* names access_token in any spelling, "credential" a trailer field        *)
(* Authorization or Cookie.  Wording, JSON and identifiers are left out.   *)
(***************************************************************************)
EXTENDS Naturals, FiniteSets

CONSTANTS
    Requests,       \* the requests that arrive
    Others,         \* other holders of the request's body
    MaxReads,       \* bound: Reads that return data
    MaxOtherCalls   \* bound: calls by the other holders

VARIABLES
    arrived,        \* the request as it arrived
    request,        \* http.Request, as ExtractBearer and net/http change it
    handler,        \* [at, response]: the handler's position and its answer
    guard,          \* credentialTrailerBody
    body,           \* net/http's body: [state, reads]
    call,           \* by holder: the call it makes of the guard
    otherCalls,     \* number of calls by other holders
    ended,          \* history: a Close, or a Read of the end, has returned
    stripped,       \* history: a credential trailer was removed
    again           \* history: what an extraction after that found

observed == <<ended, stripped, again>>
httpVars == <<arrived, request, handler, guard, body, call, otherCalls, observed>>

Holders == {"handler"} \cup Others

noGuard == [on |-> FALSE, rejected |-> FALSE, reads |-> 0, closing |-> FALSE]
noCall == [op |-> "none", at |-> "none", err |-> "none"]
noResponse == [status |-> 0, headers |-> {}]

httpInit ==
    /\ arrived \in Requests
    /\ request = arrived
    /\ handler = [at |-> "arrived", response |-> noResponse]
    /\ guard = noGuard
    /\ body = [state |-> "open", reads |-> 0]
    /\ call = [h \in Holders |-> noCall]
    /\ otherCalls = 0
    /\ ended = FALSE
    /\ stripped = FALSE
    /\ again = "none"

-----------------------------------------------------------------------------
(* Where a credential may be.                                              *)
hasAccessTokenQuery(query) == query = "token"

\* The two views of the query; a request target built by hand has no URI.
inspectQueryViews(r) ==
    \/ hasAccessTokenQuery(r.url)
    \/ hasAccessTokenQuery(r.uri)
    \/ r.uri # "unset" /\ r.url # r.uri

removeQuery(r) == [r EXCEPT !.url = "none", !.uri = IF @ = "unset" THEN @ ELSE "none"]

hasAccessTokenCookie(r) == r.cookie = "token"

hasCredentialTrailerDeclaration(r) == "credential" \in r.trailer \cup r.declared

bodyMayMaterializeTrailers(r) ==
    r.framing # "none" /\ (r.trailer # {} \/ r.declared # {} \/ r.framing = "chunked")

scrubCredentialTrailerSurfaces(r) ==
    [r EXCEPT !.trailer = @ \ {"credential"}, !.declared = @ \ {"credential"}]

\* A rejection of the guard stays.
scrubLocked(g, r, rejected) ==
    [g EXCEPT !.rejected = @ \/ rejected \/ hasCredentialTrailerDeclaration(r)]

protectCredentialTrailers(r) ==
    LET rejected == hasCredentialTrailerDeclaration(r)
    IN  CASE guard.on -> scrubLocked(guard, r, rejected)
          [] ~guard.on /\ ~rejected /\ ~bodyMayMaterializeTrailers(r) -> guard
          [] OTHER -> [noGuard EXCEPT !.on = TRUE, !.rejected = rejected]

takeAuthorization(r) == [r EXCEPT !.authorization = "none"]

\* ExtractBearer: the carriers it rejects, what it leaves of the request, and
\* its answer.  A "bearer" field is one well-formed value.
rejects(r) ==
    \/ inspectQueryViews(r)
    \/ hasAccessTokenCookie(r)
    \/ protectCredentialTrailers(r).rejected

redacted(r) ==
    LET q == IF inspectQueryViews(r) THEN removeQuery(r) ELSE r
        c == [q EXCEPT !.cookie = IF hasAccessTokenCookie(r) THEN "none" ELSE @]
        t == IF guard.on \/ hasCredentialTrailerDeclaration(r)
             THEN scrubCredentialTrailerSurfaces(c)
             ELSE c
    IN  takeAuthorization(t)

parseBearer(value) == value = "bearer"

ExtractBearer(r) ==
    CASE rejects(r) -> "invalid"
      [] ~rejects(r) /\ r.authorization = "none" -> "absent"
      [] ~rejects(r) /\ parseBearer(r.authorization) -> "credential"
      [] OTHER -> "invalid"

-----------------------------------------------------------------------------
(* The handler's answers.                                                  *)
Go(at) == [at |-> at, response |-> noResponse]

Answer(status, headers) ==
    [at |-> "answered", response |-> [status |-> status, headers |-> headers]]

writeProblem(status) == Answer(status, {})

writeMethodNotAllowed == Answer(405, {"Allow"})

writeAuthenticationRequired == Answer(401, {"WWW-Authenticate"})

writeUnavailable == Answer(503, {"Retry-After"})

writeServiceError(err) ==
    CASE err = "RequestTooLarge" -> writeProblem(413)
      [] err \in {"AdmissionDefault", "AdmissionConversion"} -> writeProblem(500)
      [] err = "Admission" -> writeProblem(400)
      [] err = "Precondition" -> Answer(412, {"ETag"})
      [] err = "NotFound" -> writeProblem(404)
      [] err \in {"IdempotencyConflict", "LifecycleConflict"} -> writeProblem(409)
      [] err \in {"Capacity", "Unavailable"} -> writeUnavailable
      [] err \in {"Denied", "StaleAuthorization"} -> writeProblem(403)
      [] err \in {"InvalidPageToken", "InvalidCommand"} -> writeProblem(400)
      [] OTHER -> writeProblem(500)

writeBodyError(err) ==
    CASE err = "RequestTooLarge" -> writeProblem(413)
      [] err = "UnsupportedMediaType" -> writeProblem(415)
      [] OTHER -> writeProblem(400)

writePreconditionParseError(r) == writeProblem(IF r.match = "none" THEN 428 ELSE 400)

-----------------------------------------------------------------------------
(* Routing and validation, up to the body or the service call.             *)
requestID(r) == r.id # "bad"

hasQuery(r) == r.url \notin {"none", "bare"}

parseListQuery(r) == ~hasQuery(r) \/ r.url = "page"

idempotencyKey(r) == r.key = "one"

ifMatch(r) == r.match = "etag"

readJSONBody(r) ==
    CASE r.media # "json" -> writeBodyError("UnsupportedMediaType")
      [] r.media = "json" /\ r.length = "declared" -> writeBodyError("RequestTooLarge")
      [] OTHER -> Go("reading")

serveWorkspaceCollection(r) ==
    CASE r.method = "GET" -> IF parseListQuery(r) THEN Go("service") ELSE writeProblem(400)
      [] r.method = "POST" ->
           IF hasQuery(r) \/ ~idempotencyKey(r) THEN writeProblem(400) ELSE readJSONBody(r)
      [] OTHER -> writeMethodNotAllowed

\* A mutation of one Workspace, by whether it has a body.
mutation(r, next) ==
    CASE ~idempotencyKey(r) -> writeProblem(400)
      [] idempotencyKey(r) /\ ~ifMatch(r) -> writePreconditionParseError(r)
      [] OTHER -> next

serveWorkspaceStatus(r) ==
    IF r.method = "PUT" THEN mutation(r, readJSONBody(r)) ELSE writeMethodNotAllowed

serveWorkspaceItem_body(r) ==
    CASE hasQuery(r) \/ r.path # "plain" -> writeProblem(400)
      [] r.method = "GET" -> Go("service")
      [] r.method \in {"PUT", "DELETE"} -> mutation(r, readJSONBody(r))
      [] OTHER -> writeMethodNotAllowed

serveWorkspaceItem(r) ==
    CASE hasQuery(r) \/ r.path # "plain" -> writeProblem(400)
      [] ~hasQuery(r) /\ r.path = "plain" /\ r.route = "status" -> serveWorkspaceStatus(r)
      [] ~hasQuery(r) /\ r.path = "plain" /\ r.route = "item" ->
           CASE r.method = "GET" -> Go("service")
             [] r.method = "PUT" -> mutation(r, readJSONBody(r))
             [] r.method = "DELETE" -> mutation(r, Go("service"))
             [] OTHER -> writeMethodNotAllowed

serveOperation(r) ==
    CASE r.method # "GET" -> writeMethodNotAllowed
      [] r.method = "GET" /\ (hasQuery(r) \/ r.path # "plain") -> writeProblem(400)
      [] OTHER -> Go("service")

route(r) ==
    CASE r.path = "escaped" -> writeProblem(400)
      [] r.path # "escaped" /\ r.route = "collection" -> serveWorkspaceCollection(r)
      [] r.path # "escaped" /\ r.route \in {"item", "status"} -> serveWorkspaceItem(r)
      [] r.path # "escaped" /\ r.route = "operation" -> serveOperation(r)
      [] OTHER -> writeProblem(404)

-----------------------------------------------------------------------------
Stripping == stripped' = (stripped \/ hasCredentialTrailerDeclaration(request))

(* ServeHTTP, from its extraction to its service call.                     *)
ServeHTTP ==
    LET found == ExtractBearer(request)
    IN  /\ handler.at = "arrived"
        /\ request' = redacted(request)
        /\ guard' = protectCredentialTrailers(request)
        /\ handler' = CASE ~requestID(request) -> writeProblem(400)
                        [] requestID(request) /\ found = "credential" -> Go("authenticating")
                        [] OTHER -> writeAuthenticationRequired
        /\ Stripping
        /\ UNCHANGED <<arrived, body, call, otherCalls, ended, again>>

\* The authenticator is injected: a principal or any of its errors.
authenticate ==
    /\ handler.at = "authenticating"
    /\ handler' \in {route(request), writeAuthenticationRequired, writeUnavailable,
                     writeProblem(500)}
    /\ UNCHANGED <<arrived, request, guard, body, call, otherCalls, observed>>

\* What a call of referenceauthorization.Service may return; "cancelled" is
\* the error of the request's context.
stateErrors == {"Denied", "Unavailable", "NotFound", "cancelled"}

mutationErrors ==
    stateErrors \cup {"InvalidCommand", "Admission", "Precondition", "IdempotencyConflict",
                      "LifecycleConflict", "Capacity", "ReplayUnavailable"}

outcomes(r) ==
    CASE r.route = "collection" /\ r.method = "GET" ->
           {"ok", "Denied", "Unavailable", "InvalidPageToken", "InvalidCommand", "cancelled"}
      [] r.route = "item" /\ r.method = "GET" -> {"ok", "InvalidCommand"} \cup stateErrors
      [] r.route = "item" /\ r.method = "PUT" -> {"ok", "RequestTooLarge"} \cup mutationErrors
      [] r.route = "item" /\ r.method = "DELETE" -> {"ok"} \cup (mutationErrors \ {"Admission"})
      [] r.route = "operation" -> {"ok"} \cup stateErrors
      [] OTHER -> {"Denied", "cancelled"}     \* Create and ReplaceStatus

written(r) ==
    CASE r.method = "GET" -> Answer(200, IF r.route = "collection" THEN {} ELSE {"ETag"})
      [] OTHER -> Answer(202, {"Location"})

callService ==
    /\ handler.at = "service"
    /\ \E result \in outcomes(request) :
         handler' = IF result = "ok" THEN written(request) ELSE writeServiceError(result)
    /\ UNCHANGED <<arrived, request, guard, body, call, otherCalls, observed>>

\* Another holder of the request extracts a credential again.
ExtractAgain ==
    /\ handler.at # "arrived" /\ otherCalls < MaxOtherCalls
    /\ request' = redacted(request)
    /\ Stripping
    /\ again' = IF stripped' THEN ExtractBearer(request) ELSE "none"
    /\ guard' = protectCredentialTrailers(request)
    /\ otherCalls' = otherCalls + 1
    /\ UNCHANGED <<arrived, handler, body, call, ended>>

-----------------------------------------------------------------------------
(* credentialTrailerBody.  net/http's own body is external: it serves data *)
(* until it ends, fails or is closed.  At its end, and for HTTP/1 in a     *)
(* Close that drains it, it adds the fields the peer sent to the request:  *)
(* all of them after a chunked body, the declared ones otherwise.          *)
materialized(r) ==
    [r EXCEPT !.trailer = @ \cup (IF r.framing = "chunked" THEN r.sent ELSE r.sent \cap @)]

To(h, at) == [call EXCEPT ![h].at = at]

\* The handler's body is complete, is too large, or its Read failed.
afterRead(err) ==
    CASE err = "EOF" -> {Go("service")}
      [] err = "none" /\ request.length = "large" -> {Go("reading"), writeBodyError("RequestTooLarge")}
      [] err = "none" /\ request.length # "large" -> {Go("reading")}
      [] OTHER -> {writeBodyError(err)}

Return(h, err) ==
    /\ call' = [call EXCEPT ![h] = noCall]
    /\ IF h = "handler" THEN handler' \in afterRead(err) ELSE UNCHANGED handler

\* The last critical section of Read: a terminal error scrubs.
settle(h, g) ==
    LET err == call[h].err
    IN  /\ request' = IF err # "none" THEN scrubCredentialTrailerSurfaces(request) ELSE request
        /\ guard' = IF err # "none" THEN scrubLocked(g, request, FALSE) ELSE g
        /\ stripped' = (stripped \/ (err # "none" /\ hasCredentialTrailerDeclaration(request)))
        /\ ended' = (ended \/ err = "EOF")
        /\ Return(h, err)
        /\ UNCHANGED <<arrived, body, otherCalls, again>>

\* The handler reads; another holder reads or closes.
Call(h, op) ==
    /\ call[h] = noCall
    /\ \/ h = "handler" /\ op = "Read" /\ handler.at = "reading" /\ UNCHANGED otherCalls
       \/ /\ h \in Others /\ handler.at # "arrived" /\ otherCalls < MaxOtherCalls
          /\ otherCalls' = otherCalls + 1
    /\ guard.on
    /\ call' = [call EXCEPT ![h] = [noCall EXCEPT !.op = op, !.at = "enter"]]
    /\ UNCHANGED <<arrived, request, handler, guard, body, observed>>

enterRead(h) ==
    /\ call[h].op = "Read" /\ call[h].at = "enter" /\ ~guard.closing
    /\ guard' = [guard EXCEPT !.reads = @ + 1]
    /\ call' = To(h, "body")
    /\ UNCHANGED <<arrived, request, handler, body, otherCalls, observed>>

bodyRead(h) ==
    LET Answers(err, state) ==
            /\ call' = [call EXCEPT ![h].at = "leave", ![h].err = err]
            /\ body' = [state |-> state, reads |-> body.reads + (IF err = "none" THEN 1 ELSE 0)]
    IN  /\ call[h].op = "Read" /\ call[h].at = "body" /\ body.state = "open"
        /\ \/ body.reads < MaxReads /\ Answers("none", "open") /\ UNCHANGED request
           \/ Answers("EOF", "ended") /\ request' = materialized(request)
           \/ Answers("failed", "failed") /\ UNCHANGED request
        /\ UNCHANGED <<arrived, handler, guard, otherCalls, observed>>

bodyOver(h) ==
    /\ call[h].op = "Read" /\ call[h].at = "body" /\ body.state # "open"
    /\ call' = [call EXCEPT ![h].at = "leave",
                            ![h].err = IF body.state = "ended" THEN "EOF" ELSE "failed"]
    /\ UNCHANGED <<arrived, request, handler, guard, body, otherCalls, observed>>

leaveRead(h) ==
    /\ call[h].op = "Read" /\ call[h].at = "leave"
    /\ IF guard.closing
       THEN /\ guard' = [guard EXCEPT !.reads = @ - 1]
            /\ call' = To(h, "settle")
            /\ UNCHANGED <<arrived, request, handler, body, otherCalls, observed>>
       ELSE settle(h, [guard EXCEPT !.reads = @ - 1])

settleRead(h) ==
    call[h].op = "Read" /\ call[h].at = "settle" /\ ~guard.closing /\ settle(h, guard)

enterClose_afterReads(h) ==
    /\ call[h].op = "Close" /\ call[h].at = "enter" /\ ~guard.closing /\ guard.reads = 0
    /\ guard' = [guard EXCEPT !.closing = TRUE]
    /\ call' = To(h, "body")
    /\ UNCHANGED <<arrived, request, handler, body, otherCalls, observed>>

enterClose(h) ==
    /\ call[h].op = "Close" /\ call[h].at = "enter" /\ ~guard.closing
    /\ guard' = [guard EXCEPT !.closing = TRUE]
    /\ call' = To(h, "body")
    /\ UNCHANGED <<arrived, request, handler, body, otherCalls, observed>>

bodyClose(h) ==
    /\ call[h].op = "Close" /\ call[h].at = "body"
    /\ body' = [body EXCEPT !.state = "closed"]
    /\ request' \in {request} \cup (IF body.state = "open" /\ request.framing = "chunked"
                                    THEN {materialized(request)} ELSE {})
    /\ call' = To(h, "leave")
    /\ UNCHANGED <<arrived, handler, guard, otherCalls, observed>>

leaveClose_unscrubbed(h) ==
    /\ call[h].op = "Close" /\ call[h].at = "leave" /\ guard.reads = 0
    /\ guard' = [guard EXCEPT !.closing = FALSE]
    /\ ended' = TRUE
    /\ Return(h, "none")
    /\ UNCHANGED <<arrived, request, body, otherCalls, stripped, again>>

leaveClose(h) ==
    /\ call[h].op = "Close" /\ call[h].at = "leave" /\ guard.reads = 0
    /\ request' = scrubCredentialTrailerSurfaces(request)
    /\ guard' = [scrubLocked(guard, request, FALSE) EXCEPT !.closing = FALSE]
    /\ Stripping
    /\ ended' = TRUE
    /\ Return(h, "none")
    /\ UNCHANGED <<arrived, body, otherCalls, again>>

\* A body that cannot bring trailers is read as it is.
readUnguarded ==
    /\ handler.at = "reading" /\ ~guard.on
    /\ \/ handler' \in afterRead("EOF") \cup afterRead("failed")
       \/ request.length = "large" /\ handler' = writeBodyError("RequestTooLarge")
    /\ UNCHANGED <<arrived, request, guard, body, call, otherCalls, observed>>

\* The steps a call takes by itself, whatever the peer sends.
guardStep(h) ==
    \/ enterRead(h) \/ bodyOver(h) \/ leaveRead(h) \/ settleRead(h)
    \/ enterClose(h) \/ bodyClose(h) \/ leaveClose(h)

-----------------------------------------------------------------------------
(* Properties.                                                             *)

carriers(r) ==
    \/ "token" \in {r.url, r.uri, r.cookie}
    \/ r.uri \notin {"unset", r.url}
    \/ "credential" \in r.trailer \cup r.declared

(* Past its extraction a request carries no credential in its header,      *)
(* either view of its query or its cookies; it gets past authentication    *)
(* only if its one carrier was a well-formed Authorization field; and once *)
(* a credential trailer was removed no later extraction accepts or         *)
(* excuses the request (ExtractBearer, protectCredentialTrailers).  Once a *)
(* Close, or a Read that met the end of the body, has returned to any      *)
(* holder, no credential trailer is visible in the request, whichever      *)
(* other Reads and Closes were under way (credentialTrailerBody).          *)
CredentialsConfined ==
    /\ handler.at # "arrived" =>
         /\ request.authorization = "none"
         /\ "token" \notin {request.url, request.uri, request.cookie}
    /\ handler.at \in {"authenticating", "reading", "service"} =>
         arrived.authorization = "bearer" /\ ~carriers(arrived)
    /\ again \in {"none", "invalid"}
    /\ ended => ~hasCredentialTrailerDeclaration(request)

\* The statuses and headers that api/openapi/veer-v1alpha1.json declares.
common == {200, 400, 401, 403, 500, 503}
declaredStatuses(r) ==
    CASE r.route = "collection" /\ r.method = "GET" -> common
      [] r.route = "collection" /\ r.method = "POST" ->
           (common \ {200}) \cup {202, 409, 413, 415}
      [] r.route \in {"item", "operation"} /\ r.method = "GET" -> common \cup {404}
      [] r.route = "item" /\ r.method = "PUT" ->
           (common \ {200}) \cup {202, 404, 409, 412, 413, 415, 428}
      [] r.route = "item" /\ r.method = "DELETE" ->
           (common \ {200}) \cup {202, 404, 409, 412, 428}
      [] r.route = "status" /\ r.method = "PUT" -> common \cup {404, 409, 412, 413, 415, 428}
      [] OTHER -> {400, 401, 404, 405, 500, 503}

declaredHeaders(r, status) ==
    CASE status = 202 -> {"Location"}
      [] status = 401 -> {"WWW-Authenticate"}
      [] status = 405 -> {"Allow"}
      [] status = 412 -> {"ETag"}
      [] status = 503 -> {"Retry-After"}
      [] status = 200 /\ r.route # "collection" -> {"ETag"}
      [] OTHER -> {}

(* Whatever the request, the body's holders and the service do, the answer *)
(* is a status the published contract declares for the operation, with the *)
(* headers it declares for that status (reference.go,                      *)
(* api/openapi/veer-v1alpha1.json).                                        *)
ResponsesDeclared ==
    handler.at = "answered" =>
        /\ handler.response.status \in declaredStatuses(arrived)
        /\ handler.response.headers = declaredHeaders(arrived, handler.response.status)

(* A Close of the guarded body returns even while a Read is blocked on a   *)
(* silent peer ("Close still reaches the underlying body while a Read is   *)
(* in flight", credentialTrailerBody).                                     *)
ClosesReturn == \A h \in Holders : call[h].op = "Close" ~> call[h].op # "Close"
=============================================================================
