-------------------------------- MODULE Wire --------------------------------
(***************************************************************************)
(* How a failed request is understood: what Reddit or the network did, the *)
(* exception the library raises for it, the port's exception it becomes    *)
(* (adapters/reddit_praw.py), the outcome the ladder acts on (core/retry)  *)
(* and what is done about it in a sweep (services/runs, services/sweep).   *)
(***************************************************************************)
EXTENDS Naturals, FiniteSets

-----------------------------------------------------------------------------
(* What can happen to a request.                                            *)

HeaderForms == {"absent", "seconds", "date", "past", "garbage"}   \* Retry-After
Statuses == {200, 302, 400, 401, 403, 404, 409, 429, 451, 502}
NetworkRoots == {"gaierror", "ConnectionRefusedError", "ConnectionResetError", "ReadTimeout"}

Answered(status, body, header) == [root |-> "none", status |-> status, body |-> body, header |-> header]
Unanswered(root) == [root |-> root, status |-> 0, body |-> "none", header |-> "absent"]

\* Bodies stand for what distinguishes two answers with one status: for a 401 and a 403 the
\* www-authenticate header, for a 200 whether it is JSON and its rate-limit headers are whole.
Events ==
  {Unanswered(r) : r \in NetworkRoots}
    \cup {Answered(429, "none", h) : h \in HeaderForms}
    \cup {Answered(401, b, "absent") : b \in {"invalid_token", "no_reason", "token_endpoint"}}
    \cup {Answered(403, b, "absent") : b \in {"html", "quarantine", "json", "insufficient_scope"}}
    \cup {Answered(200, b, "absent") : b \in {"not_json", "half_headers", "oauth_error"}}
    \cup {Answered(s, "none", "absent") : s \in {302, 400, 404, 409, 451, 502}}

-----------------------------------------------------------------------------
(* The library.                                                             *)

\* What escapes from the library's request.  A Retry-After that is no number kills
\* TooManyRequests in its constructor; a 401 without a reason, and a half set of headers,
\* end in a KeyError.
Raised(e) ==
  CASE e.root # "none" -> "RequestException"
    [] e.status = 429 -> IF e.header \in {"absent", "seconds"} THEN "TooManyRequests" ELSE "ValueError"
    [] e.status = 401 -> CASE e.body = "invalid_token" -> "InvalidToken"
                           [] e.body = "no_reason" -> "KeyError"
                           [] OTHER -> "ResponseException"
    [] e.status = 403 -> IF e.body = "insufficient_scope" THEN "InsufficientScope" ELSE "Forbidden"
    [] e.status = 200 -> CASE e.body = "not_json" -> "BadJSON"
                           [] e.body = "half_headers" -> "KeyError"
                           [] OTHER -> "OAuthException"
    [] e.status = 302 -> "Redirect" [] e.status = 404 -> "NotFound"
    [] e.status = 451 -> "UnavailableForLegalReasons" [] e.status = 502 -> "ServerError"
    [] e.status = 400 -> "BadRequest" [] e.status = 409 -> "Conflict"

\* The library's hierarchy.
Bases(class) ==
  CASE class \in {"TooManyRequests", "InvalidToken", "InsufficientScope", "Forbidden", "BadJSON",
                  "Redirect", "NotFound", "UnavailableForLegalReasons", "ServerError",
                  "BadRequest", "Conflict"} ->
         {class, "ResponseException", "PrawcoreException"}
    [] class \in {"ResponseException", "RequestException", "OAuthException"} ->
         {class, "PrawcoreException"}
    [] OTHER -> {class}

-----------------------------------------------------------------------------
(* The adapter.                                                             *)

Error(class) == [class |-> class, wait |-> FALSE, cause |-> "none"]

\* _seconds: a number, or a date still to come.
Seconds(header) == header \in {"seconds", "date"}

RateLimited(e) == [Error("RateLimited") EXCEPT !.wait = Seconds(e.header)]

FromForbidden(e) ==
  CASE e.body = "html" -> Error("HtmlBlocked")
    [] e.body = "quarantine" -> Error("SubredditQuarantined")
    [] OTHER -> Error("SubredditForbidden")

FromResponse(e) == IF e.status = 401 THEN Error("AuthFailed") ELSE Error("GatewayError")

\* Slip: the base class stands before the classes derived from it.
Rows_BaseFirst ==
  <<"ResponseException", "Forbidden", "InvalidToken", "OAuthException", "NotFound", "Redirect",
    "UnavailableForLegalReasons", "ServerError", "BadJSON", "RequestException",
    "PrawcoreException">>

\* _TRANSLATIONS, in order: a subclass row must precede its base.
Rows ==
  <<"Forbidden", "InvalidToken", "OAuthException", "NotFound", "Redirect",
    "UnavailableForLegalReasons", "ServerError", "BadJSON", "RequestException",
    "ResponseException", "PrawcoreException">>

Built(row, e) ==
  CASE row = "Forbidden" -> FromForbidden(e)
    [] row \in {"InvalidToken", "OAuthException"} -> Error("AuthFailed")
    [] row = "NotFound" -> Error("SubredditNotFound")
    [] row = "Redirect" -> Error("SubredditRedirected")
    [] row = "UnavailableForLegalReasons" -> Error("SubredditForbidden")
    [] row \in {"ServerError", "BadJSON"} -> Error("TransientError")
    [] row = "RequestException" -> [Error("TransientError") EXCEPT !.cause = e.root]
    [] row = "ResponseException" -> FromResponse(e)
    [] OTHER -> Error("GatewayError")

Translate(class, e) ==
  IF class = "TooManyRequests" THEN RateLimited(e)
  ELSE LET hits == {i \in DOMAIN Rows : Rows[i] \in Bases(class)}
       IN  Built(Rows[CHOOSE i \in hits : \A j \in hits : i <= j], e)

\* _from_key_error: the OAuth table by its frame, the rate-limit headers by the missing key.
FromKeyError(e) == IF e.status = 401 THEN Error("AuthFailed") ELSE Error("GatewayError")

\* Slip: a ValueError of the library is an answer that cannot be read.
FromValueError_Unread(e) == Error("GatewayError")

\* _half_built_rate_limit: the exception that died while it was being built.
FromValueError(e) == IF e.status = 429 THEN RateLimited(e) ELSE Error("GatewayError")

\* _get.
Received(e) ==
  LET class == Raised(e)
  IN  CASE class = "KeyError" -> FromKeyError(e)
        [] class = "ValueError" -> FromValueError(e)
        [] OTHER -> Translate(class, e)

-----------------------------------------------------------------------------
(* The classifier.                                                          *)

\* Which rule the names and attributes of one exception match, in the order of the rules.  A
\* name that says Forbidden is a token's unless it says Subreddit.
ClassifyOne(class) ==
  CASE class = "RateLimited" -> "rate_limited"
    [] class = "AuthFailed" -> "auth"
    [] class \in {"gaierror", "ConnectionRefusedError"} -> "network_down"
    [] class \in {"TransientError", "ConnectionResetError", "ReadTimeout"} -> "transient"
    [] OTHER -> "fatal"

\* Slip: the wrapper's own name decides.
Classify_ByName(x) == ClassifyOne(x.class)

\* classify: an outage looks like a dropped connection one layer up; only a transient wrapper
\* is searched for it.
Classify(x) ==
  IF ClassifyOne(x.class) = "transient" /\ ClassifyOne(x.cause) = "network_down" THEN "network_down"
  ELSE ClassifyOne(x.class)

-----------------------------------------------------------------------------
(* What is done about it.                                                   *)

\* _FAILURE_TABLE.
SourceStatus(class) ==
  CASE class = "SubredditForbidden" -> "forbidden" [] class = "SubredditNotFound" -> "not_found"
    [] class = "SubredditRedirected" -> "redirect" [] class = "SubredditQuarantined" -> "quarantined"
    [] OTHER -> "error"

\* One unit of work, its pauses used up: fetch_with_ladder, then the sweep of the source.
Fate(x) ==
  CASE x.class = "RateLimited" -> [ends |-> "rate_limited", pauses |-> IF x.wait THEN "told" ELSE "default"]
    [] x.class = "HtmlBlocked" -> [ends |-> "failed", pauses |-> "none"]
    [] Classify(x) = "auth" -> [ends |-> "config", pauses |-> "none"]
    [] Classify(x) = "network_down" -> [ends |-> "network", pauses |-> "ladder"]
    [] Classify(x) = "transient" -> [ends |-> SourceStatus(x.class), pauses |-> "ladder"]
    [] OTHER -> [ends |-> SourceStatus(x.class), pauses |-> "none"]

\* The ping before the sweep, which walks no ladder: "warned" goes on to the sweep.
Ping(x) ==
  CASE x.class = "AuthFailed" -> "config" [] x.class = "HtmlBlocked" -> "failed"
    [] x.class = "RateLimited" -> "rate_limited"
    [] SourceStatus(x.class) # "error" -> "sweeps"
    [] x.class # "TransientError" /\ Classify(x) = "network_down" -> "network"
    [] OTHER -> "warned"

-----------------------------------------------------------------------------
(* Properties.                                                              *)

Ends(e, end) == Fate(Received(e)).ends = end
Pauses(e, how) == Fate(Received(e)).pauses = how

\* Whatever form a failure takes on the wire, the run does what it means: it waits for a
\* 429 -- as long as Reddit says when Reddit says it readably -- and ends rate limited;
\* asks for credentials exactly when Reddit rejected them; ends as `network` exactly when
\* Reddit could not be reached; climbs the ladder only for what may pass; and blames a
\* source exactly for what is said of that source.
NothingMisread(e) ==
  /\ Ends(e, "rate_limited") <=> e.status = 429
  /\ e.status = 429 => (Pauses(e, "told") <=> e.header \in {"seconds", "date"})
  /\ Ends(e, "config") <=> e.status = 401 \/ e.body = "oauth_error"
  /\ Ends(e, "network") <=> e.root \in {"gaierror", "ConnectionRefusedError"}
  /\ Pauses(e, "ladder") <=> e.root # "none" \/ e.status = 502 \/ e.body = "not_json"
  /\ Ends(e, "failed") <=> e.body = "html"
  /\ Ends(e, "quarantined") <=> e.body = "quarantine"
  /\ Ends(e, "forbidden") <=> e.body = "json" \/ e.status = 451
  /\ Ends(e, "not_found") <=> e.status = 404
  /\ Ends(e, "redirect") <=> e.status = 302
  \* and the ping, which only looks, ends no run that the sweep would not end.
  /\ Ping(Received(e)) \notin {"sweeps", "warned"} => Ends(e, Ping(Received(e)))
=============================================================================
