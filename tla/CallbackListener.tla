-------------------------- MODULE CallbackListener --------------------------
(****************************************************************************)
(* The loopback listener of a login: _CallbackListener, _callback_listener  *)
(* and await_authorization_code of auth.py.                                 *)
(*                                                                          *)
(* Every connection has a handler task of its own; the awaits of a handler  *)
(* are the request line, the headers and the answer.  All of them and the   *)
(* login share one future.  A request is abstracted to what the handler     *)
(* tells apart.                                                             *)
(****************************************************************************)
EXTENDS Naturals

CONSTANTS
  Connections,  \* bound: the connections that may ever be made
  MaxStrays     \* _MAX_STRAY_REQUESTS

ASSUME ListenerAssumption ==
  /\ MaxStrays \in Nat
  /\ Connections \cap {"pending", "refused", "cancelled", "none", "no_browser", "gave_up"} = {}

VARIABLES
  pc,       \* where each connection's handler is
  request,  \* what each connection carries
  future,   \* pending, refused, cancelled, or the connection whose code it holds
  strays,   \* _strays
  login,    \* where login() is
  result,   \* what the wait for a code came to
  caught    \* history: connections that failed a check of the transaction while
            \* the future was pending

vars == <<pc, request, future, strays, login, result, caught>>

\* An unreadable line, another path, another method, a failed check of the
\* headers or of the query, the redirect of the browser.
Requests == {"malformed", "stray", "post", "mismatched", "redirect"}

Init ==
  /\ pc = [c \in Connections |-> "none"]
  /\ request = [c \in Connections |-> "malformed"]
  /\ future = "pending"
  /\ strays = 0
  /\ login = "opening"
  /\ result = "none"
  /\ caught = {}

-----------------------------------------------------------------------------
(* The handlers *)

Goto(c, label) == pc' = [pc EXCEPT ![c] = label]

\* _abort, and set_result, whose error on a future that is done is swallowed by
\* handle().
Settle(value) == future' = IF future = "pending" THEN value ELSE future

Connect(c) ==
  /\ login = "waiting" /\ pc[c] = "none"
  /\ \E r \in Requests : request' = [request EXCEPT ![c] = r]
  /\ Goto(c, "line")
  /\ UNCHANGED <<future, strays, login, result, caught>>

\* Faulty: the bound on stray requests is taken for each connection by itself.
LineForgetsStrays(c) ==
  /\ pc[c] = "line"
  /\ \/ /\ request[c] = "stray"
        /\ strays' = strays + 1
        /\ Goto(c, "not_found")
     \/ /\ request[c] # "stray" /\ UNCHANGED strays
        /\ Goto(c, IF request[c] = "malformed" THEN "ended"
                   ELSE IF request[c] = "post" THEN "not_allowed" ELSE "headers")
  /\ UNCHANGED <<request, future, login, result, caught>>

\* The request line has come.  One stray request too many ends the login, but
\* only after it was answered.
Line(c) ==
  /\ pc[c] = "line"
  /\ \/ request[c] = "malformed" /\ Goto(c, "ended") /\ UNCHANGED strays
     \/ /\ request[c] = "stray"
        /\ strays' = strays + 1
        /\ Goto(c, IF strays' > MaxStrays THEN "overflow" ELSE "not_found")
     \/ request[c] = "post" /\ Goto(c, "not_allowed") /\ UNCHANGED strays
     \/ request[c] \in {"mismatched", "redirect"} /\ Goto(c, "headers") /\ UNCHANGED strays
  /\ UNCHANGED <<request, future, login, result, caught>>

\* Faulty: a failed check is answered first and aborts the login afterwards.
HeadersAbortLate(c) ==
  /\ pc[c] = "headers"
  /\ \/ /\ request[c] = "mismatched"
        /\ caught' = IF future = "pending" THEN caught \cup {c} ELSE caught
        /\ Goto(c, "not_allowed")
     \/ /\ request[c] = "redirect"
        /\ Goto(c, IF future = "pending" THEN "page" ELSE "conflict")
        /\ UNCHANGED caught
  /\ UNCHANGED <<request, future, strays, login, result>>

\* The headers have come: a failed check aborts the login at once; a redirect is
\* answered with the page, or with 409 when the future is done.
Headers(c) ==
  /\ pc[c] = "headers"
  /\ \/ /\ request[c] = "mismatched"
        /\ Settle("refused")
        /\ caught' = IF future = "pending" THEN caught \cup {c} ELSE caught
        /\ Goto(c, "ended")
     \/ /\ request[c] = "redirect"
        /\ Goto(c, IF future = "pending" THEN "page" ELSE "conflict")
        /\ UNCHANGED <<future, caught>>
  /\ UNCHANGED <<request, strays, login, result>>

\* _respond has returned.  The future is not looked at again before its result
\* is set.
Answered(c) ==
  /\ \/ pc[c] \in {"not_found", "conflict"} /\ UNCHANGED future
     \/ pc[c] \in {"overflow", "not_allowed"} /\ Settle("refused")
     \/ pc[c] = "page" /\ Settle(c)
  /\ Goto(c, "ended")
  /\ UNCHANGED <<request, strays, login, result, caught>>

\* Faulty: only the request line is read under a timeout.
HangUpLineOnly(c) ==
  /\ pc[c] = "line"
  /\ Goto(c, "ended")
  /\ UNCHANGED <<request, future, strays, login, result, caught>>

\* A read times out, meets the end of the stream or overruns its limit: the
\* connection is closed and the login goes on.
HangUp(c) ==
  /\ pc[c] \in {"line", "headers"}
  /\ Goto(c, "ended")
  /\ UNCHANGED <<request, future, strays, login, result, caught>>

-----------------------------------------------------------------------------
(* login(), inside _callback_listener *)

\* The port is bound.  Without a browser the login fails and closes it again.
Open ==
  /\ login = "opening"
  /\ \/ login' = "waiting" /\ UNCHANGED result
     \/ login' = "closing" /\ result' = "no_browser"
  /\ UNCHANGED <<pc, request, future, strays, caught>>

Wake ==
  /\ login = "waiting" /\ future # "pending"
  /\ login' = "closing"
  /\ result' = future
  /\ UNCHANGED <<pc, request, future, strays, caught>>

\* The callback budget runs out, or the caller cancels: both win over a future
\* that is done but has not woken the login yet.
GiveUp ==
  /\ login = "waiting"
  /\ login' = "closing"
  /\ result' = "gave_up"
  /\ Settle("cancelled")
  /\ UNCHANGED <<pc, request, strays, caught>>

\* close() stops accepting; wait_closed() waits for the handlers under way.
Closed ==
  /\ login = "closing"
  /\ \A c \in Connections : pc[c] \in {"none", "ended"}
  /\ login' = "returned"
  /\ UNCHANGED <<pc, request, future, strays, result, caught>>

Handle(c) == Line(c) \/ Headers(c) \/ Answered(c)

Login == Open \/ Wake \/ GiveUp \/ Closed

Next == Login \/ \E c \in Connections : Connect(c) \/ Handle(c) \/ HangUp(c)

Spec == Init /\ [][Next]_vars

\* The reads of a handler and the wait for a code end by their timeouts; an
\* answer is a few hundred bytes and never waits for its reader.  A request that
\* never completes is not owed the step that handles it.
Fairness ==
  /\ WF_vars(Login)
  /\ \A c \in Connections : WF_vars(Answered(c)) /\ WF_vars(HangUp(c))

FairSpec == Spec /\ Fairness

-----------------------------------------------------------------------------
(* Properties *)

TypeOK ==
  /\ pc \in [Connections -> {"none", "line", "headers", "not_found", "overflow",
                             "not_allowed", "page", "conflict", "ended"}]
  /\ request \in [Connections -> Requests]
  /\ future \in {"pending", "refused", "cancelled"} \cup Connections
  /\ strays \in Nat
  /\ login \in {"opening", "waiting", "closing", "returned"}
  /\ result \in {"none", "no_browser", "gave_up", "refused"} \cup Connections
  /\ caught \subseteq Connections

\* A callback that fails a check of the transaction aborts the whole login: no
\* redirect handled at the same time, before or after it, gets its code through
\* (_CallbackListener).
NoCodeAfterMismatch == caught # {} => result \notin Connections

\* Stray requests are counted over all the connections: with one too many, and
\* its answer sent, the login is over (_CallbackListener._handle).
StraysEndTheLogin ==
  strays > MaxStrays /\ (\A c \in Connections : pc[c] # "overflow") => future # "pending"

\* Whatever connects, and however slowly it talks, login() gets past the
\* listener.
LoginReturns == login = "opening" ~> login = "returned"
=============================================================================
