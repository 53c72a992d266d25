----------------------- MODULE CallbackListenerProofs -----------------------
(* Theorems about CallbackListener, for any number of connections.           *)
EXTENDS CallbackListener, TLAPS

\* A failed check has settled the future, and the login returns no code but the
\* one the future holds.
MismatchSettles ==
  /\ caught # {} => future \notin Connections \cup {"pending"}
  /\ result \in Connections => future = result

\* Only the login cancels its future, and it does not look at it afterwards.
CancelledByTheLogin == login \in {"opening", "waiting"} => future # "cancelled"

ListenerInv == TypeOK /\ MismatchSettles /\ CancelledByTheLogin /\ StraysEndTheLogin

LEMMA ListenerInvariant == Spec => []ListenerInv
<1> USE ListenerAssumption
<1>1. Init => ListenerInv
  BY DEF Init, ListenerInv, TypeOK, MismatchSettles, CancelledByTheLogin, StraysEndTheLogin,
         Requests
<1>2. ListenerInv /\ [Next]_vars => ListenerInv'
  <2> SUFFICES ASSUME ListenerInv, [Next]_vars
               PROVE  ListenerInv'
    OBVIOUS
  <2> USE DEF ListenerInv, TypeOK, MismatchSettles, CancelledByTheLogin, StraysEndTheLogin,
              Requests, Goto, Settle
  <2>1. ASSUME NEW c \in Connections, Connect(c) PROVE ListenerInv'
    BY <2>1 DEF Connect
  <2>2. ASSUME NEW c \in Connections, Line(c) PROVE ListenerInv'
    <3>1. CASE request[c] = "stray"
      <4>1. /\ strays' = strays + 1
            /\ pc' = [pc EXCEPT ![c] = IF strays' > MaxStrays THEN "overflow" ELSE "not_found"]
            /\ pc[c] = "line"
            /\ UNCHANGED <<request, future, login, result, caught>>
        BY <2>2, <3>1 DEF Line
      <4>2. TypeOK' /\ MismatchSettles' /\ CancelledByTheLogin'
        BY <4>1
      <4>3. StraysEndTheLogin'
        BY <4>1
      <4>4. QED
        BY <4>2, <4>3
    <3>2. CASE request[c] # "stray"
      BY <2>2, <3>2 DEF Line
    <3>3. QED
      BY <3>1, <3>2
  <2>3. ASSUME NEW c \in Connections, Headers(c) PROVE ListenerInv'
    BY <2>3 DEF Headers
  <2>4. ASSUME NEW c \in Connections, Answered(c) PROVE ListenerInv'
    <3>1. CASE pc[c] \in {"not_found", "conflict"}
      BY <2>4, <3>1 DEF Answered
    <3>2. CASE pc[c] \in {"overflow", "not_allowed"}
      BY <2>4, <3>2 DEF Answered
    <3>3. CASE pc[c] = "page"
      BY <2>4, <3>3 DEF Answered
    <3>4. QED
      BY <2>4, <3>1, <3>2, <3>3 DEF Answered
  <2>5. ASSUME NEW c \in Connections, HangUp(c) PROVE ListenerInv'
    BY <2>5 DEF HangUp
  <2>6. CASE Login
    <3>1. CASE Open
      BY <3>1 DEF Open
    <3>2. CASE Wake
      BY <3>2 DEF Wake
    <3>3. CASE GiveUp
      BY <3>3 DEF GiveUp
    <3>4. CASE Closed
      BY <3>4 DEF Closed
    <3>5. QED
      BY <2>6, <3>1, <3>2, <3>3, <3>4 DEF Login
  <2>7. CASE UNCHANGED vars
    BY <2>7 DEF vars
  <2>8. QED
    BY <2>1, <2>2, <2>3, <2>4, <2>5, <2>6, <2>7 DEF Next, Handle
<1>3. QED
  BY <1>1, <1>2, PTL DEF Spec

-----------------------------------------------------------------------------
\* For any number of concurrent connections, a callback that failed a check of
\* the transaction ends the login: no other callback gets a code through.
THEOREM MismatchEndsTheLogin == Spec => []NoCodeAfterMismatch
<1>1. ListenerInv => NoCodeAfterMismatch
  BY DEF ListenerInv, MismatchSettles, NoCodeAfterMismatch
<1>2. QED
  BY <1>1, ListenerInvariant, PTL

\* The state of the listener is well typed: the login returns nothing but its
\* own refusals, its end or the code of a connection.
THEOREM ListenerTypes == Spec => []TypeOK
BY ListenerInvariant, PTL DEF ListenerInv

\* For any number of connections and any bound, the stray request that exceeds
\* the bound ends the login once it is answered.
THEOREM StrayFloodEndsTheLogin == Spec => []StraysEndTheLogin
BY ListenerInvariant, PTL DEF ListenerInv
=============================================================================
