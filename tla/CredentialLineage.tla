-------------------------- MODULE CredentialLineage --------------------------
(****************************************************************************)
(* What the credential store promises its readers: the history of the one   *)
(* stored token.  A login puts a grant there that was never there before, a *)
(* refresh replaces the stored token by its own successor within the same   *)
(* grant, a logout removes it.  Nothing else changes it: in particular a    *)
(* token that was replaced or removed never comes back.                     *)
(****************************************************************************)
EXTENDS Naturals

VARIABLES
  token,    \* the stored token, or NoToken
  granted   \* the grants that have ever been stored

vars == <<token, granted>>

\* acc: the access token, numbered in the order of issue.  ref: the refresh
\* token it carries (0 for none).  client: the client it was issued to.
\* grant: the login it descends from.
Token   == [acc : Nat, ref : Nat, client : Nat, grant : Nat]
NoToken == [acc |-> 0, ref |-> 0, client |-> 0, grant |-> 0]

Successor(old, new) ==
  /\ new.acc > old.acc
  /\ new.client = old.client
  /\ new.grant = old.grant
  /\ new.ref \in {old.ref, new.acc}

Init ==
  /\ token \in Token
  /\ granted = IF token = NoToken THEN {} ELSE {token.grant}

Refresh ==
  /\ token # NoToken
  /\ token' \in Token
  /\ Successor(token, token')
  /\ UNCHANGED granted

Login ==
  /\ token' \in Token \ {NoToken}
  /\ token'.grant \notin granted
  /\ granted' = granted \cup {token'.grant}

Logout ==
  /\ token' = NoToken
  /\ UNCHANGED granted

Next == Refresh \/ Login \/ Logout

Spec == Init /\ [][Next]_vars
==============================================================================
