---------------------------- MODULE MCReadGateway ----------------------------
(* A read, a reviewed mutation, a denied tool, an entry whose digests no      *)
(* longer match, and a name the manifest does not have; arguments that read   *)
(* the same each time, and some that do not.                                  *)
EXTENDS ReadGateway, TLC

CONSTANTS c1, c2

Entry(allowed, mutates, intact) ==
  [read_allowed |-> allowed, mutates |-> mutates, intact |-> intact,
   validates |-> {"good", "undeclared"}, declared |-> {"good", "invalid"}]

MCManifest ==
  [cap \in {"quotes", "order", "transfer", "edited"} |->
     CASE cap = "quotes"   -> Entry(TRUE, FALSE, TRUE)
       [] cap = "order"    -> Entry(TRUE, TRUE, TRUE)
       [] cap = "transfer" -> Entry(FALSE, TRUE, TRUE)
       [] cap = "edited"   -> Entry(TRUE, FALSE, FALSE)]

MCRequested == DOMAIN MCManifest \cup {"unlisted"}
MCArguments == {"good", "undeclared", "invalid"}
MCCopies    == {{"good"}, {"undeclared"}, {"undeclared", "invalid"}}
=============================================================================
