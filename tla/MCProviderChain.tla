-------------------------- MODULE MCProviderChain --------------------------
(* Values of the constants of ProviderChain for TLC. *)
EXTENDS ProviderChain

CONSTANTS ldap, oidc, domain_webhook


\* The directory asked first may have a shorter time than checkpassword has.
Times == [p \in Providers |-> IF p = ldap THEN 1 ELSE 2]

Stored(covers, known) == [enabled |-> TRUE, priority |-> IF covers THEN 2 ELSE 1,
    covers |-> covers, is_default |-> ~covers, known |-> known]

\* Two rows for the domain, one beside a default, a default alone, one the old engine
\* left behind, and none at all.
Tables == {
    [p \in Rows |-> Stored(TRUE, TRUE)],
    [p \in Rows |-> IF p = ldap THEN Stored(TRUE, TRUE) ELSE Stored(FALSE, TRUE)],
    [p \in Rows |-> IF p = ldap THEN NoRow ELSE Stored(TRUE, FALSE)],
    [p \in Rows |-> NoRow]}

Accounts == {[mode |-> "external", hash |-> "none"], [mode |-> "native", hash |-> "right"],
             [mode |-> "disabled", hash |-> "right"]}

Webhooks == {"unverified", "verified"}

\* The password is one directory's, or nobody's; a second takes it up by a change.
Directories == {[p \in Providers |-> [health |-> "up", accepts |-> p = keeper]] :
                   keeper \in Providers \cup {"nobody"}}
=============================================================================
