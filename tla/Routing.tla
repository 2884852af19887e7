------------------------------- MODULE Routing -------------------------------
(***************************************************************************)
(* Where mail for an address goes (mail/routing.py), as operators on a     *)
(* directory record:                                                       *)
(*   hosted      whether the local addresses' domain is one of ours        *)
(*   account     "none", "open", "disabled", "blocked" (from receiving) or *)
(*               "muted" (from sending), of each mailbox                   *)
(*   alias       its active alias, or NoAlias                              *)
(*   suppressed  the suppression list                                      *)
(*   token       its reply route, of each token address                    *)
(* Addresses are taken as routing compares them, lower case and with an @. *)
(***************************************************************************)
EXTENDS Integers, FiniteSets

CONSTANTS
    Mailboxes,  \* addresses on our domains that may be accounts or aliases
    Tokens,     \* reply-token addresses on our domains
    Remote,     \* addresses on other domains
    MaxDepth,   \* MAX_ALIAS_DEPTH
    NullSender, \* the envelope sender of a bounce
    NoAlias,
    NoToken

Local     == Mailboxes \cup Tokens
Addresses == Local \cup Remote

LOOP == "loop"

ASSUME RoutingAssumption ==
    /\ Mailboxes \cap Remote = {} /\ Tokens \cap Remote = {}
    /\ Mailboxes \cap Tokens = {}
    /\ MaxDepth \in Nat \ {0}
    /\ NullSender \notin Addresses /\ LOOP \notin Addresses

Alias == [type : {"forward", "bridge"}, to : SUBSET Addresses]

\* A row of alias_reply_routes: where its copy went, and who wrote in.
ReplyRoutes == [kind : {"bridge", "forward"}, local_address : Mailboxes,
                to : SUBSET Addresses, original_from : Addresses \cup {NullSender},
                expired : BOOLEAN]

Reasons == {"not_local", "no_such", "suppressed", "loop", "disabled", "blocked"}

\* RejectReason.smtp_code: a loop is ours to mend, the rest is final.
smtp_code(reason) == IF reason = "loop" THEN 451 ELSE 550

IsLocal(d, a) == d.hosted /\ a \in Local

HasAccount(d, a) == a \in Mailboxes /\ d.account[a] # "none"
HasAlias(d, a)   == a \in Mailboxes /\ d.alias[a] # NoAlias

\* Router._expand: aliases of aliases are followed down to accounts and remote
\* addresses.  seen is the path being followed, not every address met.
expansion(d) ==
    LET E[depth \in 0..MaxDepth] ==
            [seen \in SUBSET Mailboxes |-> [to \in SUBSET Addresses |->
                LET Follow(b) ==
                        IF b \in seen THEN {LOOP}
                        ELSE IF ~IsLocal(d, b) \/ HasAccount(d, b) THEN {b}
                        ELSE IF HasAlias(d, b)
                             THEN E[depth + 1][seen \cup {b}][d.alias[b].to]
                        ELSE {}
                IN  IF depth = MaxDepth THEN {LOOP} ELSE UNION {Follow(b) : b \in to}]]
    IN  E

expand_from(d, destinations, path) == expansion(d)[0][path][destinations]

\* Mutant: the path starts after the address the mail is for.
expand_mut(d, a) == expand_from(d, d.alias[a].to, {})

expand(d, a) == expand_from(d, d.alias[a].to, {a})

Routes == [recipient : Addresses,
           disposition : {"reject", "local", "forward", "bridge", "reply"},
           to : SUBSET Addresses, reason : Reasons \cup {"none"},
           reply : ReplyRoutes \cup {NoToken}]

RouteTo(a, disposition, to) ==
    [recipient |-> a, disposition |-> disposition, to |-> to, reason |-> "none",
     reply |-> NoToken]

Reject(a, reason) ==
    [recipient |-> a, disposition |-> "reject", to |-> {}, reason |-> reason,
     reply |-> NoToken]

\* Router.route for an account: a bridge mirrors into it; any other alias of the
\* same name is ignored.
RouteAccount(d, a) ==
    LET bridged == HasAlias(d, a) /\ d.alias[a].type = "bridge"
        to == IF bridged THEN expand(d, a) ELSE {}
    IN  IF d.account[a] \in {"disabled", "blocked"} THEN Reject(a, d.account[a])
        ELSE IF LOOP \in to THEN Reject(a, "loop")
        ELSE IF to # {} THEN RouteTo(a, "bridge", to)
        ELSE RouteTo(a, "local", {})

\* A bridge with no account of its name degrades to a plain forward.
RouteAlias(d, a) ==
    LET to == expand(d, a)
    IN  IF LOOP \in to THEN Reject(a, "loop")
        ELSE IF to = {} THEN Reject(a, "no_such")
        ELSE RouteTo(a, "forward", to)

IsLiveToken(d, a) == a \in Tokens /\ d.token[a] # NoToken /\ ~d.token[a].expired

\* Router.route.
route(d, a) ==
    IF a \in d.suppressed THEN Reject(a, "suppressed")
    ELSE IF ~IsLocal(d, a) THEN Reject(a, "not_local")
    ELSE IF IsLiveToken(d, a) THEN [RouteTo(a, "reply", {}) EXCEPT !.reply = d.token[a]]
    ELSE IF HasAccount(d, a) THEN RouteAccount(d, a)
    ELSE IF HasAlias(d, a) THEN RouteAlias(d, a)
    ELSE Reject(a, "no_such")

-----------------------------------------------------------------------------
(* What routing should compute, by paths in the graph of aliases. *)

\* The addresses expansion follows further.
Followed(d) == {b \in Mailboxes : IsLocal(d, b) /\ ~HasAccount(d, b) /\ HasAlias(d, b)}

\* What is n alias hops away from the destinations of a.
Hops(d, a) ==
    LET H[n \in 0..MaxDepth] ==
            IF n = 0 THEN d.alias[a].to
            ELSE UNION {d.alias[b].to : b \in H[n - 1] \cap Followed(d)}
    IN  H

\* A chain of aliases that is too long (one that comes back on itself has no
\* end), or that returns to the address the mail is for.
Loops(d, a) ==
    \/ Hops(d, a)[MaxDepth - 1] \cap Followed(d) # {}
    \/ \E n \in 0..MaxDepth - 1 : a \in Hops(d, a)[n]

Terminals(d, a) ==
    UNION {{b \in Hops(d, a)[n] : ~IsLocal(d, b) \/ HasAccount(d, b)} :
            n \in 0..MaxDepth - 1}

\* Expansion is reachability: it reports a loop exactly where there is one (two
\* aliases converging on one mailbox are not one), and finds every account and
\* remote address the aliases lead to, and nothing else.
ExpandsToReachable(d) ==
    d.hosted => \A a \in Mailboxes : HasAlias(d, a) =>
        IF Loops(d, a) THEN LOOP \in expand(d, a)
        ELSE expand(d, a) = Terminals(d, a)

=============================================================================
