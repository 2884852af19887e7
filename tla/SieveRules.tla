----------------------------- MODULE SieveRules -----------------------------
(***************************************************************************)
(* Filter rules, the Sieve script they compile to (dovecot/sieve.py), and  *)
(* what Dovecot does with a message under it.                              *)
(*                                                                         *)
(* A rule's name is the place it has among names; a condition's word       *)
(* stands for a text the field has or has not, and its number is in        *)
(* tenths; an action is <<type, argument>>.  A script is the sequence of   *)
(* its `if` blocks.                                                        *)
(***************************************************************************)
EXTENDS Integers, SequencesExt

HeaderFields == {"from", "to", "cc", "subject", "header"}
AuthFields   == {"spf_result", "dkim_result", "dmarc_result"}
TextOps      == {"equals", "contains", "starts_with", "ends_with", "matches"}
ActionTypes  == {"file_into", "discard", "reject", "redirect", "mark_read", "flag", "stop"}

NotANumber == -99999

Condition == [field : STRING, op : STRING, word : STRING, number : Int]

\* What a row of filter_rules says.
Rule == [name : Int, priority : Int, conditions : Seq(Condition), match_type : STRING,
         actions : Seq(STRING \X STRING), stop_on_match : BOOLEAN, is_active : BOOLEAN]

-----------------------------------------------------------------------------
(* Compiling. *)

\* _rule_from_row: what the enumerations do not have is refused, in a rule that is
\* switched off too.
Readable(rule) ==
    /\ \A i \in DOMAIN rule.conditions :
        /\ rule.conditions[i].field \in HeaderFields \cup AuthFields
                                          \cup {"body", "size", "spam_score", "attachment"}
        /\ rule.conditions[i].op \in TextOps \cup {"gt", "lt"}
    /\ \A i \in DOMAIN rule.actions : rule.actions[i][1] \in ActionTypes

compile_condition(c) ==
    CASE c.field \in HeaderFields -> c.op \in TextOps
      [] c.field = "body"         -> c.op \in {"contains", "matches"}
      [] c.field \in {"size", "spam_score"} -> c.op \in {"gt", "lt"} /\ c.number # NotANumber
      [] OTHER -> TRUE

\* A redirect needs an address.
compile_action(a) == a[1] # "redirect" \/ a[2] # ""

Compiles(rule) ==
    /\ rule.conditions # <<>> /\ rule.actions # <<>>
    /\ \A i \in DOMAIN rule.conditions : compile_condition(rule.conditions[i])
    /\ \A i \in DOMAIN rule.actions : compile_action(rule.actions[i])

compile_rule(rule) ==
    [name |-> rule.name, tests |-> rule.conditions, all |-> rule.match_type = "all",
     commands |-> IF rule.stop_on_match /\ \A i \in DOMAIN rule.actions : rule.actions[i][1] # "stop"
                  THEN Append(rule.actions, <<"stop", "">>) ELSE rule.actions]

\* row.get("priority") or 100.
PriorityOf(rule) == IF rule.priority = 0 THEN 100 ELSE rule.priority

Before(a, b) ==
    \/ PriorityOf(a) < PriorityOf(b)
    \/ PriorityOf(a) = PriorityOf(b) /\ a.name < b.name

\* MatchType(...): what it does not know is a ValueError that nobody made a SieveError.
Legible(rule) == rule.match_type \in {"all", "any"}

CanCompile(rules) == \A r \in rules : Readable(r) /\ Legible(r) /\ (r.is_active => Compiles(r))

compile_script(rules) ==
    LET active == SetToSortSeq({r \in rules : r.is_active}, Before)
    IN  [i \in DOMAIN active |-> compile_rule(active[i])]

spam_rule ==
    [name |-> 0, priority |-> 100, match_type |-> "all", is_active |-> TRUE, stop_on_match |-> FALSE,
     conditions |-> <<[field |-> "header", op |-> "equals", number |-> NotANumber,
                       word |-> "X-Lightr-Spam-Action: junk"]>>,
     actions |-> <<<<"file_into", "Junk">>, <<"stop", "">>>>]

\* The server-wide script, of that rule alone: marked mail goes to Junk, and stops there.
spam_script == <<compile_rule(spam_rule)>>

-----------------------------------------------------------------------------
(* External: Dovecot runs the scripts on a message                         *)
(* [words, size, points, spf_result, dkim_result, dmarc_result,            *)
(* attachment].                                                            *)

\* i;ascii-numeric reads leading digits; a text without any is infinitely large.
ascii_numeric(tenths) == IF tenths < 0 THEN 10000 ELSE tenths \div 10

Passes(c, m) ==
    CASE c.field \in AuthFields -> m[c.field] = c.word
      [] c.field = "attachment" -> m.attachment = (c.word # "no")
      [] c.field = "size" -> IF c.op = "gt" THEN m.size > c.number ELSE m.size < c.number
      [] c.field = "spam_score" ->
             IF c.op = "gt" THEN ascii_numeric(m.points) > ascii_numeric(c.number)
             ELSE ascii_numeric(m.points) < ascii_numeric(c.number)
      [] OTHER -> <<c.field, c.word>> \in m.words

Matches(block, m) ==
    IF block.all THEN \A i \in DOMAIN block.tests : Passes(block.tests[i], m)
    ELSE \E i \in DOMAIN block.tests : Passes(block.tests[i], m)

\* keep: the implicit keep is still in force.
Arrived == [folders |-> {}, flags |-> {}, sent |-> {}, keep |-> TRUE, stopped |-> FALSE]

Do(state, command) ==
    IF state.stopped THEN state
    ELSE CASE command[1] = "file_into" ->
                 [state EXCEPT !.keep = FALSE, !.folders = @ \cup {<<command[2], state.flags>>}]
           [] command[1] = "redirect"  -> [state EXCEPT !.keep = FALSE, !.sent = @ \cup {command[2]}]
           [] command[1] \in {"discard", "reject"} -> [state EXCEPT !.keep = FALSE]
           [] command[1] = "mark_read" -> [state EXCEPT !.flags = {"Seen"}]
           [] command[1] = "flag"      -> [state EXCEPT !.flags = @ \cup {"Flagged"}]
           [] command[1] = "stop"      -> [state EXCEPT !.stopped = TRUE]

RunScript(script, m, state) ==
    FoldLeft(LAMBDA st, block : IF Matches(block, m) THEN FoldLeft(Do, st, block.commands) ELSE st,
             state, script)

\* sieve_before, and the mailbox's own script when that left the message to it.
Filed(script, m) ==
    LET first == RunScript(spam_script, m, Arrived)
        final == IF first.keep THEN RunScript(script, m, [first EXCEPT !.stopped = FALSE]) ELSE first
    IN  [folders |-> final.folders
                        \cup (IF final.keep THEN {<<"INBOX", final.flags>>} ELSE {}),
         sent    |-> final.sent]

=============================================================================
