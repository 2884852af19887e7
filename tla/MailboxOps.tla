----------------------------- MODULE MailboxOps -----------------------------
(***************************************************************************)
(* What a mailbox's own requests do to its mail (api/mailbox.py), through  *)
(* dovecot/mailbox.py and the IMAP commands of dovecot/aioimap.py: flags,  *)
(* moves with their fall-back for servers without MOVE, deletion by way of *)
(* Trash, emptying, drafts that replace one another, and sending.  Each    *)
(* request has a connection of its own; between any two of its commands    *)
(* come those of other requests, of the owner's mail app, or the end of    *)
(* the connection, with the last command carried out or not.  New mail     *)
(* takes a uid no request has named: deliveries are left out.              *)
(***************************************************************************)
EXTENDS Integers, FiniteSets, Sequences

CONSTANTS
    Requests,
    Operations,  \* the operations clients ask for: a subset of AllOperations
    Destinations, \* the folders they name to move to
    Servers,     \* whether Dovecot has MOVE: a subset of BOOLEAN
    Initial,     \* the copies there are at the start
    MaxUid,      \* bound: copies made
    MaxFaults,   \* bound: connections lost, and NOs to MOVE
    MaxApp       \* bound: commands of the owner's mail app

\* Nowhere is a folder a client names that does not exist.
Special == {"INBOX", "Trash", "Drafts", "Sent"}
Nowhere == "nowhere"
AllOperations == {"flag", "move", "delete", "purge", "empty", "draft", "send"}

\* A message is named by the uid of its first copy; one counter serves the uids of
\* all folders, in which uids only grow.
Copy == [uid : 1..MaxUid, mail : 1..MaxUid, folder : Special, seen : BOOLEAN,
         deleted : BOOLEAN, answered : BOOLEAN]

ASSUME MailboxAssumption ==
    /\ Initial \subseteq Copy /\ IsFiniteSet(Initial)
    /\ \A c \in Initial : c.uid <= Cardinality(Initial)
    /\ \A c, d \in Initial : c.uid = d.uid => c = d
    /\ Cardinality(Initial) <= MaxUid
    /\ Operations \subseteq AllOperations /\ Destinations \subseteq Special \cup {Nowhere}
    /\ Servers \subseteq BOOLEAN
    /\ MaxUid \in Nat /\ MaxFaults \in Nat /\ MaxApp \in Nat

VARIABLES
    has_move,
    box,      \* the copies in the mailbox
    last,     \* the highest uid
    mails,    \* history: the messages there ever were
    request,  \* the requests
    marked,   \* history: the messages the app has marked \Deleted
    unwanted, \* history: the messages whose end was asked for
    sent,     \* history: the messages handed to LightrHandler.deliver
    faults, app

vars == <<has_move, box, last, mails, request, marked, unwanted, sent, faults, app>>

-----------------------------------------------------------------------------
(* Copies.                                                                 *)

In(folder) == {c \in box : c.folder = folder}
Named(r) == {c \in In(request[r].folder) : c.uid \in request[r].uids}
Mails(copies) == {c.mail : c \in copies}

\* A request: what was asked, the commands still to be sent, the folder, the uids
\* and the destination they work on, the message it makes, whether another hand
\* has touched the mailbox since it began (history), the named copies as they
\* were then (history), and its answer.
Commands == {"mark", "move", "copy", "store", "expunge", "search", "append", "deliver",
             "file", "answered"}
Answers == {"none", "ok", "refused", "failed", "not filed"}

Request == [op     : AllOperations \cup {"none"},
            todo   : Seq(Commands),
            folder : Special,
            uids   : SUBSET (1..MaxUid),
            to     : Special \cup {Nowhere},
            read   : BOOLEAN,
            mail   : 0..MaxUid,
            alone  : BOOLEAN,
            found  : SUBSET Copy,
            answer : Answers]

NoRequest == [op |-> "none", todo |-> <<>>, folder |-> "INBOX", uids |-> {}, to |-> "Trash",
              read |-> FALSE, mail |-> 0, alone |-> TRUE, found |-> {}, answer |-> "none"]

Active(r) == request[r].op # "none" /\ request[r].answer = "none"

Init ==
    /\ has_move \in Servers
    /\ box = Initial
    /\ last = Cardinality(Initial)
    /\ mails = Mails(Initial)
    /\ request = [r \in Requests |-> NoRequest]
    /\ marked = Mails({c \in Initial : c.deleted})
    /\ unwanted = {}
    /\ sent = {}
    /\ faults = 0
    /\ app = 0

-----------------------------------------------------------------------------
(* The commands an operation is made of, in order.                         *)

Remove == <<"store", "expunge">>

\* Mailbox.delete
delete(folder, purge) == IF purge \/ folder = "Trash" THEN Remove ELSE <<"move">>

save_draft(replaces) == <<"append">> \o (IF replaces THEN Remove ELSE <<>>)

send_message(replies) == <<"deliver", "file">> \o (IF replies THEN <<"answered">> ELSE <<>>)

\* Mutant: the flags are set last, on uids that have moved.
bulk_mut(op, read, folder) ==
    (CASE op = "move"   -> <<"move">>
       [] op = "delete" -> delete(folder, FALSE)
       [] op = "purge"  -> delete(folder, TRUE)
       [] OTHER         -> <<>>) \o
    (IF read THEN <<"mark">> ELSE <<>>)

\* bulk_messages, and mark_message and delete_message, which are cases of it; of the
\* flags, setting \Seen stands for them all, and none is cleared.
bulk(op, read, folder) ==
    (IF read THEN <<"mark">> ELSE <<>>) \o
    (CASE op = "move"   -> <<"move">>
       [] op = "delete" -> delete(folder, FALSE)
       [] op = "purge"  -> delete(folder, TRUE)
       [] OTHER         -> <<>>)

Open(r, new) ==
    /\ request[r].op = "none"
    /\ new.op \in Operations
    /\ request' = [request EXCEPT ![r] =
                     [new EXCEPT !.found = {c \in In(new.folder) : c.uid \in new.uids}]]
    /\ UNCHANGED <<has_move, box, last, mails, marked, sent, faults, app>>

Bulk(r, op, read, folder, uids, to) ==
    /\ CASE op = "flag" -> read
         [] op \in {"delete", "purge"} -> ~read  \* bound: flags alone, or with a move
         [] OTHER -> TRUE
    /\ op # "move" => to = "Trash"
    /\ to # folder \/ op # "move"
    /\ Open(r, [NoRequest EXCEPT !.op = op, !.todo = bulk(op, read, folder), !.read = read,
                                 !.folder = folder, !.uids = uids, !.to = to])
    /\ unwanted' = IF op = "purge" \/ (op = "delete" /\ folder = "Trash")
                   THEN unwanted \cup Mails({c \in In(folder) : c.uid \in uids})
                   ELSE unwanted

\* empty_folder, of Trash: EMPTYABLE.
Empty(r) ==
    /\ Open(r, [NoRequest EXCEPT !.op = "empty", !.todo = <<"search">>, !.folder = "Trash"])
    /\ UNCHANGED unwanted

Draft(r, replaced) ==
    /\ replaced \in {{}} \cup {{c.uid} : c \in In("Drafts")}
    /\ Open(r, [NoRequest EXCEPT !.op = "draft", !.todo = save_draft(replaced # {}),
                                 !.folder = "Drafts", !.uids = replaced])
    /\ UNCHANGED unwanted

\* The message answered, if any, is in INBOX.
Send(r, answered) ==
    /\ answered \in {{}} \cup {{c.uid} : c \in In("INBOX")}
    /\ Open(r, [NoRequest EXCEPT !.op = "send", !.todo = send_message(answered # {}),
                                 !.uids = answered])
    /\ UNCHANGED unwanted

-----------------------------------------------------------------------------
(* The IMAP commands.  Uids that are gone are passed over in silence.      *)

\* The named copies again, with new uids, in another folder.
Copied(copies, to) ==
    {[c EXCEPT !.folder = to,
               !.uid = last + Cardinality({d \in copies : d.uid <= c.uid})] : c \in copies}

Fresh(folder, mail) == [uid |-> last + 1, mail |-> mail, folder |-> folder, seen |-> TRUE,
                        deleted |-> FALSE, answered |-> FALSE]

Set(copies, c2) == (box \ copies) \cup c2

\* Mutant: plain EXPUNGE.
Expunged_mut(r) == {c \in In(request[r].folder) : c.deleted}

\* UID EXPUNGE: of the copies named, those marked \Deleted.
Expunged(r) == {c \in Named(r) : c.deleted}

\* What a command leaves in the mailbox.
Effect(r, command) ==
    CASE command = "mark"     -> Set(Named(r), {[c EXCEPT !.seen = TRUE] : c \in Named(r)})
      [] command = "answered" -> Set(Named(r), {[c EXCEPT !.answered = TRUE] : c \in Named(r)})
      [] command = "store"    -> Set(Named(r), {[c EXCEPT !.deleted = TRUE] : c \in Named(r)})
      [] command = "move"     -> Set(Named(r), Copied(Named(r), request[r].to))
      [] command = "copy"     -> box \cup Copied(Named(r), request[r].to)
      [] command = "expunge"  -> box \ Expunged(r)
      [] command = "append"   -> box \cup {Fresh("Drafts", last + 1)}
      [] command = "file"     -> box \cup {Fresh("Sent", last + 1)}
      [] OTHER                -> box

\* How many uids it takes.
Made(r, command) ==
    CASE command \in {"move", "copy"}   -> Cardinality(Named(r))
      [] command \in {"append", "file"} -> 1
      [] OTHER                          -> 0

\* AioIMAPClient.move
Fallback == <<"copy", "store", "expunge">>

\* No MOVE here, or nowhere to move to: sure to be answered with a NO.
Refuses(r, command) ==
    \/ command = "move" /\ ~has_move
    \/ command \in {"move", "copy"} /\ request[r].to = Nowhere

\* The rest of the request, when its next command was carried out or refused.
Rest(r, command) ==
    CASE command = "move" /\ Refuses(r, command) -> Fallback \o Tail(request[r].todo)
      [] command = "search" /\ In(request[r].folder) # {} -> Remove
      [] OTHER -> Tail(request[r].todo)

\* What is left of a request that was answered.
Answered(q, answer) == [NoRequest EXCEPT !.op = q.op, !.mail = q.mail, !.answer = answer]

Others(r, req) == [q \in Requests |->
    IF q # r /\ Active(q) THEN [req[q] EXCEPT !.alone = FALSE] ELSE req[q]]

Step(r) ==
    /\ Active(r)
    /\ request[r].todo # <<>>
    /\ LET command == Head(request[r].todo)
           refused == Refuses(r, command)
           rest    == Rest(r, command)
           onward  == [request[r] EXCEPT
                         !.todo = rest,
                         !.uids = IF command = "search"
                                  THEN {c.uid : c \in In(request[r].folder)} ELSE @,
                         !.mail = IF command \in {"append", "file"} THEN last + 1 ELSE @]
       IN  /\ last + Made(r, command) <= MaxUid
           /\ box' = IF refused THEN box ELSE Effect(r, command)
           /\ last' = IF refused THEN last ELSE last + Made(r, command)
           /\ request' = Others(r, [request EXCEPT ![r] =
                IF command = "copy" /\ refused THEN Answered(@, "refused")
                ELSE IF rest = <<>> THEN Answered(onward, "ok") ELSE onward])
           /\ unwanted' = unwanted \cup
                CASE command = "search" -> Mails(In(request[r].folder))
                  [] command = "append" -> Mails(Named(r))
                  [] OTHER              -> {}
           /\ mails' = mails \cup Mails(box')
           /\ sent' = IF command = "deliver" THEN sent \cup {r} ELSE sent
    /\ UNCHANGED <<has_move, marked, faults, app>>

\* Any other NO to MOVE, which moved nothing, starts the fall-back all the same.
MoveIsRefused(r) ==
    /\ Active(r)
    /\ request[r].todo # <<>>
    /\ Head(request[r].todo) = "move"
    /\ faults < MaxFaults
    /\ faults' = faults + 1
    /\ request' = [request EXCEPT ![r].todo = Fallback \o Tail(@)]
    /\ UNCHANGED <<has_move, box, last, mails, marked, unwanted, sent, app>>

\* deliver refuses the message, or every recipient.
DeliverRefuses(r) ==
    /\ Active(r)
    /\ request[r].todo # <<>>
    /\ Head(request[r].todo) = "deliver"
    /\ request' = [request EXCEPT ![r] = Answered(@, "refused")]
    /\ UNCHANGED <<has_move, box, last, mails, marked, unwanted, sent, faults, app>>

\* The connection ends, or an answer is not OK: the command was carried out or it
\* was not.  Mail that has gone but is not filed is answered as sent, if what was
\* raised is a MailboxError; a connection that ends raises something else.
Fault(r, done, mailbox_error) ==
    /\ Active(r)
    /\ request[r].todo # <<>>
    /\ faults < MaxFaults
    /\ mailbox_error => r \in sent
    /\ faults' = faults + 1
    /\ LET command == Head(request[r].todo)
       IN  /\ done => /\ ~Refuses(r, command) /\ ~mailbox_error
                      /\ last + Made(r, command) <= MaxUid
           /\ box' = IF done THEN Effect(r, command) ELSE box
           /\ last' = IF done THEN last + Made(r, command) ELSE last
           /\ sent' = IF done /\ command = "deliver" THEN sent \cup {r} ELSE sent
           /\ mails' = mails \cup Mails(box')
           /\ request' = Others(r, [request EXCEPT ![r] = Answered(@,
                IF mailbox_error THEN "not filed" ELSE "failed")])
    /\ UNCHANGED <<has_move, marked, unwanted, app>>

-----------------------------------------------------------------------------
(* The others.                                                             *)

App ==
    /\ app < MaxApp
    /\ app' = app + 1
    /\ request' = [r \in Requests |-> IF Active(r) THEN [request[r] EXCEPT !.alone = FALSE]
                                                   ELSE request[r]]
    /\ UNCHANGED <<has_move, last, mails, sent, faults>>

\* A mail app marks a message \Deleted and may yet change its mind; or it clears
\* the mark; or it expunges a folder, which is what it takes to lose the message.
AppMarks(c) ==
    /\ App
    /\ c \in box
    /\ box' = (box \ {c}) \cup {[c EXCEPT !.deleted = ~@]}
    /\ marked' = IF c.deleted THEN marked ELSE marked \cup {c.mail}
    /\ UNCHANGED unwanted

AppExpunges(folder) ==
    /\ App
    /\ LET gone == {c \in In(folder) : c.deleted}
       IN  /\ gone # {}
           /\ box' = box \ gone
           /\ unwanted' = unwanted \cup (Mails(gone) \cap marked)
    /\ UNCHANGED marked

Next ==
    \/ \E r \in Requests, op \in {"flag", "move", "delete", "purge"}, read \in BOOLEAN,
          folder \in Special, to \in Destinations :
          \E uids \in (SUBSET {c.uid : c \in In(folder)}) \ {{}} :
             Bulk(r, op, read, folder, uids, to)
    \/ \E r \in Requests : Empty(r)
    \/ \E r \in Requests : \E uids \in {{}} \cup {{c.uid} : c \in box} : Draft(r, uids)
    \/ \E r \in Requests : \E uids \in {{}} \cup {{c.uid} : c \in box} : Send(r, uids)
    \/ \E r \in Requests : Step(r)
    \/ \E r \in Requests : MoveIsRefused(r)
    \/ \E r \in Requests : DeliverRefuses(r)
    \/ \E r \in Requests, done, mailbox_error \in BOOLEAN : Fault(r, done, mailbox_error)
    \/ \E c \in box : AppMarks(c)
    \/ \E folder \in Special : AppExpunges(folder)

Spec == Init /\ [][Next]_vars
-----------------------------------------------------------------------------
(* What is checked.                                                        *)

TypeOK ==
    /\ has_move \in Servers
    /\ box \subseteq Copy
    /\ last \in 0..MaxUid
    /\ request \in [Requests -> Request]
    /\ mails \subseteq 1..MaxUid /\ marked \subseteq 1..MaxUid /\ unwanted \subseteq 1..MaxUid
    /\ sent \subseteq Requests
    /\ faults \in 0..MaxFaults /\ app \in 0..MaxApp
    /\ \A c, d \in box : c.uid = d.uid => c = d

\* Nothing disappears that nobody asked to be rid of, wherever a request stops:
\* each message is somewhere, unless a purge named it, it was in Trash when Trash
\* was emptied, a newer draft has replaced it, or the owner's app marked and
\* expunged it (Mailbox.delete, AioIMAPClient.move, AioIMAPClient.expunge).
NothingVanishes ==
    mails \subseteq Mails(box) \cup unwanted

\* What a request has promised when it is done.
Kept(r) ==
    LET asked  == request[r]
        after  == box'
        Now(m, folder) == \E c \in after : c.mail = m /\ c.folder = folder
                                           /\ (asked.read => c.seen)
        Gone(uids) == \A c \in after : c.uid \notin uids
        moves  == asked.op = "move" \/ (asked.op = "delete" /\ asked.folder # "Trash")
    IN  /\ asked.op = "flag" => \A m \in Mails(asked.found) : Now(m, asked.folder)
        /\ moves => /\ \A m \in Mails(asked.found) : Now(m, asked.to)
                    /\ Gone(asked.uids)
        /\ asked.op \in {"purge", "delete", "draft"} => Gone(asked.uids)
        /\ asked.op = "empty" => \A c \in after : c.folder # asked.folder
        /\ asked.op = "draft" => \E c \in after : c.mail = request'[r].mail
                                                 /\ c.folder = "Drafts"
        /\ asked.op = "send" => /\ r \in sent'
                                /\ \E c \in after : c.mail = request'[r].mail
                                                    /\ c.folder = "Sent"
                                /\ \A c \in after : c.uid \in asked.uids => c.answered

\* A request that no other hand has crossed and that is answered with success has
\* done all it was asked: what was to be read and filed is there, and read, what
\* was to go is gone, and what was answered is marked so, with MOVE and without
\* ("mark read and archive is one call": bulk_messages, mark_message, save_draft,
\* send_message).
SuccessIsWhole ==
    [][\A r \in Requests :
         request[r].answer = "none" /\ request'[r].answer = "ok" /\ request[r].alone
           => Kept(r)]_vars

\* A message that was handed over is not answered with a failure (api/mailbox.py:
\* "The mail has gone; failing the request now would have the client send it
\* again").
\* The code does not keep this (README, section 6).
GoneIsNotFailed ==
    \A r \in sent : request[r].answer # "failed"
=============================================================================
