----------------------------- MODULE EventSocket -----------------------------
(***************************************************************************)
(* The live-update sockets of one mailbox (api/events.py): how a client    *)
(* gets in, the count of open sockets, and the watched window of a folder, *)
(* whose changes are reported as differences between two listings.         *)
(*                                                                         *)
(* Each socket is a task of its own with an IMAP connection of its own; an *)
(* action is what it does between two awaits.  Dovecot's mailbox changes   *)
(* under it, between SEARCH and FETCH too, and its client may leave at any *)
(* moment, which the task notices when it next receives or sends.          *)
(***************************************************************************)
EXTENDS Integers, FiniteSets

CONSTANTS
    Sockets,     \* connections clients make, each once
    MaxSockets,  \* MAX_SOCKETS_PER_ACCOUNT
    Window,      \* WINDOW
    Folders,     \* "INBOX" among them
    Initial,     \* how many messages each begins with
    MaxUid,      \* bound: messages a folder ever gets
    MaxChanges   \* bound: changes of the mailbox

ASSUME SocketsAssumption ==
    /\ IsFiniteSet(Sockets)
    /\ "INBOX" \in Folders /\ Initial \in [Folders -> 0..MaxUid]
    /\ MaxSockets \in Nat \ {0} /\ Window \in Nat \ {0}
    /\ MaxUid \in Nat /\ MaxChanges \in Nat

VARIABLES
    folder,    \* Dovecot's folders: uid -> flags
    nextUid,   \* per folder, the next one given
    changes,   \* changes so far
    count,     \* app.state.event_sockets of this mailbox
    sock       \* the sockets

box == <<folder, nextUid, changes>>
vars == <<box, count, sock>>

Flags == {"seen", "unseen"}
Uids == 1..MaxUid

\* Where a task is.  At "accepting" and later the client has been let in.
Stages == {"new", "asking", "resolving", "admitting", "accepting", "connecting",
           "searching", "fetching", "waiting", "emit searching", "emit fetching", "closed"}

\* A task that holds a slot: it is inside the try of events().
Serving == {s \in Sockets : sock[s].at \in {"connecting", "searching", "fetching", "waiting",
                                            "emit searching", "emit fetching"}}

Nothing == [u \in {} |-> "unseen"]

\* A socket: where its task is, whether it was accepted, whether its client has
\* left and that is received next, the folder watched, what SEARCH found, the
\* listing last reported on, and, as history, what the client makes of it all.
NotYet == [at |-> "new", accepted |-> FALSE, gone |-> FALSE, last |-> FALSE, folder |-> "INBOX",
           found |-> {}, view |-> Nothing, picture |-> Nothing]

Init ==
    /\ folder = [f \in Folders |-> [u \in 1..Initial[f] |-> "unseen"]]
    /\ nextUid = [f \in Folders |-> Initial[f] + 1]
    /\ changes = 0
    /\ count = 0
    /\ sock = [s \in Sockets |-> NotYet]

-----------------------------------------------------------------------------
(* Listings. *)

Newest(uids) == {u \in uids : Cardinality({v \in uids : v > u}) < Window}

Restricted(list, uids) == [u \in uids \cap DOMAIN list |-> list[u]]

\* The oldest visible UID bounds what can have been deleted, when the window
\* is full; otherwise nothing was pushed off its end.
Floor_mut(after) ==
    IF DOMAIN after # {} THEN CHOOSE u \in DOMAIN after : \A v \in DOMAIN after : u <= v ELSE 0

Floor(after) ==
    IF Cardinality(DOMAIN after) >= Window
    THEN CHOOSE u \in DOMAIN after : \A v \in DOMAIN after : u <= v
    ELSE 0

\* The frame of _emit: what it says of two successive listings.
Update(before, after) ==
    [new     |-> Restricted(after, DOMAIN after \ DOMAIN before),
     changed |-> [u \in {v \in DOMAIN after \cap DOMAIN before : before[v] # after[v]} |-> after[u]],
     removed |-> {u \in DOMAIN before \ DOMAIN after : u >= Floor(after)}]

\* What a client makes of it: it keeps the newest messages it knows of.
Applied(picture, update) ==
    LET known == [u \in DOMAIN picture \cup DOMAIN update.new |->
                    IF u \in DOMAIN update.new THEN update.new[u]
                    ELSE IF u \in DOMAIN update.changed THEN update.changed[u] ELSE picture[u]]
    IN  Restricted(known, Newest(DOMAIN known \ update.removed))

-----------------------------------------------------------------------------
(* Getting in. *)

At(s, stage) == sock[s].at = stage
GoTo(s, stage) == sock' = [sock EXCEPT ![s].at = stage]
Outside == UNCHANGED box

Closed(s) == sock' = [sock EXCEPT ![s] = [NotYet EXCEPT !.at = "closed"]]

\* With a token in the headers the socket is accepted later; without, at once.
Open(s) ==
    /\ At(s, "new")
    /\ \/ GoTo(s, "resolving")
       \/ sock' = [sock EXCEPT ![s].at = "asking", ![s].accepted = TRUE]
    /\ Outside /\ UNCHANGED count

\* _token_from_first_message: a token, or nonsense, silence or a client gone.
FirstMessage(s) ==
    /\ At(s, "asking")
    /\ \/ ~sock[s].gone /\ GoTo(s, "resolving")
       \/ Closed(s)
    /\ Outside /\ UNCHANGED count

\* _resolve, in one transaction: the token opens this mailbox; or it is refused
\* with 4401, 4403 or 4404, or the look-up fails.
Resolve(s) ==
    /\ At(s, "resolving")
    /\ \/ GoTo(s, "admitting")
       \/ Closed(s)
    /\ Outside /\ UNCHANGED count

\* The count is compared, and raised at once when the socket is accepted
\* already; otherwise the accept is awaited in between.
Admit(s) ==
    /\ At(s, "admitting")
    /\ \/ count >= MaxSockets /\ Closed(s) /\ UNCHANGED count
       \/ /\ count < MaxSockets /\ sock[s].accepted
          /\ GoTo(s, "connecting") /\ count' = count + 1
       \/ /\ count < MaxSockets /\ ~sock[s].accepted
          /\ GoTo(s, "accepting") /\ UNCHANGED count
    /\ Outside

\* accept stands before the try: what it raises frees no slot.
Accept_mut(s) ==
    /\ At(s, "accepting")
    /\ \/ sock' = [sock EXCEPT ![s].at = "connecting", ![s].accepted = TRUE]
       \/ sock[s].gone /\ Closed(s)
    /\ count' = count + 1
    /\ Outside

Accept(s) ==
    /\ At(s, "accepting")
    /\ \/ sock' = [sock EXCEPT ![s].at = "connecting", ![s].accepted = TRUE] /\ count' = count + 1
       \/ sock[s].gone /\ Closed(s) /\ UNCHANGED count
    /\ Outside

-----------------------------------------------------------------------------
(* Serving: _serve, _loop, _handle, _emit. *)

\* The finally of events(): the slot is given back, however serving ended.
Leave(s) == Closed(s) /\ count' = count - 1

\* Logged in; "ready" is sent with the folders.
Connect(s) ==
    /\ At(s, "connecting")
    /\ GoTo(s, "searching")
    /\ Outside /\ UNCHANGED count

\* Mailbox.list: SEARCH, and the newest of what it found.
InFolder(s) == folder[sock[s].folder]

Search(s) ==
    /\ sock[s].at \in {"searching", "emit searching"}
    /\ sock' = [sock EXCEPT ![s].at = IF @ = "searching" THEN "fetching" ELSE "emit fetching",
                            ![s].found = Newest(DOMAIN InFolder(s))]
    /\ Outside /\ UNCHANGED count

\* FETCH: the flags of those that are still there.
Fetched(s) == Restricted(InFolder(s), sock[s].found)

\* _snapshot; the client that has just been told "ready" lists the folder too.
Snapshot(s) ==
    /\ At(s, "fetching")
    /\ sock' = [sock EXCEPT ![s].at = "waiting", ![s].found = {}, ![s].view = Fetched(s),
                            ![s].picture = Fetched(s)]
    /\ Outside /\ UNCHANGED count

\* A push is served without looking whether the client has left meanwhile.
Push_mut(s) ==
    /\ At(s, "waiting")
    /\ GoTo(s, "emit searching")
    /\ Outside /\ UNCHANGED count

\* Dovecot pushes something: a change, or that it is still there.  Both the
\* push and the client's leaving may be waiting; the push is served first.
Push(s) ==
    /\ At(s, "waiting")
    /\ sock' = [sock EXCEPT ![s].at = "emit searching", ![s].last = sock[s].gone]
    /\ Outside /\ UNCHANGED count

\* _emit: report the differences; then the client's leaving is acted on.
Emit(s) ==
    /\ At(s, "emit fetching")
    /\ \/ /\ ~sock[s].last
          /\ sock' = [sock EXCEPT
                ![s].at = "waiting", ![s].found = {}, ![s].view = Fetched(s),
                ![s].picture = Applied(@, Update(sock[s].view, Fetched(s)))]
          /\ UNCHANGED count
       \/ sock[s].last /\ Leave(s)
    /\ Outside

\* "watch" turns to another folder; "refresh", "ping" and anything else change
\* nothing; a folder that does not exist is an error.
Watch(s) ==
    /\ At(s, "waiting") /\ ~sock[s].gone
    /\ \/ \E f \in Folders \ {sock[s].folder} :
            sock' = [sock EXCEPT ![s].folder = f, ![s].at = "searching"] /\ UNCHANGED count
       \/ Leave(s)
    /\ Outside

\* The client's leaving is received, or met by a send.
Hear(s) ==
    /\ sock[s].gone /\ s \in Serving
    /\ sock[s].at \in {"connecting", "fetching", "waiting", "emit fetching"}
    /\ Leave(s)
    /\ Outside

\* Dovecot refuses the login or a command, drops the connection, or falls silent.
Break(s) ==
    /\ s \in Serving /\ Leave(s)
    /\ Outside

-----------------------------------------------------------------------------
(* The rest of the world. *)

\* New mail, a flag, a deletion.
Deliver(f) ==
    /\ nextUid[f] <= MaxUid
    /\ folder' = [folder EXCEPT ![f] = [u \in DOMAIN @ \cup {nextUid[f]} |->
                                          IF u = nextUid[f] THEN "unseen" ELSE @[u]]]
    /\ nextUid' = [nextUid EXCEPT ![f] = @ + 1]

Flag(f, u) ==
    /\ folder' = [folder EXCEPT ![f][u] = IF @ = "seen" THEN "unseen" ELSE "seen"]
    /\ UNCHANGED nextUid

Expunge(f, u) ==
    /\ folder' = [folder EXCEPT ![f] = Restricted(@, DOMAIN @ \ {u})]
    /\ UNCHANGED nextUid

Change ==
    /\ changes < MaxChanges
    /\ changes' = changes + 1
    /\ \E f \in Folders : Deliver(f) \/ \E u \in DOMAIN folder[f] : Flag(f, u) \/ Expunge(f, u)
    /\ UNCHANGED <<count, sock>>

Go(s) ==
    /\ ~sock[s].gone /\ sock[s].at \notin {"new", "closed"}
    /\ sock' = [sock EXCEPT ![s].gone = TRUE]
    /\ UNCHANGED <<box, count>>

\* What a task does by itself: every await in it has a timeout or an end.
Own(s) ==
    \/ FirstMessage(s) \/ Resolve(s) \/ Admit(s) \/ Accept(s) \/ Connect(s)
    \/ Search(s) \/ Snapshot(s) \/ Emit(s) \/ Hear(s)

Next ==
    \/ \E s \in Sockets : Open(s) \/ Own(s) \/ Push(s) \/ Watch(s) \/ Break(s) \/ Go(s)
    \/ Change

Spec == Init /\ [][Next]_vars

FairSpec == Spec /\ \A s \in Sockets : WF_vars(Own(s))

-----------------------------------------------------------------------------
List == UNION {[d -> Flags] : d \in SUBSET Uids}

Socket == [at : Stages, accepted : BOOLEAN, gone : BOOLEAN, last : BOOLEAN, folder : Folders,
           found : SUBSET Uids, view : List, picture : List]

TypeOK ==
    /\ folder \in [Folders -> List]
    /\ nextUid \in [Folders -> 1..MaxUid + 1]
    /\ changes \in 0..MaxChanges
    /\ count \in Nat
    /\ sock \in [Sockets -> Socket]

\* The count that limits a mailbox's sockets is the number being served,
\* however the others ended (the client left before it was accepted, the login
\* failed, an error, a disconnect): a slot that leaked would lock the client
\* out until the server restarts, one given back twice would lift the limit.
SlotsMatchSockets == count = Cardinality(Serving)

\* A client that applies every update to the listing it began with, and keeps
\* the newest Window messages, has exactly what the socket last saw of the
\* folder, whatever arrived, was pushed off the window, or was deleted, between
\* SEARCH and FETCH included.
PictureIsTheWindow == \A s \in Serving : sock[s].picture = sock[s].view

\* A client that has left frees its slot, however the server learns of it and
\* whatever Dovecot keeps pushing meanwhile.
SlotsComeBack == \A s \in Sockets : sock[s].gone ~> s \notin Serving
=============================================================================
