------------------------- MODULE ApiSessionsProofs -------------------------
(***************************************************************************)
(* Theorems about the credentials of a mailbox, for any number of          *)
(* requests, sessions, addresses and passwords, and for both databases.    *)
(***************************************************************************)
EXTENDS ApiSessions, FiniteSetTheorems, TLAPS

-----------------------------------------------------------------------------
(* The steps.  Each request's record is written by that request alone, and *)
(* not at all once it is over.                                             *)

\* What a record is at each stage of each operation; one that let somebody in saw
\* the account accept the password.
Shape(q) ==
    /\ q.op = None => q.at \in {"idle", "done"}
    /\ q.op = "sign in" => /\ q.at \in {"asked", "verifying", "inserting", "done"}
                           /\ q.pw \in Passwords
                           /\ q.at # "done" => q.from \in Addresses /\ q.name \in Names
    /\ q.op = "change" => /\ q.at \in {"verified", "opened", "asked", "verifying", "hashing",
                                       "written", "revoked", "flushed", "done"}
                          /\ q.pw \in Passwords /\ q.aim \in Passwords /\ q.key \in Sessions
    /\ q.op = "passwd" => q.at \in {"hashing", "flushing", "done"} /\ q.aim \in Passwords
    /\ q.op = "edit" => /\ q.at \in {"read", "done"}
                        /\ q.aim \in Edits
                        /\ q.row # NoAccount
    /\ q.op = "look up" => q.at \in {"asked", "verifying", "done"} /\ q.pw \in Passwords
    /\ \/ q.op = "sign in" /\ q.at \in {"inserting", "done"}
       \/ q.op = "look up" /\ q.at = "done"
       => Accepts(q.row, q.pw)

Shapes == \A r \in Requests : Shape(req[r])

\* Every step either leaves the requests alone or moves one of them.
Writes(r, q) == req' = [req EXCEPT ![r] = q]

\* A record that ends keeps what it has or becomes an answer without a past.
Ended(q, answer) ==
    IF answer \in {"ok", "uncleared"}
    THEN [q EXCEPT !.at = "done", !.result = answer, !.held = {}, !.revoked = {},
                   !.from = None, !.name = None]
    ELSE [NotYet EXCEPT !.at = "done",
                        !.result = IF answer = "wrong" THEN answer ELSE "failed"]

LEMMA EndWrites ==
    ASSUME NEW r \in Requests, NEW answer, End(r, answer), TypeOK
    PROVE  Writes(r, Ended(req[r], answer))
  BY DEF End, Writes, Ended, TypeOK

LEMMA NotYetType == NotYet \in Request /\ Shape(NotYet)
  BY DEF NotYet, Request, Shape, Stages, None

\* An update of some fields is a record again, and the others are as they were.
LEMMA AnsweredType ==
    ASSUME NEW q \in Request, NEW v \in {"wrong", "failed"}
    PROVE  /\ [q EXCEPT !.at = "done", !.result = v] \in Request
           /\ [q EXCEPT !.at = "done", !.result = v].op = q.op
           /\ [q EXCEPT !.at = "done", !.result = v].at = "done"
  <1> DEFINE e == [q EXCEPT !.at = "done", !.result = v]
  <1>1. DOMAIN q = {"op", "at", "from", "name", "pw", "aim", "key", "row", "held", "revoked",
                    "result"}
    BY DEF Request
  <1>2. e.op = q.op /\ e.at = "done" /\ e.result = v
    BY <1>1
  <1>3. e \in Request
    <2>1. DOMAIN e = DOMAIN q /\ e = [f \in DOMAIN q |-> e[f]]
      BY <1>1
    <2>2. "done" \in Stages
      BY DEF Stages
    <2>3. /\ e.op = q.op /\ e.from = q.from /\ e.pw = q.pw /\ e.aim = q.aim /\ e.key = q.key
          /\ e.name = q.name /\ e.row = q.row /\ e.held = q.held /\ e.revoked = q.revoked
      BY <1>1
    <2>4. /\ q.op \in Operations \cup {None} /\ q.from \in Addresses \cup {None} /\ q.name \in Names \cup {None}
          /\ q.pw \in Passwords \cup {None} /\ q.aim \in Passwords \cup Edits \cup {None}
          /\ q.key \in Sessions \cup {None} /\ q.row \in Row \cup {NoAccount}
          /\ q.held \in SUBSET (Sessions \cup {Mailbox}) /\ q.revoked \in SUBSET Sessions
      BY DEF Request
    <2> HIDE DEF e
    <2> QED BY <1>1, <1>2, <2>1, <2>2, <2>3, <2>4 DEF Request
  <1> QED BY <1>2, <1>3

\* A record that ends well has already earned what it is to have.
Ripe(q) == q.op \in {"sign in", "look up"} => Accepts(q.row, q.pw)

LEMMA EndedType ==
    ASSUME NEW q \in Request, NEW answer, Shape(q),
           answer \in {"ok", "uncleared"} => Ripe(q)
    PROVE  /\ Ended(q, answer) \in Request
           /\ Shape(Ended(q, answer))
           /\ Ended(q, answer).at = "done"
  <1> DEFINE e == [q EXCEPT !.at = "done", !.result = answer, !.held = {}, !.revoked = {},
                            !.from = None, !.name = None]
             v == IF answer = "wrong" THEN answer ELSE "failed"
             f == [NotYet EXCEPT !.at = "done", !.result = v]
  <1>1. CASE answer \in {"ok", "uncleared"}
    <2>1. /\ e.op = q.op /\ e.at = "done" /\ e.from = None /\ e.pw = q.pw /\ e.aim = q.aim
          /\ e.name = None /\ e.key = q.key /\ e.row = q.row /\ e.held = {} /\ e.revoked = {}
          /\ e.result = answer
      BY DEF Request
    <2>2. e \in Request
      BY <1>1 DEF Request, Stages
    <2>3. Shape(e)
      BY <1>1, <2>1 DEF Shape, Ripe
    <2> QED BY <1>1, <2>1, <2>2, <2>3 DEF Ended
  <1>2. CASE answer \notin {"ok", "uncleared"}
    <2>1. NotYet \in Request /\ NotYet.op = None
      BY NotYetType DEF NotYet
    <2> v \in {"wrong", "failed"}
      OBVIOUS
    <2> HIDE DEF v
    <2>3. f \in Request /\ f.op = None /\ f.at = "done"
      BY <2>1, AnsweredType
    <2>4. Shape(f)
      BY <2>3 DEF Shape, None
    <2> QED BY <1>2, <2>3, <2>4 DEF Ended, v
  <1> QED BY <1>1, <1>2

-----------------------------------------------------------------------------
(* Records are well formed. *)

\* Request r goes on from a record that is not over to one that is well formed.
Moves(r, q) == ~Done(r) /\ q \in Request /\ Shape(q) /\ Writes(r, q)

LEMMA Ends ==
    ASSUME TypeOK, Shapes, NEW r \in Requests, NEW answer, End(r, answer), ~Done(r),
           answer \in {"ok", "uncleared"} => Ripe(req[r])
    PROVE  Moves(r, Ended(req[r], answer))
  <1>1. req[r] \in Request /\ Shape(req[r])
    BY DEF TypeOK, Shapes
  <1> QED BY <1>1, EndWrites, EndedType DEF Moves

LEMMA NotYetIsNotDone ==
    ASSUME NEW r, req[r] = NotYet PROVE ~Done(r)
  BY DEF Done, NotYet

LEMMA SignInMoves ==
    ASSUME TypeOK, Shapes, NEW r \in Requests, NEW a \in Addresses, NEW n \in Names,
           NEW p \in Passwords, create_session(r, a, n, p)
    PROVE  \E q : Moves(r, q)
  <1>1. ~Done(r) /\ "sign in" \in Operations
    BY NotYetIsNotDone DEF create_session, Start
  <1>2. CASE End(r, "too many")
    BY <1>1, <1>2, Ends
  <1> DEFINE q == [Begin("sign in", "asked", p, None) EXCEPT !.from = a, !.name = n]
  <1>3. CASE req' = [req EXCEPT ![r] = q]
    <2>1. /\ q.op = "sign in" /\ q.at = "asked" /\ q.pw = p /\ q.from = a /\ q.name = n
      BY DEF Begin, NotYet
    <2>2. q \in Request
      BY <1>1 DEF Begin, NotYet, Request, Stages
    <2>3. Shape(q)
      BY <2>1 DEF Shape, None
    <2> HIDE DEF q
    <2> QED BY <1>1, <1>3, <2>2, <2>3 DEF Moves, Writes
  <1> QED BY <1>2, <1>3 DEF create_session

LEMMA ChangeMoves ==
    ASSUME TypeOK, Shapes, NEW r \in Requests, NEW k \in Sessions, NEW p \in Passwords,
           NEW n \in Passwords, change_password(r, k, p, n)
    PROVE  \E q : Moves(r, q)
  <1> DEFINE q == [Begin("change", "verified", p, n) EXCEPT !.key = k]
  <1>1. ~Done(r) /\ "change" \in Operations
    BY NotYetIsNotDone DEF change_password, Start
  <1>2. q.op = "change" /\ q.at = "verified" /\ q.pw = p /\ q.aim = n /\ q.key = k
    BY DEF Begin, NotYet
  <1>3. q \in Request
    BY <1>1 DEF Begin, NotYet, Request, Stages
  <1>4. Shape(q)
    BY <1>2 DEF Shape, None
  <1>5. req' = [req EXCEPT ![r] = q]
    BY DEF change_password
  <1> HIDE DEF q
  <1> QED BY <1>1, <1>3, <1>4, <1>5 DEF Moves, Writes

LEMMA PasswdMoves ==
    ASSUME TypeOK, Shapes, NEW r \in Requests, NEW n \in Passwords, passwd(r, n)
    PROVE  \E q : Moves(r, q)
  <1> DEFINE q == Begin("passwd", "hashing", None, n)
  <1>1. ~Done(r) /\ "passwd" \in Operations
    BY NotYetIsNotDone DEF passwd, Start
  <1>2. q.op = "passwd" /\ q.at = "hashing" /\ q.aim = n
    BY DEF Begin, NotYet
  <1>3. q \in Request
    BY <1>1 DEF Begin, NotYet, Request, Stages
  <1>4. Shape(q)
    BY <1>2 DEF Shape, None
  <1>5. req' = [req EXCEPT ![r] = q]
    BY DEF passwd
  <1> HIDE DEF q
  <1> QED BY <1>1, <1>3, <1>4, <1>5 DEF Moves, Writes

LEMMA EditMoves ==
    ASSUME TypeOK, Shapes, NEW r \in Requests, NEW e \in Edits, NEW api \in BOOLEAN,
           StartEdit(r, e, api)
    PROVE  \E q : Moves(r, q)
  <1> DEFINE q == [Begin("edit", "read", None, e) EXCEPT
                      !.row = account, !.held = IF api THEN {r} ELSE {}]
  <1>1. ~Done(r) /\ "edit" \in Operations /\ account # NoAccount
        /\ account \in Row \cup {NoAccount} /\ r \in Sessions
    BY NotYetIsNotDone DEF StartEdit, Start, TypeOK, Sessions
  <1>2. q.op = "edit" /\ q.at = "read" /\ q.aim = e /\ q.row = account
    BY DEF Begin, NotYet
  <1>3. q \in Request
    BY <1>1 DEF Begin, NotYet, Request, Stages
  <1>4. Shape(q)
    BY <1>1, <1>2 DEF Shape, None
  <1>5. req' = [req EXCEPT ![r] = q]
    BY DEF StartEdit
  <1> HIDE DEF q
  <1> QED BY <1>1, <1>3, <1>4, <1>5 DEF Moves, Writes

LEMMA PassdbMoves ==
    ASSUME TypeOK, Shapes, NEW r \in Requests, NEW p \in Passwords, passdb(r, p)
    PROVE  \E q : Moves(r, q)
  <1> DEFINE q == Begin("look up", "asked", p, None)
  <1>1. ~Done(r) /\ "look up" \in Operations
    BY NotYetIsNotDone DEF passdb, Start
  <1>2. q.op = "look up" /\ q.at = "asked" /\ q.pw = p
    BY DEF Begin, NotYet
  <1>3. q \in Request
    BY <1>1 DEF Begin, NotYet, Request, Stages
  <1>4. Shape(q)
    BY <1>2 DEF Shape, None
  <1>5. req' = [req EXCEPT ![r] = q]
    BY DEF passdb
  <1> HIDE DEF q
  <1> QED BY <1>1, <1>3, <1>4, <1>5 DEF Moves, Writes

\* A request that goes on keeps what it was given.
Onward(p, q, stage) ==
    /\ q.op = p.op /\ q.at = stage /\ q.from = p.from /\ q.name = p.name /\ q.pw = p.pw /\ q.aim = p.aim
    /\ q.key = p.key /\ q.row = p.row /\ q.held = p.held /\ q.revoked = p.revoked

LEMMA GoesOn ==
    ASSUME TypeOK, NEW r \in Requests, NEW stage \in Stages, GoTo(r, stage)
    PROVE  \E q \in Request : Writes(r, q) /\ Onward(req[r], q, stage)
  <1> DEFINE q == [req[r] EXCEPT !.at = stage]
  <1>1. req[r] \in Request /\ Writes(r, q)
    BY DEF TypeOK, GoTo, Writes
  <1>2. q \in Request
    BY <1>1 DEF Request
  <1>3. Onward(req[r], q, stage)
    BY <1>1 DEF Request, Onward
  <1> HIDE DEF q
  <1> QED BY <1>1, <1>2, <1>3

LEMMA LookUpMoves ==
    ASSUME TypeOK, Shapes, NEW r \in Requests, LookUp(r)
    PROVE  \E q : Moves(r, q)
  <1> DEFINE q == [req[r] EXCEPT !.row = account, !.at = "verifying"]
  <1>1. /\ req[r] \in Request /\ Shape(req[r]) /\ req[r].at = "asked"
        /\ account \in Row \cup {NoAccount}
    BY DEF TypeOK, Shapes, LookUp
  <1>2. Writes(r, q)
    BY DEF LookUp, Writes, TypeOK
  <1>3. q \in Request
    BY <1>1 DEF Request, Stages
  <1>4. /\ q.op = req[r].op /\ q.at = "verifying" /\ q.from = req[r].from
        /\ q.name = req[r].name
        /\ q.pw = req[r].pw /\ q.aim = req[r].aim /\ q.key = req[r].key
    BY <1>1 DEF Request
  <1>5. Shape(q)
    BY <1>1, <1>4 DEF Shape
  <1> HIDE DEF q
  <1> QED BY <1>1, <1>2, <1>3, <1>5 DEF Moves, Done

-----------------------------------------------------------------------------
\* A verdict "ok" is what the account's row accepts.
LEMMA OkIsAccepted ==
    ASSUME NEW a \in Row \cup {NoAccount}, NEW p, NEW up \in BOOLEAN, Verify(a, p, up) = "ok"
    PROVE  Accepts(a, p)
  <1>1. a.mode \in {"native", "external", "disabled", None}
    BY DEF Row, NoAccount
  <1>2. CASE a.mode \in {None, "disabled"}
    BY <1>2 DEF Verify, None
  <1>3. CASE a.mode = "external"
    BY <1>3 DEF Verify, ask_providers, Accepts, None
  <1>4. CASE a.mode = "native"
    BY <1>4 DEF Verify, Accepts, None
  <1> QED BY <1>1, <1>2, <1>3, <1>4

\* No verdict is "uncleared", which is an answer of the password change.
LEMMA VerdictIsNotUncleared ==
    ASSUME NEW a \in Row \cup {NoAccount}, NEW p, NEW up \in BOOLEAN
    PROVE  Verify(a, p, up) # "uncleared"
  <1>1. a.mode \in {"native", "external", "disabled", None}
    BY DEF Row, NoAccount
  <1>2. CASE a.mode \in {None, "disabled"}
    BY <1>2 DEF Verify, None
  <1>3. CASE a.mode = "external"
    BY <1>3 DEF Verify, ask_providers, None
  <1>4. CASE a.mode = "native"
    BY <1>4 DEF Verify, None
  <1> QED BY <1>1, <1>2, <1>3, <1>4

LEMMA VerdictIsEarned ==
    ASSUME TypeOK, NEW r \in Requests, NEW up \in BOOLEAN
    PROVE  /\ Verdict(r, up) = "ok" => Accepts(req[r].row, req[r].pw)
           /\ Verdict(r, up) # "uncleared"
  <1>1. req[r].row \in Row \cup {NoAccount}
    BY DEF TypeOK, Request
  <1> QED BY <1>1, OkIsAccepted, VerdictIsNotUncleared DEF Verdict

LEMMA SignInAnsweredMoves ==
    ASSUME TypeOK, Shapes, NEW r \in Requests, NEW up \in BOOLEAN, SignInAnswered(r, up)
    PROVE  \E q : Moves(r, q)
  <1>1. req[r].op = "sign in" /\ req[r].at = "verifying" /\ ~Done(r)
    BY DEF SignInAnswered, Is, Done
  <1>2. CASE Verdict(r, up) = "ok" /\ GoTo(r, "inserting")
    <2>0. "inserting" \in Stages
      BY DEF Stages
    <2>1. PICK q \in Request : Writes(r, q) /\ Onward(req[r], q, "inserting")
      BY <1>2, <2>0, GoesOn
    <2>2. Shape(req[r]) /\ Accepts(q.row, q.pw)
      BY <1>2, <2>1, VerdictIsEarned DEF Shapes, Onward
    <2>3. Shape(q)
      BY <1>1, <2>1, <2>2 DEF Shape, Onward, None
    <2> QED BY <1>1, <2>1, <2>3 DEF Moves
  <1>3. CASE Verdict(r, up) # "ok" /\ End(r, Verdict(r, up))
    BY <1>1, <1>3, VerdictIsEarned, Ends
  <1> QED BY <1>2, <1>3 DEF SignInAnswered

LEMMA InsertMoves ==
    ASSUME TypeOK, Shapes, NEW r \in Requests, InsertKey(r)
    PROVE  /\ Moves(r, Ended(req[r], "ok"))
           /\ req[r].op = "sign in"
  <1>1. req[r].at = "inserting" /\ End(r, "ok") /\ Shape(req[r]) /\ req[r] \in Request
    BY DEF InsertKey, Shapes, TypeOK
  <1>2. req[r].op \in {"sign in", "change", "edit", "passwd", "look up", None}
    BY <1>1, SessionsAssumption DEF SessionsAssumption, Request
  <1>3. req[r].op = "sign in"
    BY <1>1, <1>2 DEF Shape, None
  <1>4. Ripe(req[r]) /\ ~Done(r)
    BY <1>1, <1>3 DEF Shape, Ripe, Done
  <1> QED BY <1>1, <1>3, <1>4, Ends

LEMMA RecordUseMoves ==
    ASSUME TypeOK, Shapes, NEW r \in Requests, record_use(r)
    PROVE  \E q : Moves(r, q)
  <1> DEFINE q == [req[r] EXCEPT !.held = {req[r].key}, !.at = "opened"]
  <1>1. req[r] \in Request /\ Shape(req[r]) /\ req[r].at = "verified"
    BY DEF TypeOK, Shapes, record_use
  <1>2. req[r].op \in {"sign in", "change", "edit", "passwd", "look up", None}
    BY <1>1, SessionsAssumption DEF SessionsAssumption, Request
  <1>3. req[r].op = "change" /\ req[r].key \in Sessions
    BY <1>1, <1>2 DEF Shape, None
  <1>4. Writes(r, q)
    BY DEF record_use, Writes, TypeOK
  <1>5. q \in Request
    BY <1>1, <1>3 DEF Request, Stages
  <1>6. /\ q.op = req[r].op /\ q.at = "opened" /\ q.from = req[r].from
        /\ q.pw = req[r].pw /\ q.aim = req[r].aim /\ q.key = req[r].key
    BY <1>1 DEF Request
  <1>7. Shape(q)
    BY <1>1, <1>3, <1>6 DEF Shape, None
  <1> HIDE DEF q
  <1> QED BY <1>1, <1>4, <1>5, <1>7 DEF Moves, Done

\* Which operation a stage belongs to.
LEMMA StageTells ==
    ASSUME TypeOK, Shapes, NEW r \in Requests
    PROVE  /\ req[r] \in Request /\ Shape(req[r])
           /\ req[r].at = "inserting" => req[r].op = "sign in"
           /\ req[r].at \in {"opened", "written", "revoked", "flushed"} => req[r].op = "change"
           /\ req[r].at = "flushing" => req[r].op = "passwd"
           /\ req[r].at = "read" => req[r].op = "edit"
  <1>1. req[r] \in Request /\ Shape(req[r])
    BY DEF TypeOK, Shapes
  <1>2. req[r].op \in {"sign in", "change", "edit", "passwd", "look up", None}
    BY <1>1, SessionsAssumption DEF SessionsAssumption, Request
  <1> QED BY <1>1, <1>2 DEF Shape, None

\* A password change goes on through its later stages.
LEMMA ChangeGoesOn ==
    ASSUME TypeOK, Shapes, NEW r \in Requests, ~Done(r), req[r].op = "change",
           NEW q \in Request, Writes(r, q), q.op = "change",
           q.at \in {"opened", "asked", "verifying", "hashing", "written", "revoked", "flushed"},
           q.pw = req[r].pw, q.aim = req[r].aim, q.key = req[r].key
    PROVE  Moves(r, q)
  <1>1. Shape(req[r])
    BY DEF Shapes
  <1>2. Shape(q)
    BY <1>1 DEF Shape, None
  <1> QED BY <1>2 DEF Moves

LEMMA ChargeMoves ==
    ASSUME TypeOK, Shapes, NEW r \in Requests, ChargeChange(r)
    PROVE  \E q : Moves(r, q)
  <1>1. req[r].op = "change" /\ ~Done(r) /\ req[r].at = "opened" /\ Ripe(req[r])
    BY StageTells DEF ChargeChange, Done, Ripe
  <1>2. ASSUME NEW answer, End(r, answer)
        PROVE  \E q : Moves(r, q)
    BY <1>1, <1>2, Ends
  <1>3. CASE GoTo(r, "asked")
    <2>1. "asked" \in Stages
      BY DEF Stages
    <2>2. PICK q \in Request : Writes(r, q) /\ Onward(req[r], q, "asked")
      BY <1>3, <2>1, GoesOn
    <2> QED BY <1>1, <2>2, ChangeGoesOn DEF Onward
  <1> QED BY <1>2, <1>3 DEF ChargeChange

LEMMA ChangeAnsweredMoves ==
    ASSUME TypeOK, Shapes, NEW r \in Requests, NEW up \in BOOLEAN, ChangeAnswered(r, up)
    PROVE  \E q : Moves(r, q)
  <1>1. req[r].op = "change" /\ ~Done(r) /\ Ripe(req[r])
    BY DEF ChangeAnswered, Is, Done, Ripe
  <1>2. ASSUME NEW answer, End(r, answer)
        PROVE  \E q : Moves(r, q)
    BY <1>1, <1>2, Ends
  <1>3. CASE GoTo(r, "hashing")
    <2>1. "hashing" \in Stages
      BY DEF Stages
    <2>2. PICK q \in Request : Writes(r, q) /\ Onward(req[r], q, "hashing")
      BY <1>3, <2>1, GoesOn
    <2> QED BY <1>1, <2>2, ChangeGoesOn DEF Onward
  <1> QED BY <1>2, <1>3 DEF ChangeAnswered

LEMMA WriteHashMoves ==
    ASSUME TypeOK, Shapes, NEW r \in Requests, WriteHash(r)
    PROVE  \E q : Moves(r, q)
  <1> DEFINE q == [req[r] EXCEPT !.held = @ \cup {Mailbox}, !.at = "written"]
  <1>1. req[r] \in Request /\ req[r].op = "change" /\ ~Done(r)
    BY StageTells DEF WriteHash, Is, Done
  <1>2. Writes(r, q)
    BY DEF WriteHash, Writes, TypeOK
  <1>3. q \in Request
    BY <1>1 DEF Request, Stages
  <1>4. /\ q.op = "change" /\ q.at = "written" /\ q.pw = req[r].pw /\ q.aim = req[r].aim
        /\ q.key = req[r].key
    BY <1>1 DEF Request
  <1> HIDE DEF q
  <1> QED BY <1>1, <1>2, <1>3, <1>4, ChangeGoesOn

LEMMA RevokeMoves ==
    ASSUME TypeOK, Shapes, NEW r \in Requests, RevokeOthers(r)
    PROVE  \E q : /\ Moves(r, q)
                  /\ q.op = "change" /\ q.at = "revoked" /\ q.revoked = Others(r)
                  /\ q.key = req[r].key
  <1> DEFINE q == [req[r] EXCEPT !.revoked = Others(r), !.held = @ \cup Others(r),
                                 !.at = "revoked"]
  <1>1. req[r] \in Request /\ req[r].op = "change" /\ ~Done(r)
    BY StageTells DEF RevokeOthers, Done
  <1>2. Writes(r, q)
    BY DEF RevokeOthers, Writes, TypeOK
  <1>3. Others(r) \subseteq Sessions
    BY DEF Others, Live
  <1>4. q \in Request
    BY <1>1, <1>3 DEF Request, Stages
  <1>5. /\ q.op = "change" /\ q.at = "revoked" /\ q.pw = req[r].pw /\ q.aim = req[r].aim
        /\ q.key = req[r].key /\ q.revoked = Others(r)
    BY <1>1 DEF Request
  <1> HIDE DEF q
  <1> QED BY <1>1, <1>2, <1>4, <1>5, ChangeGoesOn

LEMMA FlushMoves ==
    ASSUME TypeOK, Shapes, NEW r \in Requests, NEW c \in BOOLEAN, _flush_auth_cache(r, c)
    PROVE  \E q : /\ Moves(r, q)
                  /\ q.op = "change" /\ q.at = "flushed" /\ q.revoked = req[r].revoked
                  /\ q.key = req[r].key /\ q.result \in {"ok", "uncleared"}
                  /\ q.result = "ok" => c
  <1> DEFINE v == IF c THEN "ok" ELSE "uncleared"
             q == [req[r] EXCEPT !.result = v, !.at = "flushed"]
  <1>1. req[r] \in Request /\ req[r].op = "change" /\ ~Done(r)
    BY StageTells DEF _flush_auth_cache, Done
  <1>2. Writes(r, q)
    BY DEF _flush_auth_cache, Writes, TypeOK
  <1>3. v \in {"ok", "uncleared"} /\ (v = "ok" => c)
    OBVIOUS
  <1> HIDE DEF v
  <1>4. q \in Request
    BY <1>1, <1>3 DEF Request, Stages
  <1>5. /\ q.op = "change" /\ q.at = "flushed" /\ q.pw = req[r].pw /\ q.aim = req[r].aim
        /\ q.key = req[r].key /\ q.revoked = req[r].revoked /\ q.result = v
    BY <1>1 DEF Request
  <1> HIDE DEF q
  <1> QED BY <1>1, <1>2, <1>3, <1>4, <1>5, ChangeGoesOn

LEMMA CommitMoves ==
    ASSUME TypeOK, Shapes, NEW r \in Requests, Commit(r)
    PROVE  Moves(r, Ended(req[r], req[r].result)) /\ req[r].op = "change"
  <1>1. req[r].op = "change" /\ ~Done(r) /\ Ripe(req[r])
    BY StageTells DEF Commit, Done, Ripe
  <1> QED BY <1>1, Ends DEF Commit

LEMMA PasswdWrittenMoves ==
    ASSUME TypeOK, Shapes, NEW r \in Requests, PasswdWritten(r)
    PROVE  \E q : Moves(r, q) /\ Onward(req[r], q, "flushing") /\ q.op = "passwd"
  <1>1. req[r].op = "passwd" /\ ~Done(r) /\ Shape(req[r]) /\ GoTo(r, "flushing")
    BY DEF PasswdWritten, Is, Done, Shapes
  <1>2. "flushing" \in Stages
    BY DEF Stages
  <1>3. PICK q \in Request : Writes(r, q) /\ Onward(req[r], q, "flushing")
    BY <1>1, <1>2, GoesOn
  <1>4. Shape(q)
    BY <1>1, <1>3 DEF Shape, Onward, None
  <1> QED BY <1>1, <1>3, <1>4 DEF Moves, Onward

LEMMA PasswdFlushedMoves ==
    ASSUME TypeOK, Shapes, NEW r \in Requests, NEW c \in BOOLEAN, PasswdFlushed(r, c)
    PROVE  /\ Moves(r, Ended(req[r], IF c THEN "ok" ELSE "uncleared"))
           /\ req[r].op = "passwd"
  <1>1. req[r].op = "passwd" /\ ~Done(r) /\ Ripe(req[r])
    BY StageTells DEF PasswdFlushed, Done, Ripe
  <1>2. End(r, IF c THEN "ok" ELSE "uncleared")
    BY DEF PasswdFlushed
  <1> QED BY <1>1, <1>2, Ends

LEMMA WriteRowMoves ==
    ASSUME TypeOK, Shapes, NEW r \in Requests, WriteRow(r)
    PROVE  Moves(r, Ended(req[r], "ok")) /\ req[r].op = "edit"
  <1>1. req[r].op = "edit" /\ ~Done(r) /\ Ripe(req[r])
    BY StageTells DEF WriteRow, Done, Ripe
  <1> QED BY <1>1, Ends DEF WriteRow

LEMMA PassdbAnsweredMoves ==
    ASSUME TypeOK, Shapes, NEW r \in Requests, NEW up \in BOOLEAN, PassdbAnswered(r, up)
    PROVE  Moves(r, Ended(req[r], Verdict(r, up)))
  <1>1. req[r].op = "look up" /\ ~Done(r) /\ End(r, Verdict(r, up))
    BY DEF PassdbAnswered, Is, Done
  <1> QED BY <1>1, VerdictIsEarned, Ends DEF Ripe

LEMMA ErrorMoves ==
    ASSUME TypeOK, Shapes, NEW r \in Requests, DatabaseFails(r) \/ Deadlock(r)
    PROVE  Moves(r, Ended(req[r], "error"))
  <1>1. ~Done(r)
    <2>1. CASE DatabaseFails(r)
      BY <2>1 DEF DatabaseFails, Done
    <2>2. CASE Deadlock(r)
      BY <2>2 DEF Deadlock, Blocks, Wanted, Done
    <2> QED BY <2>1, <2>2
  <1>2. End(r, "error")
    BY DEF DatabaseFails, Deadlock
  <1> QED BY <1>1, <1>2, Ends

\* The steps by who takes them: a request that begins, one that goes on, or nobody's.
BeginsOf(r) ==
    \/ \E a \in Addresses, n \in Names, p \in Passwords : create_session(r, a, n, p)
    \/ \E k \in Sessions, p \in Passwords, n \in Passwords : change_password(r, k, p, n)
    \/ \E n \in Passwords : passwd(r, n)
    \/ \E e \in Edits, api \in BOOLEAN : StartEdit(r, e, api)
    \/ \E p \in Passwords : passdb(r, p)

GoesOnOf(r) ==
    \/ LookUp(r) \/ InsertKey(r) \/ record_use(r) \/ ChargeChange(r)
    \/ \E up \in BOOLEAN : SignInAnswered(r, up)
    \/ \E up \in BOOLEAN : ChangeAnswered(r, up)
    \/ \E up \in BOOLEAN : PassdbAnswered(r, up)
    \/ \E c \in BOOLEAN : _flush_auth_cache(r, c)
    \/ \E c \in BOOLEAN : PasswdFlushed(r, c)
    \/ WriteHash(r) \/ RevokeOthers(r) \/ Commit(r) \/ PasswdWritten(r) \/ WriteRow(r)
    \/ DatabaseFails(r) \/ Deadlock(r)

NobodysStep ==
    \/ CacheExpires \/ purge_expired
    \/ \E b \in Addresses \cup Names : Refill(b)
    \/ \E k \in Sessions : revoke(k)
    \/ \E k \in Sessions : Expire(k)

LEMMA WhoSteps ==
    ASSUME Next
    PROVE  (\E r \in Requests : BeginsOf(r) \/ GoesOnOf(r)) \/ NobodysStep
  BY Zenon DEF Next, BeginsOf, GoesOnOf, NobodysStep

LEMMA BeginsMoves ==
    ASSUME TypeOK, Shapes, NEW r \in Requests, BeginsOf(r)
    PROVE  \E q : Moves(r, q)
  <1>1. CASE \E a \in Addresses, n \in Names, p \in Passwords : create_session(r, a, n, p)
    BY <1>1, SignInMoves
  <1>2. CASE \E k \in Sessions, p \in Passwords, n \in Passwords : change_password(r, k, p, n)
    BY <1>2, ChangeMoves
  <1>3. CASE \E n \in Passwords : passwd(r, n)
    BY <1>3, PasswdMoves
  <1>4. CASE \E e \in Edits, api \in BOOLEAN : StartEdit(r, e, api)
    BY <1>4, EditMoves
  <1>5. CASE \E p \in Passwords : passdb(r, p)
    BY <1>5, PassdbMoves
  <1> QED BY <1>1, <1>2, <1>3, <1>4, <1>5, Zenon DEF BeginsOf

LEMMA GoesOnMoves ==
    ASSUME TypeOK, Shapes, NEW r \in Requests, GoesOnOf(r)
    PROVE  \E q : Moves(r, q)
  <1>1. CASE LookUp(r) \/ InsertKey(r) \/ record_use(r) \/ ChargeChange(r)
    BY <1>1, LookUpMoves, InsertMoves, RecordUseMoves, ChargeMoves, Zenon
  <1>2. CASE \E up \in BOOLEAN : SignInAnswered(r, up)
    BY <1>2, SignInAnsweredMoves, Zenon
  <1>3. CASE \E up \in BOOLEAN : ChangeAnswered(r, up)
    BY <1>3, ChangeAnsweredMoves, Zenon
  <1>4. CASE \E up \in BOOLEAN : PassdbAnswered(r, up)
    BY <1>4, PassdbAnsweredMoves, Zenon
  <1>5. CASE \E c \in BOOLEAN : _flush_auth_cache(r, c)
    BY <1>5, FlushMoves, Zenon
  <1>6. CASE \E c \in BOOLEAN : PasswdFlushed(r, c)
    BY <1>6, PasswdFlushedMoves, Zenon
  <1>7. CASE WriteHash(r) \/ RevokeOthers(r) \/ Commit(r) \/ PasswdWritten(r) \/ WriteRow(r)
    BY <1>7, WriteHashMoves, RevokeMoves, CommitMoves, PasswdWrittenMoves, WriteRowMoves, Zenon
  <1>8. CASE DatabaseFails(r) \/ Deadlock(r)
    BY <1>8, ErrorMoves, Zenon
  <1> QED BY <1>1, <1>2, <1>3, <1>4, <1>5, <1>6, <1>7, <1>8, Zenon DEF GoesOnOf

\* Every step either leaves the requests alone or moves one of them.
LEMMA OneMoves ==
    ASSUME TypeOK, Shapes, [Next]_vars
    PROVE  req' = req \/ \E r \in Requests : \E q : Moves(r, q)
  <1>1. CASE Next
    <2>1. CASE NobodysStep
      BY <2>1 DEF NobodysStep, CacheExpires, Refill, revoke, Expire, purge_expired
    <2>2. CASE \E r \in Requests : BeginsOf(r) \/ GoesOnOf(r)
      BY <2>2, BeginsMoves, GoesOnMoves
    <2> QED BY <1>1, <2>1, <2>2, WhoSteps
  <1>2. CASE UNCHANGED vars
    BY <1>2 DEF vars
  <1> QED BY <1>1, <1>2

\* What is over is over, and the records stay well formed.
LEMMA RecordsAreKept ==
    ASSUME TypeOK, Shapes, [Next]_vars
    PROVE  /\ req' \in [Requests -> Request]
           /\ Shapes'
           /\ \A r \in Requests : Done(r) => req'[r] = req[r]
  <1>1. CASE req' = req
    BY <1>1 DEF TypeOK, Shapes
  <1>2. ASSUME NEW r \in Requests, NEW q, Moves(r, q)
        PROVE  /\ req' \in [Requests -> Request]
               /\ Shapes'
               /\ \A s \in Requests : Done(s) => req'[s] = req[s]
    <2>1. req \in [Requests -> Request]
      BY DEF TypeOK
    <2> QED BY <1>2, <2>1 DEF Moves, Writes, Shapes
  <1> QED BY <1>1, <1>2, OneMoves

-----------------------------------------------------------------------------
(* Who changes what. *)

LEMMA BeginsLeaves ==
    ASSUME NEW r \in Requests, BeginsOf(r)
    PROVE  /\ UNCHANGED <<driver, account, session, cache>>
           /\ req[r] = NotYet
           /\ ended' = [ended EXCEPT ![r] = {q \in Requests : Done(q)}]
  <1>1. CASE \E a \in Addresses, n \in Names, p \in Passwords : create_session(r, a, n, p)
    BY <1>1 DEF create_session, Start, stores
  <1>2. CASE \E k \in Sessions, p \in Passwords, n \in Passwords : change_password(r, k, p, n)
    BY <1>2 DEF change_password, Start, stores
  <1>3. CASE \E n \in Passwords : passwd(r, n)
    BY <1>3 DEF passwd, Start, stores
  <1>4. CASE \E e \in Edits, api \in BOOLEAN : StartEdit(r, e, api)
    BY <1>4 DEF StartEdit, Start, stores
  <1>5. CASE \E p \in Passwords : passdb(r, p)
    BY <1>5 DEF passdb, Start, stores
  <1> QED BY <1>1, <1>2, <1>3, <1>4, <1>5 DEF BeginsOf

LEMMA GoesOnLeaves ==
    ASSUME NEW r \in Requests, GoesOnOf(r)
    PROVE  /\ UNCHANGED <<driver, ended>>
           /\ account' = account \/ Commit(r) \/ PasswdWritten(r) \/ WriteRow(r)
           /\ session' = session \/ InsertKey(r) \/ Commit(r)
           /\ \/ cache' = cache
              \/ \E up \in BOOLEAN : PassdbAnswered(r, up)
              \/ \E c \in BOOLEAN : _flush_auth_cache(r, c) \/ PasswdFlushed(r, c)
  <1>1. CASE LookUp(r) \/ record_use(r) \/ ChargeChange(r) \/ WriteHash(r) \/ RevokeOthers(r)
    BY <1>1 DEF LookUp, record_use, ChargeChange, WriteHash, RevokeOthers, stores
  <1>2. CASE DatabaseFails(r) \/ Deadlock(r)
    BY <1>2 DEF DatabaseFails, Deadlock, stores
  <1>3. CASE \E up \in BOOLEAN : SignInAnswered(r, up) \/ ChangeAnswered(r, up)
    BY <1>3 DEF SignInAnswered, ChangeAnswered, stores
  <1>4. CASE \E up \in BOOLEAN : PassdbAnswered(r, up)
    BY <1>4 DEF PassdbAnswered
  <1>5. CASE \E c \in BOOLEAN : _flush_auth_cache(r, c)
    BY <1>5 DEF _flush_auth_cache
  <1>6. CASE \E c \in BOOLEAN : PasswdFlushed(r, c)
    BY <1>6 DEF PasswdFlushed
  <1>7. CASE InsertKey(r)
    BY <1>7 DEF InsertKey
  <1>8. CASE Commit(r)
    BY <1>8 DEF Commit
  <1>9. CASE PasswdWritten(r)
    BY <1>9 DEF PasswdWritten
  <1>10. CASE WriteRow(r)
    BY <1>10 DEF WriteRow
  <1> QED BY <1>1, <1>2, <1>3, <1>4, <1>5, <1>6, <1>7, <1>8, <1>9, <1>10 DEF GoesOnOf

\* Nobody's steps only end sessions, forget what is cached and fill buckets.
LEMMA NobodyLeaves ==
    ASSUME TypeOK, NobodysStep
    PROVE  /\ UNCHANGED <<driver, account, req, ended>>
           /\ session' \in [Sessions -> {None, "live", "dead"}]
           /\ Live' \subseteq Live
           /\ cache' = cache \/ cache' = NoEntry
  <1>1. CASE CacheExpires \/ \E b \in Addresses \cup Names : Refill(b)
    BY <1>1 DEF CacheExpires, Refill, stores, TypeOK, Live
  <1>2. CASE \E k \in Sessions : revoke(k)
    BY <1>2 DEF revoke, TypeOK, Live
  <1>3. CASE \E k \in Sessions : Expire(k)
    BY <1>3 DEF Expire, TypeOK, Live
  <1>4. CASE purge_expired
    BY <1>4 DEF purge_expired, TypeOK, Live, None
  <1> QED BY <1>1, <1>2, <1>3, <1>4 DEF NobodysStep

\* A new password hash, and the row an edit writes back.
LEMMA RowsAreRows ==
    ASSUME TypeOK, Shapes, NEW r \in Requests
    PROVE  /\ Commit(r) \/ PasswdWritten(r) => account' \in Row \cup {NoAccount}
           /\ WriteRow(r) => account' \in Row \cup {NoAccount}
  <1>1. CASE Commit(r) \/ PasswdWritten(r)
    <2>1. req[r].aim \in Passwords
      BY <1>1, StageTells, CommitMoves DEF Shape, PasswdWritten, Is
    <2>2. account' = WithHash(r)
      BY <1>1 DEF Commit, PasswdWritten
    <2> QED BY <1>1, <2>1, <2>2 DEF WithHash, Row, WriteRow, Commit, PasswdWritten, Is
  <1>2. CASE WriteRow(r)
    <2>1. req[r].aim \in AllEdits /\ req[r].row \in Row
      BY <1>2, WriteRowMoves, StageTells, SessionsAssumption
         DEF Shape, SessionsAssumption, Request
    <2>2. Edited(req[r].row, req[r].aim, r) \in Row \cup {NoAccount}
      BY <2>1 DEF Edited, AllEdits, Row
    <2> QED BY <1>2, <2>2 DEF WriteRow, Commit, PasswdWritten, Is
  <1> QED BY <1>1, <1>2

-----------------------------------------------------------------------------
(* Budgets. *)

Buckets == Addresses \cup Names

LimitsOK ==
    /\ tokens \in [Buckets -> 0..Budget]
    /\ guessers \in [Names -> SUBSET Requests]
    /\ refilled \in [Names -> 0..MaxRefills]

\* What a name's bucket has given is what it held and what time returned.
Budgeted ==
    \A n \in Names :
        /\ IsFiniteSet(guessers[n])
        /\ tokens[n] + Cardinality(guessers[n]) <= Budget + refilled[n]

\* The buckets of an attempt under a name: that name's, and no other's.
PaidUnder(name, buckets) ==
    /\ name \in Names
    /\ buckets \in Seq(Buckets)
    /\ Range(buckets) \cap Names = {name}

LEMMA Bounds == Budget \in Nat /\ MaxRefills \in Nat /\ Names \cap Addresses = {}
  BY SessionsAssumption DEF SessionsAssumption

LEMMA NumbersOf ==
    ASSUME LimitsOK, Budgeted, NEW n \in Names
    PROVE  /\ IsFiniteSet(guessers[n]) /\ Cardinality(guessers[n]) \in Nat
           /\ tokens[n] \in Int /\ refilled[n] \in Int
           /\ tokens[n] + Cardinality(guessers[n]) <= Budget + refilled[n]
  BY FS_CardinalityType, Bounds DEF LimitsOK, Budgeted, Buckets

LEMMA SpendKeeps ==
    ASSUME LimitsOK, Budgeted, NEW r \in Requests, NEW name, NEW buckets,
           PaidUnder(name, buckets), Spend(r, name, buckets)
    PROVE  LimitsOK' /\ Budgeted'
  <1>0. name \in Names /\ buckets \in Seq(Buckets)
    BY DEF PaidUnder
  <1>1. \A b \in Paid(buckets) : tokens[b] \in 1..Budget
    <2> SUFFICES ASSUME NEW i \in DOMAIN buckets, \A j \in 1..i : tokens[buckets[j]] > 0
                 PROVE  tokens[buckets[i]] \in 1..Budget
      BY DEF Paid
    <2>1. i \in Nat \ {0} /\ i \in 1..i /\ buckets[i] \in Buckets
      BY <1>0
    <2>2. tokens[buckets[i]] > 0 /\ tokens[buckets[i]] \in 0..Budget
      BY <2>1 DEF LimitsOK
    <2> QED BY <2>2, Bounds
  <1>2. tokens' = [b \in Buckets |-> IF b \in Paid(buckets) THEN tokens[b] - 1 ELSE tokens[b]]
    BY DEF Spend, LimitsOK
  <1>3. tokens' \in [Buckets -> 0..Budget]
    <2> SUFFICES ASSUME NEW b \in Buckets
                 PROVE  (IF b \in Paid(buckets) THEN tokens[b] - 1 ELSE tokens[b]) \in 0..Budget
      BY <1>2
    <2>1. tokens[b] \in 0..Budget
      BY DEF LimitsOK
    <2> QED BY <1>1, <2>1, Bounds
  <1>4. guessers' \in [Names -> SUBSET Requests] /\ refilled' = refilled
    BY <1>0 DEF Spend, LimitsOK
  <1>5. LimitsOK'
    BY <1>3, <1>4 DEF LimitsOK
  <1>6. ASSUME NEW n \in Names
        PROVE  /\ IsFiniteSet(guessers'[n])
               /\ tokens'[n] + Cardinality(guessers'[n]) <= Budget + refilled'[n]
    <2>1. /\ IsFiniteSet(guessers[n]) /\ Cardinality(guessers[n]) \in Nat
          /\ tokens[n] \in Int /\ refilled[n] \in Int
          /\ tokens[n] + Cardinality(guessers[n]) <= Budget + refilled[n]
      BY NumbersOf
    <2>2. tokens'[n] = IF n \in Paid(buckets) THEN tokens[n] - 1 ELSE tokens[n]
      BY <1>2 DEF Buckets
    <2>3. CASE Paid(buckets) = Range(buckets) /\ n = name
      <3>1. tokens'[n] = tokens[n] - 1
        BY <2>2, <2>3 DEF PaidUnder
      <3>2. guessers'[n] = guessers[n] \cup {r}
        BY <2>3 DEF Spend, LimitsOK
      <3>3. IsFiniteSet(guessers'[n]) /\ Cardinality(guessers'[n]) \in Nat
        BY <2>1, <3>2, FS_AddElement, FS_CardinalityType
      <3>4. Cardinality(guessers'[n]) = Cardinality(guessers[n])
            \/ Cardinality(guessers'[n]) = Cardinality(guessers[n]) + 1
        BY <2>1, <3>2, FS_AddElement
      <3> QED BY <1>4, <2>1, <3>1, <3>3, <3>4, Bounds
    <2>4. CASE ~(Paid(buckets) = Range(buckets) /\ n = name)
      <3>1. guessers'[n] = guessers[n]
        BY <2>4 DEF Spend, LimitsOK
      <3>2. tokens'[n] \in {tokens[n], tokens[n] - 1}
        BY <2>2
      <3> QED BY <1>4, <2>1, <3>1, <3>2, Bounds
    <2> QED BY <2>3, <2>4
  <1> QED BY <1>5, <1>6 DEF Budgeted

LEMMA RefundKeeps ==
    ASSUME LimitsOK, Budgeted, NEW name, NEW buckets, PaidUnder(name, buckets),
           Refund(name, buckets)
    PROVE  LimitsOK' /\ Budgeted'
  <1>1. Budget \in Nat /\ MaxRefills \in Nat /\ name \in Names
    BY Bounds DEF PaidUnder
  <1>2. tokens' = [b \in Buckets |-> IF b \in Range(buckets) THEN Budget ELSE tokens[b]]
    BY DEF Refund, LimitsOK
  <1>3. LimitsOK'
    BY <1>1, <1>2 DEF Refund, LimitsOK
  <1>4. ASSUME NEW n \in Names
        PROVE  /\ IsFiniteSet(guessers'[n])
               /\ tokens'[n] + Cardinality(guessers'[n]) <= Budget + refilled'[n]
    <2>1. CASE n = name
      <3>1. guessers'[n] = {} /\ refilled'[n] = 0
        BY <2>1 DEF Refund, LimitsOK
      <3>2. n \in Range(buckets)
        BY <2>1 DEF PaidUnder
      <3>3. tokens'[n] = Budget
        BY <1>2, <3>2 DEF Buckets
      <3> QED BY <1>1, <3>1, <3>3, FS_EmptySet
    <2>2. CASE n # name
      <3>1. guessers'[n] = guessers[n] /\ refilled'[n] = refilled[n]
        BY <2>2 DEF Refund, LimitsOK
      <3>2. n \notin Range(buckets)
        BY <2>2 DEF PaidUnder
      <3>3. tokens'[n] = tokens[n]
        BY <1>2, <3>2 DEF Buckets
      <3> QED BY <3>1, <3>3 DEF Budgeted
    <2> QED BY <2>1, <2>2
  <1> QED BY <1>3, <1>4 DEF Budgeted

LEMMA RefillKeeps ==
    ASSUME LimitsOK, Budgeted, NEW b \in Buckets, Refill(b)
    PROVE  LimitsOK' /\ Budgeted'
  <1>1. Budget \in Nat /\ MaxRefills \in Nat
    BY Bounds
  <1>2. /\ tokens' = [tokens EXCEPT ![b] = @ + 1]
        /\ tokens[b] < Budget /\ (b \in Names => refilled[b] < MaxRefills)
        /\ refilled' = [n \in Names |-> IF n = b THEN refilled[n] + 1 ELSE refilled[n]]
        /\ guessers' = guessers
    BY DEF Refill
  <1>3. tokens[b] \in 0..Budget /\ \A n \in Names : refilled[n] \in 0..MaxRefills
    BY DEF LimitsOK
  <1>4. \A n \in Names : (IF n = b THEN refilled[n] + 1 ELSE refilled[n]) \in 0..MaxRefills
    BY <1>1, <1>2, <1>3
  <1>5. LimitsOK'
    BY <1>1, <1>2, <1>3, <1>4 DEF LimitsOK
  <1>6. ASSUME NEW n \in Names
        PROVE  tokens'[n] + Cardinality(guessers'[n]) <= Budget + refilled'[n]
    <2>1. /\ Cardinality(guessers[n]) \in Nat /\ tokens[n] \in Int /\ refilled[n] \in Int
          /\ tokens[n] + Cardinality(guessers[n]) <= Budget + refilled[n]
      BY NumbersOf
    <2>2. /\ tokens'[n] = IF n = b THEN tokens[n] + 1 ELSE tokens[n]
          /\ refilled'[n] = IF n = b THEN refilled[n] + 1 ELSE refilled[n]
      BY <1>2 DEF LimitsOK, Buckets
    <2> QED BY <1>1, <1>2, <2>1, <2>2
  <1> QED BY <1>2, <1>5, <1>6 DEF Budgeted

\* The buckets an attempt pays from.
LEMMA ChargedAlone == PaidUnder(Mailbox, <<Mailbox>>)
  <1>1. Mailbox \in Names /\ Mailbox \in Buckets
    BY DEF Buckets, Names
  <1>2. Range(<<Mailbox>>) = {Mailbox}
    BY DEF Range
  <1> QED BY <1>1, <1>2 DEF PaidUnder

LEMMA ChargedBuckets ==
    ASSUME NEW a \in Addresses, NEW n \in Names
    PROVE  PaidUnder(n, SignInBuckets(a, n))
  <1>1. SignInBuckets(a, n) = <<a, n>> /\ a \in Buckets /\ n \in Buckets
    BY DEF SignInBuckets, Buckets
  <1>2. Range(<<a, n>>) = {a, n}
    BY DEF Range
  <1>3. {a, n} \cap Names = {n}
    BY Bounds
  <1> QED BY <1>1, <1>2, <1>3 DEF PaidUnder

LEMMA NameIsCharged ==
    ASSUME TypeOK, Shapes, NEW r \in Requests, req[r].at \notin {"idle", "done"},
           req[r].op \in {"sign in", "change"}
    PROVE  PaidUnder(Named(r), Charged(r))
  <1>1. CASE req[r].op = "sign in"
    <2>1. req[r].from \in Addresses /\ req[r].name \in Names
      BY <1>1 DEF Shapes, Shape
    <2> QED BY <1>1, <2>1, ChargedBuckets DEF Charged, Named
  <1>2. CASE req[r].op = "change"
    BY <1>2, ChargedAlone DEF Charged, Named
  <1> QED BY <1>1, <1>2

LEMMA LimitsStep ==
    ASSUME TypeOK, Shapes, Budgeted, [Next]_vars
    PROVE  LimitsOK' /\ Budgeted'
  <1>1. LimitsOK
    BY DEF TypeOK, LimitsOK, Buckets
  <1>2. ASSUME UNCHANGED limits
        PROVE  LimitsOK' /\ Budgeted'
    BY <1>1, <1>2 DEF LimitsOK, Budgeted, limits
  <1>3. ASSUME NEW r \in Requests, BeginsOf(r)
        PROVE  LimitsOK' /\ Budgeted'
    <2>1. ASSUME NEW a \in Addresses, NEW n \in Names, NEW p \in Passwords,
                 create_session(r, a, n, p)
          PROVE  LimitsOK' /\ Budgeted'
      BY <1>1, <2>1, ChargedBuckets, SpendKeeps DEF create_session
    <2>2. ASSUME ~\E a \in Addresses, n \in Names, p \in Passwords : create_session(r, a, n, p)
          PROVE  UNCHANGED limits
      BY <1>3, <2>2 DEF BeginsOf, change_password, passwd, StartEdit, passdb
    <2> QED BY <1>2, <2>1, <2>2
  <1>4. ASSUME NEW r \in Requests, GoesOnOf(r)
        PROVE  LimitsOK' /\ Budgeted'
    <2>1. CASE ChargeChange(r)
      <3>1. req[r].op = "change" /\ req[r].at = "opened"
        BY <2>1, StageTells DEF ChargeChange
      <3> QED BY <1>1, <1>2, <2>1, <3>1, NameIsCharged, SpendKeeps DEF ChargeChange
    <2>2. ASSUME NEW up \in BOOLEAN, SignInAnswered(r, up) \/ ChangeAnswered(r, up)
          PROVE  LimitsOK' /\ Budgeted'
      <3>1. req[r].op \in {"sign in", "change"} /\ req[r].at = "verifying"
        BY <2>2 DEF SignInAnswered, ChangeAnswered, Is
      <3>2. UNCHANGED limits \/ Refund(Named(r), Charged(r))
        BY <2>2 DEF SignInAnswered, ChangeAnswered
      <3> QED BY <1>1, <1>2, <3>1, <3>2, NameIsCharged, RefundKeeps
    <2>3. ASSUME ~ChargeChange(r),
                 ~\E up \in BOOLEAN : SignInAnswered(r, up) \/ ChangeAnswered(r, up)
          PROVE  UNCHANGED limits
      <3>1. CASE LookUp(r) \/ record_use(r) \/ WriteHash(r) \/ RevokeOthers(r) \/ InsertKey(r)
        BY <3>1 DEF LookUp, record_use, WriteHash, RevokeOthers, InsertKey
      <3>2. CASE \/ Commit(r) \/ PasswdWritten(r) \/ WriteRow(r)
                 \/ DatabaseFails(r) \/ Deadlock(r)
        BY <3>2 DEF Commit, PasswdWritten, WriteRow, DatabaseFails, Deadlock
      <3>3. CASE \/ \E up \in BOOLEAN : PassdbAnswered(r, up)
                 \/ \E c \in BOOLEAN : _flush_auth_cache(r, c)
                 \/ \E c \in BOOLEAN : PasswdFlushed(r, c)
        BY <3>3 DEF PassdbAnswered, _flush_auth_cache, PasswdFlushed
      <3> QED BY <1>4, <2>3, <3>1, <3>2, <3>3 DEF GoesOnOf
    <2> QED BY <1>2, <2>1, <2>2, <2>3
  <1>5. ASSUME NobodysStep
        PROVE  LimitsOK' /\ Budgeted'
    <2>1. CASE \E b \in Addresses \cup Names : Refill(b)
      BY <1>1, <2>1, RefillKeeps DEF Buckets
    <2>2. CASE \/ CacheExpires \/ purge_expired
               \/ \E k \in Sessions : revoke(k)
               \/ \E k \in Sessions : Expire(k)
      BY <1>2, <2>2 DEF CacheExpires, purge_expired, revoke, Expire
    <2> QED BY <1>5, <2>1, <2>2 DEF NobodysStep
  <1>6. CASE UNCHANGED vars
    BY <1>2, <1>6 DEF vars
  <1> QED BY <1>3, <1>4, <1>5, <1>6, WhoSteps

-----------------------------------------------------------------------------
(* Types. *)

LEMMA CacheType ==
    ASSUME TypeOK, Shapes, NEW r \in Requests, GoesOnOf(r)
    PROVE  cache' \in [pw : Passwords, by : Requests] \cup {NoEntry}
  <1>1. cache \in [pw : Passwords, by : Requests] \cup {NoEntry}
    BY DEF TypeOK
  <1>2. ASSUME NEW up \in BOOLEAN, PassdbAnswered(r, up)
        PROVE  cache' \in [pw : Passwords, by : Requests] \cup {NoEntry}
    <2>1. req[r].pw \in Passwords
      BY <1>2, StageTells DEF PassdbAnswered, Is, Shape
    <2> QED BY <1>1, <1>2, <2>1 DEF PassdbAnswered
  <1>3. ASSUME NEW c \in BOOLEAN, _flush_auth_cache(r, c) \/ PasswdFlushed(r, c)
        PROVE  cache' \in [pw : Passwords, by : Requests] \cup {NoEntry}
    BY <1>1, <1>3 DEF _flush_auth_cache, PasswdFlushed, Flushed
  <1> QED BY <1>1, <1>2, <1>3, GoesOnLeaves

LEMMA SessionType ==
    ASSUME TypeOK, NEW r \in Requests, GoesOnOf(r)
    PROVE  session' \in [Sessions -> {None, "live", "dead"}]
  BY GoesOnLeaves DEF InsertKey, Commit, TypeOK

LEMMA TypesStep ==
    ASSUME TypeOK, Shapes, Budgeted, [Next]_vars
    PROVE  TypeOK'
  <1>1. /\ tokens' \in [Addresses \cup Names -> 0..Budget]
        /\ guessers' \in [Names -> SUBSET Requests] /\ refilled' \in [Names -> 0..MaxRefills]
    BY LimitsStep DEF LimitsOK, Buckets
  <1>2. req' \in [Requests -> Request]
    BY RecordsAreKept
  <1>3. /\ driver \in Drivers
        /\ account \in Row \cup {NoAccount}
        /\ session \in [Sessions -> {None, "live", "dead"}]
        /\ cache \in [pw : Passwords, by : Requests] \cup {NoEntry}
        /\ ended \in [Requests -> SUBSET Requests]
    BY DEF TypeOK
  <1> DEFINE P == /\ driver' \in Drivers
                  /\ account' \in Row \cup {NoAccount}
                  /\ session' \in [Sessions -> {None, "live", "dead"}]
                  /\ cache' \in [pw : Passwords, by : Requests] \cup {NoEntry}
                  /\ ended' \in [Requests -> SUBSET Requests]
  <1>4. ASSUME NEW r \in Requests, BeginsOf(r)
        PROVE  P
    <2>1. ended' = [ended EXCEPT ![r] = {q \in Requests : Done(q)}]
          /\ UNCHANGED <<driver, account, session, cache>>
      BY <1>4, BeginsLeaves
    <2>2. {q \in Requests : Done(q)} \in SUBSET Requests
      OBVIOUS
    <2>3. ended' \in [Requests -> SUBSET Requests]
      BY <1>3, <2>1, <2>2
    <2> QED BY <1>3, <2>1, <2>3
  <1>5. ASSUME NEW r \in Requests, GoesOnOf(r)
        PROVE  P
    <2>1. UNCHANGED <<driver, ended>>
          /\ (account' = account \/ Commit(r) \/ PasswdWritten(r) \/ WriteRow(r))
      BY <1>5, GoesOnLeaves
    <2>2. account' \in Row \cup {NoAccount}
      BY <1>3, <2>1, RowsAreRows
    <2> QED BY <1>3, <1>5, <2>1, <2>2, CacheType, SessionType
  <1>6. ASSUME NobodysStep
        PROVE  P
    BY <1>3, <1>6, NobodyLeaves
  <1>7. ASSUME UNCHANGED vars
        PROVE  P
    <2>1. /\ driver' = driver /\ account' = account /\ session' = session
          /\ cache' = cache /\ ended' = ended
      BY <1>7 DEF vars, stores
    <2> QED BY <1>3, <2>1
  <1> HIDE DEF P
  <1>8. P
    BY <1>4, <1>5, <1>6, <1>7, WhoSteps
  <1> QED BY <1>1, <1>2, <1>8 DEF TypeOK, P

-----------------------------------------------------------------------------
(* What lets somebody in. *)

Earned ==
    /\ \A k \in Live \cap Requests : Is(k, "sign in", "done")
    /\ cache # NoEntry => /\ Is(cache.by, "look up", "done")
                          /\ req[cache.by].pw = cache.pw

\* What remains of a request that ended well.
LEMMA EndedKeeps ==
    ASSUME NEW q \in Request
    PROVE  /\ Ended(q, "ok").op = q.op /\ Ended(q, "ok").at = "done"
           /\ Ended(q, "ok").pw = q.pw /\ Ended(q, "ok").row = q.row
           /\ Ended(q, "ok").result = "ok" /\ Ended(q, "ok").key = q.key
  BY DEF Ended, Request

LEMMA EarnedStep ==
    ASSUME TypeOK, Shapes, Earned, [Next]_vars
    PROVE  Earned'
  <1>1. \A r \in Requests : Done(r) => req'[r] = req[r]
    BY RecordsAreKept
  <1>2. \A k \in Live \cap Requests : Is(k, "sign in", "done")'
    BY <1>1 DEF Earned, Is, Done
  <1>3. cache # NoEntry => /\ cache.by \in Requests
                           /\ Is(cache.by, "look up", "done")
                           /\ req[cache.by].pw = cache.pw
    BY DEF Earned, TypeOK
  <1>4. ASSUME cache # NoEntry
        PROVE  req'[cache.by].op = "look up" /\ req'[cache.by].at = "done"
               /\ req'[cache.by].pw = cache.pw
    BY <1>1, <1>3, <1>4 DEF Is, Done
  <1>5. ASSUME Live' \subseteq Live, cache' = cache \/ cache' = NoEntry
        PROVE  Earned'
    BY <1>2, <1>4, <1>5 DEF Earned, Is
  <1>6. ASSUME NEW r \in Requests, GoesOnOf(r)
        PROVE  Earned'
    <2>1. req[r] \in Request
      BY DEF TypeOK
    <2>2. CASE InsertKey(r)
      <3>1. req'[r] = Ended(req[r], "ok") /\ req[r].op = "sign in"
        BY <2>2, InsertMoves DEF Moves, Writes, TypeOK
      <3>2. req'[r].op = "sign in" /\ req'[r].at = "done"
        BY <2>1, <3>1, EndedKeeps
      <3>3. Live' \subseteq Live \cup {r} /\ cache' = cache
        BY <2>2 DEF InsertKey, Live, TypeOK
      <3> QED BY <1>2, <1>4, <3>2, <3>3 DEF Earned, Is
    <2>3. ASSUME NEW up \in BOOLEAN, PassdbAnswered(r, up)
          PROVE  Earned'
      <3>1. Live' = Live
        BY <2>3 DEF PassdbAnswered, Live
      <3>2. CASE Verdict(r, up) # "ok"
        BY <1>5, <2>3, <3>1, <3>2 DEF PassdbAnswered
      <3>3. CASE Verdict(r, up) = "ok"
        <4>0. req'[r] = Ended(req[r], Verdict(r, up)) /\ req[r].op = "look up"
          BY <2>3, PassdbAnsweredMoves DEF Moves, Writes, TypeOK, PassdbAnswered, Is
        <4>1. req'[r] = Ended(req[r], "ok") /\ req[r].op = "look up"
          BY <3>3, <4>0
        <4>2. req'[r].op = "look up" /\ req'[r].at = "done" /\ req'[r].pw = req[r].pw
          BY <2>1, <4>1, EndedKeeps
        <4>3. cache'.pw = req[r].pw /\ cache'.by = r
          BY <2>3, <3>3 DEF PassdbAnswered
        <4> QED BY <1>2, <3>1, <4>2, <4>3 DEF Earned, Is
      <3> QED BY <3>2, <3>3
    <2>4. ASSUME NEW c \in BOOLEAN, _flush_auth_cache(r, c) \/ PasswdFlushed(r, c)
          PROVE  Earned'
      BY <1>5, <2>4 DEF _flush_auth_cache, PasswdFlushed, Flushed, Live
    <2>5. CASE Commit(r)
      <3>1. Live' \subseteq Live /\ cache' = cache
        BY <2>5 DEF Commit, Live
      <3> QED BY <1>5, <3>1
    <2>6. CASE session' = session /\ cache' = cache
      BY <1>5, <2>6 DEF Live
    <2> QED BY <1>6, <2>2, <2>3, <2>4, <2>5, <2>6, GoesOnLeaves
  <1>7. ASSUME NEW r \in Requests, BeginsOf(r)
        PROVE  Earned'
    BY <1>5, <1>7, BeginsLeaves DEF Live
  <1>8. ASSUME NobodysStep
        PROVE  Earned'
    BY <1>5, <1>8, NobodyLeaves
  <1>9. CASE UNCHANGED vars
    BY <1>5, <1>9 DEF vars, stores, Live
  <1> QED BY <1>6, <1>7, <1>8, <1>9, WhoSteps

-----------------------------------------------------------------------------
(* The invariant, and the first theorems. *)

Inv == TypeOK /\ Shapes /\ Budgeted /\ Earned

LEMMA InitInv == ASSUME Init PROVE Inv
  <1>1. NotYet \in Request /\ Shape(NotYet)
    BY NotYetType
  <1>2. TypeOK
    <2>1. account \in Row /\ driver \in Drivers
      BY SessionsAssumption DEF Init, SessionsAssumption
    <2>2. req \in [Requests -> Request] /\ ended \in [Requests -> SUBSET Requests]
      BY <1>1 DEF Init
    <2>3. session \in [Sessions -> {None, "live", "dead"}] /\ cache = NoEntry
      BY DEF Init
    <2>4. /\ tokens \in [Addresses \cup Names -> 0..Budget]
          /\ guessers \in [Names -> SUBSET Requests] /\ refilled \in [Names -> 0..MaxRefills]
      BY Bounds DEF Init
    <2> QED BY <2>1, <2>2, <2>3, <2>4 DEF TypeOK
  <1>3. Shapes
    BY <1>1 DEF Init, Shapes
  <1>4. Budgeted
    BY FS_EmptySet, Bounds DEF Init, Budgeted
  <1>5. Earned
    <2>1. \A k \in Live \cap Requests : FALSE
      BY SessionsAssumption DEF Init, Live, Sessions, SessionsAssumption, None
    <2>2. cache = NoEntry
      BY DEF Init
    <2> QED BY <2>1, <2>2 DEF Earned
  <1> QED BY <1>2, <1>3, <1>4, <1>5 DEF Inv

LEMMA NextInv == ASSUME Inv, [Next]_vars PROVE Inv'
  BY TypesStep, RecordsAreKept, LimitsStep, EarnedStep DEF Inv

LEMMA InvHolds == Spec => []Inv
  BY InitInv, NextInv, PTL DEF Spec

\* Rows, records, buckets and the cache keep their types.
THEOREM TypesAreKept == Spec => []TypeOK
  <1>1. Inv => TypeOK
    BY DEF Inv
  <1> QED BY <1>1, InvHolds, PTL

\* Nobody is in, by a session or by Dovecot's cache, whose password the account did
\* not accept when it was asked (auth.py: Authenticator.authenticate).
THEOREM EntryIsEarned == Spec => []SignInIsEarned
  <1>1. ASSUME Inv PROVE SignInIsEarned
    <2>1. \A k \in Live \cap Requests : Accepts(req[k].row, req[k].pw)
      BY <1>1 DEF Inv, Earned, Shapes, Shape, Is
    <2>2. ASSUME cache # NoEntry
          PROVE  Accepts(req[cache.by].row, cache.pw)
      <3>1. cache.by \in Requests
        BY <1>1, <2>2 DEF Inv, TypeOK
      <3>2. Is(cache.by, "look up", "done") /\ req[cache.by].pw = cache.pw
        BY <1>1, <2>2 DEF Inv, Earned
      <3>3. Accepts(req[cache.by].row, req[cache.by].pw)
        BY <1>1, <3>1, <3>2 DEF Inv, Shapes, Shape, Is
      <3> QED BY <3>2, <3>3
    <2> QED BY <2>1, <2>2 DEF SignInIsEarned
  <1> QED BY <1>1, InvHolds, PTL

\* However many guess at once, from wherever, under one name of the mailbox they are
\* given no more wrong answers than one budget and what time returned (session.py:
\* _spend).  A mailbox has as many budgets as it has names.
THEOREM GuessingIsCapped == Spec => []GuessesAreCapped
  <1>1. ASSUME Inv, NEW n \in Names
        PROVE  Cardinality(WrongOnes(guessers[n])) <= Budget + refilled[n]
    <2> DEFINE wrong == WrongOnes(guessers[n])
    <2>1. /\ IsFiniteSet(guessers[n])
          /\ tokens[n] + Cardinality(guessers[n]) <= Budget + refilled[n]
          /\ tokens[n] \in Nat /\ refilled[n] \in Nat
      BY <1>1, Bounds DEF Inv, Budgeted, TypeOK
    <2>2. wrong \subseteq guessers[n]
      BY DEF WrongOnes
    <2> HIDE DEF wrong
    <2>3. IsFiniteSet(wrong) /\ Cardinality(wrong) <= Cardinality(guessers[n])
      BY <2>1, <2>2, FS_Subset
    <2>4. Cardinality(wrong) \in Nat /\ Cardinality(guessers[n]) \in Nat
      BY <2>1, <2>3, FS_CardinalityType
    <2>5. Cardinality(wrong) <= Budget + refilled[n]
      BY <2>1, <2>3, <2>4, Bounds
    <2> QED BY <2>5 DEF wrong
  <1>2. Inv => GuessesAreCapped
    BY <1>1 DEF GuessesAreCapped
  <1> QED BY <1>2, InvHolds, PTL

-----------------------------------------------------------------------------
(* How a request gets where it is. *)

LEMMA EndsBadly ==
    ASSUME TypeOK, NEW r \in Requests, NEW answer, End(r, answer),
           answer \notin {"ok", "uncleared"}
    PROVE  req'[r].op = None /\ req'[r].at = "done"
  <1>1. req' = [req EXCEPT ![r] = Ended(req[r], answer)]
    BY EndWrites DEF Writes
  <1>2. req'[r] = Ended(req[r], answer)
    BY <1>1 DEF TypeOK
  <1> DEFINE v == IF answer = "wrong" THEN answer ELSE "failed"
             f == [NotYet EXCEPT !.at = "done", !.result = v]
  <1>3. NotYet \in Request /\ NotYet.op = None
    BY NotYetType DEF NotYet
  <1>4. v \in {"wrong", "failed"}
    OBVIOUS
  <1>5. Ended(req[r], answer) = f
    BY DEF Ended
  <1> HIDE DEF v
  <1>6. f.op = None /\ f.at = "done"
    BY <1>3, <1>4, AnsweredType
  <1> QED BY <1>2, <1>5, <1>6

LEMMA OthersStay ==
    ASSUME TypeOK, NEW r \in Requests, NEW q, Writes(r, q)
    PROVE  req'[r] = q /\ \A p \in Requests \ {r} : req'[p] = req[p]
  BY DEF Writes, TypeOK

\* Where a request that begins is.
LEMMA BeginsAt ==
    ASSUME TypeOK, Shapes, NEW r \in Requests, BeginsOf(r)
    PROVE  /\ req'[r].at \in {"asked", "verified", "hashing", "read", "done"}
           /\ req'[r].at = "done" => req'[r].op = None
           /\ req'[r].at = "read" => req'[r].row = account
           /\ \A p \in Requests \ {r} : req'[p] = req[p]
  <1>1. \A p \in Requests \ {r} : req'[p] = req[p]
    BY BeginsMoves, OthersStay DEF Moves
  <1>2. ASSUME NEW a \in Addresses, NEW n \in Names, NEW p \in Passwords,
               create_session(r, a, n, p)
        PROVE  req'[r].at = "asked" \/ (req'[r].at = "done" /\ req'[r].op = None)
    <2>1. CASE End(r, "too many")
      BY <2>1, EndsBadly
    <2>2. CASE req' = [req EXCEPT ![r] =
                         [Begin("sign in", "asked", p, None) EXCEPT !.from = a, !.name = n]]
      BY <2>2 DEF Begin, NotYet, TypeOK
    <2> QED BY <1>2, <2>1, <2>2 DEF create_session
  <1>3. ASSUME NEW k \in Sessions, NEW p \in Passwords, NEW n \in Passwords,
               change_password(r, k, p, n)
        PROVE  req'[r].at = "verified"
    BY <1>3 DEF change_password, Begin, NotYet, TypeOK
  <1>4. ASSUME NEW n \in Passwords, passwd(r, n)
        PROVE  req'[r].at = "hashing"
    BY <1>4 DEF passwd, Begin, NotYet, TypeOK
  <1>5. ASSUME NEW e \in Edits, NEW api \in BOOLEAN, StartEdit(r, e, api)
        PROVE  req'[r].at = "read" /\ req'[r].row = account
    BY <1>5 DEF StartEdit, Begin, NotYet, TypeOK
  <1>6. ASSUME NEW p \in Passwords, passdb(r, p)
        PROVE  req'[r].at = "asked"
    BY <1>6 DEF passdb, Begin, NotYet, TypeOK
  <1> QED BY <1>1, <1>2, <1>3, <1>4, <1>5, <1>6 DEF BeginsOf

\* Which step takes a request to the later stages, or to an end with a past.
Arrives(r) ==
    /\ req'[r].at # "read"
    /\ req'[r].at = "revoked" => RevokeOthers(r)
    /\ req'[r].at = "flushed" => \E c \in BOOLEAN : _flush_auth_cache(r, c)
    /\ req'[r].at = "flushing" => PasswdWritten(r)
    /\ req'[r].at = "done" =>
         /\ req'[r].op = "change" => Commit(r)
         /\ req'[r].op = "passwd" => \E c \in BOOLEAN : PasswdFlushed(r, c)
         /\ req'[r].op = "edit" => WriteRow(r)

LEMMA GoesOnAt ==
    ASSUME TypeOK, Shapes, NEW r \in Requests, GoesOnOf(r)
    PROVE  Arrives(r) /\ \A p \in Requests \ {r} : req'[p] = req[p]
  <1>1. \A p \in Requests \ {r} : req'[p] = req[p]
    BY GoesOnMoves, OthersStay DEF Moves
  <1>2. req[r] \in Request /\ req \in [Requests -> Request]
    BY DEF TypeOK
  <1>3. ASSUME NEW answer, End(r, answer), answer \notin {"ok", "uncleared"}
        PROVE  Arrives(r)
    BY <1>3, EndsBadly DEF Arrives, None
  <1>4. ASSUME NEW stage, GoTo(r, stage),
               stage \notin {"read", "revoked", "flushed", "flushing", "done"}
        PROVE  Arrives(r)
    <2>1. req'[r].at = stage
      BY <1>2, <1>4 DEF GoTo, Request
    <2> QED BY <1>4, <2>1 DEF Arrives
  <1>5. ASSUME LookUp(r)
        PROVE  Arrives(r)
    <2>1. req'[r].at = "verifying"
      BY <1>2, <1>5 DEF LookUp, Request
    <2> QED BY <2>1 DEF Arrives
  <1>6. ASSUME record_use(r)
        PROVE  Arrives(r)
    <2>1. req'[r].at = "opened"
      BY <1>2, <1>6 DEF record_use, Request
    <2> QED BY <2>1 DEF Arrives
  <1>7. ASSUME WriteHash(r)
        PROVE  Arrives(r)
    <2>1. req'[r].at = "written"
      BY <1>2, <1>7 DEF WriteHash, Request
    <2> QED BY <2>1 DEF Arrives
  <1>8. ASSUME RevokeOthers(r)
        PROVE  Arrives(r)
    <2>1. req'[r].at = "revoked"
      BY <1>2, <1>8 DEF RevokeOthers, Request
    <2> QED BY <1>8, <2>1 DEF Arrives
  <1>9. ASSUME NEW c \in BOOLEAN, _flush_auth_cache(r, c)
        PROVE  Arrives(r)
    <2>1. req'[r].at = "flushed"
      BY <1>2, <1>9 DEF _flush_auth_cache, Request
    <2> QED BY <1>9, <2>1 DEF Arrives
  <1>10. ASSUME PasswdWritten(r)
         PROVE  Arrives(r)
    <2>1. req'[r].at = "flushing"
      BY <1>2, <1>10 DEF PasswdWritten, GoTo, Request
    <2> QED BY <1>10, <2>1 DEF Arrives
  <1>11. ASSUME ChargeChange(r)
         PROVE  Arrives(r)
    BY <1>3, <1>4, <1>11 DEF ChargeChange
  <1>12. ASSUME NEW up \in BOOLEAN, ChangeAnswered(r, up)
         PROVE  Arrives(r)
    BY <1>3, <1>4, <1>12, VerdictIsEarned DEF ChangeAnswered
  <1>13. ASSUME NEW up \in BOOLEAN, SignInAnswered(r, up)
         PROVE  Arrives(r)
    BY <1>3, <1>4, <1>13, VerdictIsEarned DEF SignInAnswered
  <1>14. ASSUME NEW answer, End(r, answer), answer \in {"ok", "uncleared"}
         PROVE  req'[r].op = req[r].op /\ req'[r].at = "done"
    <2>1. req'[r] = Ended(req[r], answer)
      BY <1>14, EndWrites, OthersStay
    <2> QED BY <1>2, <1>14, <2>1 DEF Ended, Request
  <1>15. ASSUME InsertKey(r)
         PROVE  Arrives(r)
    <2>1. req[r].op = "sign in" /\ End(r, "ok")
      BY <1>15, InsertMoves DEF InsertKey
    <2> QED BY <1>14, <2>1 DEF Arrives
  <1>16. ASSUME Commit(r)
         PROVE  Arrives(r)
    <2>1. req[r].op = "change" /\ End(r, req[r].result)
      BY <1>16, CommitMoves DEF Commit
    <2>2. req'[r].at = "done" /\ req'[r].op \in {"change", None}
      BY <1>14, <2>1, EndsBadly
    <2> QED BY <1>16, <2>2 DEF Arrives, None
  <1>17. ASSUME NEW c \in BOOLEAN, PasswdFlushed(r, c)
         PROVE  Arrives(r)
    <2>1. req[r].op = "passwd" /\ End(r, IF c THEN "ok" ELSE "uncleared")
      BY <1>17, PasswdFlushedMoves DEF PasswdFlushed
    <2>2. req'[r].at = "done" /\ req'[r].op = "passwd"
      BY <1>14, <2>1
    <2> QED BY <1>17, <2>2 DEF Arrives
  <1>18. ASSUME WriteRow(r)
         PROVE  Arrives(r)
    <2>1. req[r].op = "edit" /\ End(r, "ok")
      BY <1>18, WriteRowMoves DEF WriteRow
    <2>2. req'[r].at = "done" /\ req'[r].op = "edit"
      BY <1>14, <2>1
    <2> QED BY <1>18, <2>2 DEF Arrives
  <1>19. ASSUME NEW up \in BOOLEAN, PassdbAnswered(r, up)
         PROVE  Arrives(r)
    <2>1. req[r].op = "look up" /\ End(r, Verdict(r, up))
      BY <1>19 DEF PassdbAnswered, Is
    <2>2. req'[r].at = "done" /\ req'[r].op \in {"look up", None}
      BY <1>14, <2>1, EndsBadly
    <2> QED BY <2>2 DEF Arrives, None
  <1>20. ASSUME DatabaseFails(r) \/ Deadlock(r)
         PROVE  Arrives(r)
    BY <1>3, <1>20 DEF DatabaseFails, Deadlock
  <1>21. Arrives(r)
    BY <1>5, <1>6, <1>7, <1>8, <1>9, <1>10, <1>11, <1>12, <1>13, <1>15, <1>16, <1>17, <1>18,
       <1>19, <1>20, Zenon DEF GoesOnOf
  <1> QED BY <1>1, <1>21

-----------------------------------------------------------------------------
(* A password change is complete. *)

\* What was over when a request began is over.
PastIsPast == \A r \in Requests : ended[r] \subseteq {q \in Requests : Done(q)}

\* A change that has deactivated the other sessions, or has committed that, is the end
\* of those signed in before it.
SessionsEnd ==
    \A c \in Requests : req[c].op = "change" =>
        /\ req[c].at \in {"revoked", "flushed"} =>
               {k \in Live : Earlier(k, c)} \subseteq req[c].revoked \cup {req[c].key}
        /\ Done(c) => {k \in Live : Earlier(k, c)} \subseteq {req[c].key}

\* It has cleared the cache, and says so.
Cleared(c) ==
    /\ Changed(c) \/ Is(c, "change", "flushed")
    /\ req[c].result = "ok"

CacheEnds == \A c \in Requests : Cleared(c) /\ cache # NoEntry => ~Earlier(cache.by, c)

\* Its hash is in the committed row.
Written(c) == Changed(c) \/ Is(c, "passwd", "flushing")

\* A row whose hash is from before c, if there is one, is the work of an edit that
\* overlapped c.
Overlapped(c) == \E e \in Requests : Is(e, "edit", "done") /\ Overlap(e, c)

Behind(row, c) == row # NoAccount /\ Earlier(row.by, c) => Overlapped(c)

\* So is the committed row, and the one that an edit begun after c is to write back.
RowsFollow ==
    \A c \in Requests : Written(c) =>
        /\ Behind(account, c)
        /\ \A e \in Requests : Is(e, "edit", "read") /\ c \in ended[e] => Behind(req[e].row, c)

Complete == PastIsPast /\ SessionsEnd /\ CacheEnds /\ RowsFollow

LEMMA Comes ==
    ASSUME TypeOK, Shapes, [Next]_vars, NEW c \in Requests
    PROVE  req'[c] = req[c] \/ BeginsOf(c) \/ (GoesOnOf(c) /\ Arrives(c))
  <1>1. ASSUME NEW r \in Requests, BeginsOf(r)
        PROVE  req'[c] = req[c] \/ BeginsOf(c)
    BY <1>1, BeginsAt
  <1>2. ASSUME NEW r \in Requests, GoesOnOf(r)
        PROVE  req'[c] = req[c] \/ (GoesOnOf(c) /\ Arrives(c))
    BY <1>2, GoesOnAt
  <1>3. CASE NobodysStep
    BY <1>3, NobodyLeaves
  <1>4. CASE UNCHANGED vars
    BY <1>4 DEF vars
  <1> QED BY <1>1, <1>2, <1>3, <1>4, WhoSteps

\* When a request began does not change, and until it does nothing is over for it.
LEMMA BeginsOnce ==
    ASSUME TypeOK, Shapes, PastIsPast, [Next]_vars
    PROVE  /\ \A c \in Requests : req[c] # NotYet => ended'[c] = ended[c]
           /\ PastIsPast'
  <1>1. \A q \in Requests : Done(q) => Done(q)'
    BY RecordsAreKept DEF Done
  <1>2. ASSUME ended' = ended
        PROVE  PastIsPast'
    BY <1>1, <1>2 DEF PastIsPast
  <1>3. ASSUME NEW r \in Requests, BeginsOf(r)
        PROVE  /\ \A c \in Requests : req[c] # NotYet => ended'[c] = ended[c]
               /\ PastIsPast'
    <2>1. req[r] = NotYet /\ ended' = [ended EXCEPT ![r] = {q \in Requests : Done(q)}]
      BY <1>3, BeginsLeaves
    <2>2. ended \in [Requests -> SUBSET Requests]
      BY DEF TypeOK
    <2> QED BY <1>1, <2>1, <2>2 DEF PastIsPast
  <1>4. ASSUME NEW r \in Requests, GoesOnOf(r)
        PROVE  ended' = ended
    BY <1>4, GoesOnLeaves
  <1>5. CASE NobodysStep
    BY <1>2, <1>5, NobodyLeaves
  <1>6. CASE UNCHANGED vars
    BY <1>2, <1>6 DEF vars
  <1> QED BY <1>2, <1>3, <1>4, <1>5, <1>6, WhoSteps

\* Nothing new comes from a request that was over.
LEMMA NewIsNew ==
    ASSUME TypeOK, Shapes, [Next]_vars
    PROVE  /\ \A k \in Live' \ Live : k \in Requests /\ ~Done(k)
           /\ \/ cache' = cache \/ cache' = NoEntry
              \/ \E r \in Requests : cache'.by = r /\ ~Done(r)
  <1>1. ASSUME NEW r \in Requests, GoesOnOf(r)
        PROVE  \A k \in Live' \ Live : k \in Requests /\ ~Done(k)
    <2>1. CASE InsertKey(r)
      BY <2>1 DEF InsertKey, Live, TypeOK, Done
    <2>2. CASE Commit(r)
      BY <2>2 DEF Commit, Live
    <2>3. CASE session' = session
      BY <2>3 DEF Live
    <2> QED BY <1>1, <2>1, <2>2, <2>3, GoesOnLeaves
  <1>2. ASSUME NEW r \in Requests, GoesOnOf(r)
        PROVE  \/ cache' = cache \/ cache' = NoEntry
               \/ \E q \in Requests : cache'.by = q /\ ~Done(q)
    <2>1. ASSUME NEW up \in BOOLEAN, PassdbAnswered(r, up)
          PROVE  \/ cache' = cache \/ cache' = NoEntry
                 \/ cache'.by = r /\ ~Done(r)
      BY <2>1 DEF PassdbAnswered, Is, Done
    <2>2. ASSUME NEW c \in BOOLEAN, _flush_auth_cache(r, c) \/ PasswdFlushed(r, c)
          PROVE  cache' = cache \/ cache' = NoEntry
      BY <2>2 DEF _flush_auth_cache, PasswdFlushed, Flushed
    <2> QED BY <1>2, <2>1, <2>2, GoesOnLeaves
  <1>3. ASSUME NEW r \in Requests, BeginsOf(r)
        PROVE  Live' = Live /\ cache' = cache
    BY <1>3, BeginsLeaves DEF Live
  <1>4. CASE NobodysStep
    BY <1>4, NobodyLeaves
  <1>5. CASE UNCHANGED vars
    BY <1>5 DEF vars, stores, Live
  <1> QED BY <1>1, <1>2, <1>3, <1>4, <1>5, WhoSteps

\* What is new came from no request over before c began.
LEMMA NewIsNotEarlier ==
    ASSUME PastIsPast, NEW c \in Requests, NEW q \in Requests, ~Done(q)
    PROVE  ~Earlier(q, c)
  BY DEF PastIsPast, Earlier

LEMMA SessionsEndStep ==
    ASSUME TypeOK, Shapes, PastIsPast, SessionsEnd, [Next]_vars
    PROVE  SessionsEnd'
  <1> SUFFICES ASSUME NEW c \in Requests, req'[c].op = "change"
               PROVE  /\ req'[c].at \in {"revoked", "flushed"} =>
                            \A k \in Live' : Earlier(k, c)' =>
                                k \in req'[c].revoked \cup {req'[c].key}
                      /\ req'[c].at = "done" =>
                            \A k \in Live' : Earlier(k, c)' => k = req'[c].key
    BY Zenon DEF SessionsEnd, Done
  <1>1. CASE req'[c] = req[c]
    <2>1. req[c] # NotYet
      BY <1>1 DEF NotYet, None
    <2>2. ended'[c] = ended[c]
      BY <2>1, BeginsOnce
    <2>3. \A k \in Live' : Earlier(k, c)' => k \in Live /\ Earlier(k, c)
      BY <2>2, NewIsNew, NewIsNotEarlier DEF Earlier
    <2> QED BY <1>1, <2>3 DEF SessionsEnd, Done
  <1>2. CASE BeginsOf(c)
    BY <1>2, BeginsAt DEF None
  <1>3. CASE GoesOnOf(c) /\ Arrives(c)
    <2>1. ended' = ended
      BY <1>3, GoesOnLeaves
    <2>2. CASE req'[c].at = "revoked"
      <3>1. RevokeOthers(c)
        BY <1>3, <2>2 DEF Arrives
      <3>2. req'[c].revoked = Others(c) /\ req'[c].key = req[c].key
        BY <3>1, RevokeMoves, OthersStay DEF Moves
      <3>3. Live' = Live
        BY <3>1 DEF RevokeOthers, stores, Live
      <3> QED BY <2>2, <3>2, <3>3 DEF Others
    <2>3. CASE req'[c].at = "flushed"
      <3>1. PICK b \in BOOLEAN : _flush_auth_cache(c, b)
        BY <1>3, <2>3 DEF Arrives
      <3>2. req'[c].revoked = req[c].revoked /\ req'[c].key = req[c].key
        BY <3>1, FlushMoves, OthersStay DEF Moves
      <3>3. Live' = Live /\ req[c].at = "revoked" /\ req[c].op = "change"
        BY <3>1, StageTells DEF _flush_auth_cache, Live
      <3> QED BY <2>1, <2>3, <3>2, <3>3 DEF SessionsEnd, Earlier
    <2>4. CASE req'[c].at = "done"
      <3>1. Commit(c)
        BY <1>3, <2>4 DEF Arrives
      <3>2. req'[c] = Ended(req[c], req[c].result) /\ req[c] \in Request
        BY <3>1, CommitMoves, OthersStay, StageTells DEF Moves
      <3>3. req'[c].key = req[c].key
        <4>1. CASE req[c].result \in {"ok", "uncleared"}
          BY <3>2, <4>1 DEF Ended, Request
        <4>2. CASE req[c].result \notin {"ok", "uncleared"}
          BY <3>1, <4>2, EndsBadly DEF Commit, None
        <4> QED BY <4>1, <4>2
      <3>4. req[c].at = "flushed" /\ req[c].op = "change"
        BY <3>1, StageTells DEF Commit
      <3>5. \A k \in Live' : k \in Live /\ k \notin req[c].revoked
        BY <3>1 DEF Commit, Live
      <3> QED BY <2>1, <2>4, <3>3, <3>4, <3>5 DEF SessionsEnd, Earlier
    <2> QED BY <2>2, <2>3, <2>4
  <1> QED BY <1>1, <1>2, <1>3, Comes

LEMMA CacheEndsStep ==
    ASSUME TypeOK, Shapes, PastIsPast, CacheEnds, [Next]_vars
    PROVE  CacheEnds'
  <1> SUFFICES ASSUME NEW c \in Requests, Cleared(c)', cache' # NoEntry
               PROVE  ~Earlier(cache.by, c)'
    BY Zenon DEF CacheEnds
  <1>1. ASSUME Cleared(c), req[c] # NotYet
        PROVE  ~Earlier(cache.by, c)'
    <2>1. ended'[c] = ended[c]
      BY <1>1, BeginsOnce
    <2>2. CASE cache' = cache
      BY <1>1, <2>1, <2>2 DEF CacheEnds, Earlier
    <2>3. ASSUME NEW r \in Requests, cache'.by = r, ~Done(r)
          PROVE  ~Earlier(cache.by, c)'
      BY <2>1, <2>3, NewIsNotEarlier DEF Earlier
    <2> QED BY <2>2, <2>3, NewIsNew
  <1>2. /\ \/ req'[c].at = "done" /\ req'[c].op \in {"change", "passwd"}
           \/ req'[c].at = "flushed" /\ req'[c].op = "change"
        /\ req'[c].result = "ok"
    BY DEF Cleared, Changed, Done, Is
  <1>3. CASE req'[c] = req[c]
    <2>1. req[c] # NotYet /\ Cleared(c)
      BY <1>2, <1>3 DEF Cleared, Changed, Done, Is, NotYet, None
    <2> QED BY <1>1, <2>1
  <1>4. CASE BeginsOf(c)
    BY <1>2, <1>4, BeginsAt DEF None
  <1>5. CASE GoesOnOf(c) /\ Arrives(c)
    <2>1. CASE req'[c].at = "flushed"
      <3>1. PICK b \in BOOLEAN : _flush_auth_cache(c, b)
        BY <1>5, <2>1 DEF Arrives
      <3>2. req'[c].result = "ok" => b
        BY <3>1, FlushMoves, OthersStay DEF Moves
      <3>3. cache' = NoEntry
        BY <1>2, <3>1, <3>2 DEF _flush_auth_cache, Flushed
      <3> QED BY <3>3
    <2>2. CASE req'[c].at = "done" /\ req'[c].op = "passwd"
      <3>1. PICK b \in BOOLEAN : PasswdFlushed(c, b)
        BY <1>5, <2>2 DEF Arrives
      <3>2. req'[c] = Ended(req[c], IF b THEN "ok" ELSE "uncleared") /\ req[c] \in Request
        BY <3>1, PasswdFlushedMoves, OthersStay, StageTells DEF Moves
      <3>3. b
        BY <1>2, <3>2 DEF Ended, Request
      <3>4. cache' = NoEntry
        BY <3>1, <3>3 DEF PasswdFlushed, Flushed
      <3> QED BY <3>4
    <2>3. CASE req'[c].at = "done" /\ req'[c].op = "change"
      <3>1. Commit(c)
        BY <1>5, <2>3 DEF Arrives
      <3>2. req'[c] = Ended(req[c], req[c].result) /\ req[c] \in Request
        BY <3>1, CommitMoves, OthersStay, StageTells DEF Moves
      <3>3. req[c].result \in {"ok", "uncleared"}
        BY <2>3, <3>1, EndsBadly DEF Commit, None
      <3>4. req[c].result = "ok"
        BY <1>2, <3>2, <3>3 DEF Ended, Request
      <3>5. req[c].at = "flushed" /\ req[c].op = "change"
        BY <3>1, StageTells DEF Commit
      <3> QED BY <1>1, <3>4, <3>5 DEF Cleared, Is, NotYet
    <2> QED BY <1>2, <2>1, <2>2, <2>3
  <1> QED BY <1>3, <1>4, <1>5, Comes

LEMMA OverlappedStays ==
    ASSUME TypeOK, Shapes, PastIsPast, [Next]_vars, NEW c \in Requests, req[c] # NotYet,
           Overlapped(c)
    PROVE  Overlapped(c)'
  <1>1. PICK e \in Requests : Is(e, "edit", "done") /\ Overlap(e, c)
    BY DEF Overlapped
  <1>2. req'[e] = req[e] /\ req[e] # NotYet
    BY <1>1, RecordsAreKept DEF Is, Done, NotYet
  <1>3. ended'[e] = ended[e] /\ ended'[c] = ended[c]
    BY <1>2, BeginsOnce
  <1> QED BY <1>1, <1>2, <1>3 DEF Overlapped, Overlap, Earlier, Is

\* The committed row: unchanged, a new hash, or what an edit had read.
LEMMA RowComes ==
    ASSUME TypeOK, Shapes, [Next]_vars
    PROVE  \/ account' = account
           \/ \E r \in Requests : ~Done(r) /\ (account' # NoAccount => account'.by = r)
           \/ \E e \in Requests : WriteRow(e)
  <1>1. ASSUME NEW r \in Requests, Commit(r) \/ PasswdWritten(r)
        PROVE  ~Done(r) /\ (account' # NoAccount => account'.by = r)
    BY <1>1 DEF Commit, PasswdWritten, Is, Done, WithHash
  <1>2. ASSUME NEW r \in Requests, GoesOnOf(r)
        PROVE  account' = account \/ Commit(r) \/ PasswdWritten(r) \/ WriteRow(r)
    BY <1>2, GoesOnLeaves
  <1>3. ASSUME NEW r \in Requests, BeginsOf(r)
        PROVE  account' = account
    BY <1>3, BeginsLeaves
  <1>4. CASE NobodysStep
    BY <1>4, NobodyLeaves
  <1>5. CASE UNCHANGED vars
    BY <1>5 DEF vars, stores
  <1> QED BY <1>1, <1>2, <1>3, <1>4, <1>5, WhoSteps

\* What an edit writes has the hash of the row it read, or is its own.
LEMMA EditWrites ==
    ASSUME TypeOK, Shapes, NEW e \in Requests, WriteRow(e), account' # NoAccount
    PROVE  /\ account'.by = req[e].row.by \/ account'.by = e
           /\ req[e].row # NoAccount
  <1>1. req[e].aim \in AllEdits /\ req[e].row \in Row /\ req[e].row # NoAccount
    BY WriteRowMoves, StageTells, SessionsAssumption DEF Shape, SessionsAssumption, Request
  <1>2. account' = Edited(req[e].row, req[e].aim, e)
    BY DEF WriteRow
  <1> QED BY <1>1, <1>2 DEF Edited, AllEdits, Row

LEMMA RowsFollowStep ==
    ASSUME TypeOK, Shapes, PastIsPast, RowsFollow, [Next]_vars
    PROVE  RowsFollow'
  <1> SUFFICES ASSUME NEW c \in Requests, Written(c)'
               PROVE  /\ Behind(account, c)'
                      /\ \A e \in Requests : Is(e, "edit", "read")' /\ c \in ended'[e] =>
                             Behind(req[e].row, c)'
    BY Zenon DEF RowsFollow
  <1>1. \/ req'[c].at = "done" /\ req'[c].op \in {"change", "passwd"}
        \/ req'[c].at = "flushing" /\ req'[c].op = "passwd"
    BY DEF Written, Changed, Done, Is
  <1>2. req[c] # NotYet /\ (Written(c) \/ Commit(c) \/ PasswdWritten(c))
    <2>1. CASE req'[c] = req[c]
      BY <1>1, <2>1 DEF Written, Changed, Done, Is, NotYet, None
    <2>2. CASE BeginsOf(c)
      BY <1>1, <2>2, BeginsAt DEF None
    <2>3. CASE GoesOnOf(c) /\ Arrives(c)
      <3>1. Commit(c) \/ PasswdWritten(c) \/ \E b \in BOOLEAN : PasswdFlushed(c, b)
        BY <1>1, <2>3 DEF Arrives
      <3>2. CASE \E b \in BOOLEAN : PasswdFlushed(c, b)
        <4>1. req[c].at = "flushing"
          BY <3>2 DEF PasswdFlushed
        <4>2. req[c].op = "passwd"
          BY <4>1, StageTells
        <4> QED BY <4>1, <4>2 DEF Written, Is, NotYet
      <3> QED BY <3>1, <3>2 DEF Commit, PasswdWritten, Is, NotYet
    <2> QED BY <2>1, <2>2, <2>3, Comes
  <1>3. ended'[c] = ended[c]
    BY <1>2, BeginsOnce
  <1>4. \A row : Behind(row, c) =>
            (row # NoAccount /\ Earlier(row.by, c) => Overlapped(c)')
    BY <1>2, OverlappedStays DEF Behind
  <1>5. account' # NoAccount /\ Earlier(account'.by, c) => Overlapped(c)'
    <2>1. CASE \E e \in Requests : WriteRow(e)
      <3>1. PICK e \in Requests : WriteRow(e)
        BY <2>1
      <3>2. Is(e, "edit", "read") /\ ~Done(e) /\ ended' = ended
        BY <3>1, StageTells, GoesOnLeaves DEF WriteRow, Is, Done, GoesOnOf
      <3>3. Is(e, "edit", "done")'
        <4>1. req'[e] = Ended(req[e], "ok") /\ req[e] \in Request
          BY <3>1, WriteRowMoves, OthersStay, StageTells DEF Moves
        <4> QED BY <3>2, <4>1, EndedKeeps DEF Is
      <3>4. ~Earlier(e, c)
        BY <3>2, NewIsNotEarlier
      <3>5. CASE c \in ended[e]
        <4>1. Done(c)
          BY <3>5 DEF PastIsPast
        <4>2. Written(c)
          BY <1>2, <4>1 DEF Commit, PasswdWritten, Is, Done
        <4>3. Behind(req[e].row, c)
          BY <3>2, <3>5, <4>2 DEF RowsFollow
        <4> QED BY <1>4, <3>1, <3>4, <4>3, EditWrites
      <3>6. CASE c \notin ended[e]
        BY <1>3, <3>2, <3>3, <3>4, <3>6 DEF Overlapped, Overlap, Earlier
      <3> QED BY <3>5, <3>6
    <2>2. ASSUME NEW r \in Requests, ~Done(r), account' # NoAccount => account'.by = r
          PROVE  account' # NoAccount => ~Earlier(account'.by, c)
      BY <2>2, NewIsNotEarlier
    <2>3. CASE account' = account
      <3>1. CASE Written(c)
        BY <1>4, <2>3, <3>1 DEF RowsFollow
      <3>2. CASE Commit(c) \/ PasswdWritten(c)
        <4>1. ~Done(c) /\ (account' # NoAccount => account'.by = c)
          BY <3>2 DEF Commit, PasswdWritten, Is, Done, WithHash
        <4> QED BY <2>2, <4>1
      <3> QED BY <1>2, <3>1, <3>2
    <2> QED BY <2>1, <2>2, <2>3, RowComes
  <1>6. ASSUME NEW e \in Requests, Is(e, "edit", "read")', c \in ended'[e]
        PROVE  req'[e].row # NoAccount /\ Earlier(req'[e].row.by, c) => Overlapped(c)'
    <2>1. ASSUME Done(c)
          PROVE  Written(c)
      BY <1>2, <2>1 DEF Commit, PasswdWritten, Is, Done
    <2>2. CASE req'[e] = req[e]
      <3>1. Is(e, "edit", "read") /\ req[e] # NotYet
        BY <1>6, <2>2 DEF Is, NotYet
      <3>2. c \in ended[e] /\ Done(c)
        BY <1>6, <3>1, BeginsOnce DEF PastIsPast
      <3> QED BY <1>4, <2>1, <2>2, <3>1, <3>2 DEF RowsFollow
    <2>3. CASE BeginsOf(e)
      <3>1. req'[e].row = account
        BY <1>6, <2>3, BeginsAt DEF Is
      <3>2. Done(c)
        BY <1>6, <2>3, BeginsLeaves DEF TypeOK
      <3> QED BY <1>4, <2>1, <3>1, <3>2 DEF RowsFollow
    <2>4. CASE GoesOnOf(e) /\ Arrives(e)
      BY <1>6, <2>4 DEF Arrives, Is
    <2> QED BY <2>2, <2>3, <2>4, Comes
  <1> QED BY <1>3, <1>5, <1>6, Zenon DEF Behind, Earlier

LEMMA CompleteHolds == Spec => []Complete
  <1>1. ASSUME Init PROVE Complete
    <2>1. \A r \in Requests : req[r].op = None /\ req[r].at = "idle" /\ ended[r] = {}
      BY <1>1 DEF Init, NotYet
    <2> QED BY <2>1 DEF Complete, PastIsPast, SessionsEnd, CacheEnds, Cleared, RowsFollow,
                         Written, Changed, Is, Done, None
  <1>2. ASSUME Inv, Complete, [Next]_vars PROVE Complete'
    BY <1>2, BeginsOnce, SessionsEndStep, CacheEndsStep, RowsFollowStep DEF Inv, Complete
  <1> QED BY <1>1, <1>2, InvHolds, PTL DEF Spec

\* A password change that has answered is complete: the sessions from before it are over
\* except its own, what it says of the cache is so, and the old password is back only
\* where an edit of the account overlapped it (session.py: change_password;
\* cli/accounts.py: passwd).
THEOREM FinishedChangesHold == Spec => []ChangeIsComplete
  <1>1. ASSUME Complete PROVE ChangeIsComplete
    <2> SUFFICES ASSUME NEW c \in Requests, Changed(c)
                 PROVE  /\ req[c].op = "change" =>
                               {k \in Live : Earlier(k, c)} \subseteq {req[c].key}
                        /\ req[c].result = "ok" /\ cache # NoEntry => ~Earlier(cache.by, c)
                        /\ account.mode = "native" /\ Earlier(account.by, c) => Overlapped(c)
      BY Zenon DEF ChangeIsComplete, Overlapped
    <2>1. account.mode = "native" => account # NoAccount
      BY DEF NoAccount, None
    <2> QED BY <1>1, <2>1 DEF Complete, SessionsEnd, CacheEnds, Cleared, RowsFollow, Written,
                               Behind, Changed
  <1> QED BY <1>1, CompleteHolds, PTL

=============================================================================
