-------------------------- MODULE MailboxOpsProofs --------------------------
(***************************************************************************)
(* Theorems about the requests of a mailbox, for any number of them, of    *)
(* copies, of lost connections and of commands of the owner's mail app,    *)
(* and for servers with MOVE and without.                                  *)
(***************************************************************************)
EXTENDS MailboxOps, FiniteSetTheorems, SequenceTheorems, TLAPS

-----------------------------------------------------------------------------
(* What a request still has to do. *)

\* The commands a request may have before it.
Plans == {<<"mark">>, <<"mark", "move">>, <<"move">>, <<"copy", "store", "expunge">>,
          <<"store", "expunge">>, <<"expunge">>, <<"search">>, <<"append">>,
          <<"append", "store", "expunge">>, <<"deliver", "file">>,
          <<"deliver", "file", "answered">>, <<"file">>, <<"file", "answered">>,
          <<"answered">>}

LEMMA PlanType == Plans \subseteq Seq(Commands)
  BY DEF Plans, Commands

\* The next command, and those after it.
LEMMA Joined ==
    ASSUME NEW S, NEW s \in Seq(S), NEW t \in Seq(S), NEW u \in Seq(S),
           Len(u) = Len(s) + Len(t),
           \A i \in 1..Len(u) : u[i] = IF i <= Len(s) THEN s[i] ELSE t[i - Len(s)]
    PROVE  s \o t = u
  BY ConcatProperties, SeqEqual

LEMMA OneAndOne ==
    ASSUME NEW a \in Commands, NEW b \in Commands
    PROVE  <<a>> \o <<b>> = <<a, b>>
  <1> DEFINE s == <<a>>  t == <<b>>  u == <<a, b>>
  <1>1. /\ s \in Seq(Commands) /\ t \in Seq(Commands) /\ u \in Seq(Commands)
        /\ Len(u) = Len(s) + Len(t)
        /\ \A i \in 1..Len(u) : u[i] = IF i <= Len(s) THEN s[i] ELSE t[i - Len(s)]
    OBVIOUS
  <1> HIDE DEF s, t, u
  <1>2. s \o t = u
    BY <1>1, Joined
  <1> QED BY <1>2 DEF s, t, u

LEMMA OneAndTwo ==
    ASSUME NEW a \in Commands, NEW b \in Commands, NEW c \in Commands
    PROVE  <<a>> \o <<b, c>> = <<a, b, c>>
  <1> DEFINE s == <<a>>  t == <<b, c>>  u == <<a, b, c>>
  <1>1. /\ s \in Seq(Commands) /\ t \in Seq(Commands) /\ u \in Seq(Commands)
        /\ Len(u) = Len(s) + Len(t)
        /\ \A i \in 1..Len(u) : u[i] = IF i <= Len(s) THEN s[i] ELSE t[i - Len(s)]
    OBVIOUS
  <1> HIDE DEF s, t, u
  <1>2. s \o t = u
    BY <1>1, Joined
  <1> QED BY <1>2 DEF s, t, u

LEMMA TwoAndOne ==
    ASSUME NEW a \in Commands, NEW b \in Commands, NEW c \in Commands
    PROVE  <<a, b>> \o <<c>> = <<a, b, c>>
  <1> DEFINE s == <<a, b>>  t == <<c>>  u == <<a, b, c>>
  <1>1. /\ s \in Seq(Commands) /\ t \in Seq(Commands) /\ u \in Seq(Commands)
        /\ Len(u) = Len(s) + Len(t)
        /\ \A i \in 1..Len(u) : u[i] = IF i <= Len(s) THEN s[i] ELSE t[i - Len(s)]
    OBVIOUS
  <1> HIDE DEF s, t, u
  <1>2. s \o t = u
    BY <1>1, Joined
  <1> QED BY <1>2 DEF s, t, u

LEMMA PlanParts ==
    ASSUME NEW p \in Plans
    PROVE  /\ p # <<>> /\ Head(p) \in Commands
           /\ Tail(p) # <<>> => Tail(p) \in Plans
           /\ Head(p) = "copy" => Tail(p) = <<"store", "expunge">>
           /\ Head(p) = "store" => Tail(p) = <<"expunge">>
           /\ Head(p) \in {"move", "search"} => Tail(p) = <<>>
           /\ Tail(p) # <<>> /\ Head(Tail(p)) \in {"store", "expunge"} =>
                  Head(p) \in {"copy", "store", "append"}
  <1>1. CASE p = <<"mark">>
    BY <1>1 DEF Plans, Commands
  <1>2. CASE p = <<"mark", "move">>
    BY <1>2 DEF Plans, Commands
  <1>3. CASE p = <<"move">>
    BY <1>3 DEF Plans, Commands
  <1>4. CASE p = <<"copy", "store", "expunge">>
    BY <1>4 DEF Plans, Commands
  <1>5. CASE p = <<"store", "expunge">>
    BY <1>5 DEF Plans, Commands
  <1>6. CASE p = <<"expunge">>
    BY <1>6 DEF Plans, Commands
  <1>7. CASE p = <<"search">>
    BY <1>7 DEF Plans, Commands
  <1>8. CASE p = <<"append">>
    BY <1>8 DEF Plans, Commands
  <1>9. CASE p = <<"append", "store", "expunge">>
    BY <1>9 DEF Plans, Commands
  <1>10. CASE p = <<"deliver", "file">>
    BY <1>10 DEF Plans, Commands
  <1>11. CASE p = <<"deliver", "file", "answered">>
    BY <1>11 DEF Plans, Commands
  <1>12. CASE p = <<"file">>
    BY <1>12 DEF Plans, Commands
  <1>13. CASE p = <<"file", "answered">>
    BY <1>13 DEF Plans, Commands
  <1>14. CASE p = <<"answered">>
    BY <1>14 DEF Plans, Commands
  <1> QED BY <1>1, <1>2, <1>3, <1>4, <1>5, <1>6, <1>7, <1>8, <1>9, <1>10, <1>11, <1>12,
             <1>13, <1>14 DEF Plans

\* What an operation begins with.
LEMMA BulkPlan ==
    ASSUME NEW op \in {"flag", "move", "delete", "purge"}, NEW read \in BOOLEAN, NEW folder,
           op = "flag" => read, op \in {"delete", "purge"} => ~read
    PROVE  bulk(op, read, folder) =
               IF op = "flag" THEN <<"mark">>
               ELSE IF op = "purge" \/ (op = "delete" /\ folder = "Trash")
               THEN <<"store", "expunge">>
               ELSE IF read THEN <<"mark", "move">> ELSE <<"move">>
  <1>1. \A s \in Seq(Commands) : s \o <<>> = s /\ <<>> \o s = s
    BY ConcatEmptySeq
  <1>2. /\ <<"mark">> \in Seq(Commands) /\ <<"move">> \in Seq(Commands)
        /\ <<"store", "expunge">> \in Seq(Commands)
    BY DEF Commands
  <1>3. CASE op = "flag"
    <2>1. bulk(op, read, folder) = <<"mark">> \o <<>>
      BY <1>3 DEF bulk
    <2> QED BY <1>1, <1>2, <1>3, <2>1
  <1>4. CASE op = "move" /\ read
    <2>1. bulk(op, read, folder) = <<"mark">> \o <<"move">>
      BY <1>4 DEF bulk
    <2>2. "mark" \in Commands /\ "move" \in Commands
      BY DEF Commands
    <2> QED BY <1>4, <2>1, <2>2, OneAndOne
  <1>5. CASE op = "move" /\ ~read
    <2>1. bulk(op, read, folder) = <<>> \o <<"move">>
      BY <1>5 DEF bulk
    <2> QED BY <1>1, <1>2, <1>5, <2>1
  <1>6. CASE op = "delete" /\ folder # "Trash"
    <2>1. bulk(op, read, folder) = <<>> \o <<"move">>
      BY <1>6 DEF bulk, delete
    <2> QED BY <1>1, <1>2, <1>6, <2>1
  <1>7. CASE op = "purge" \/ (op = "delete" /\ folder = "Trash")
    <2>1. bulk(op, read, folder) = <<>> \o <<"store", "expunge">>
      BY <1>7 DEF bulk, delete, Remove
    <2> QED BY <1>1, <1>2, <1>7, <2>1
  <1> QED BY <1>3, <1>4, <1>5, <1>6, <1>7

LEMMA DraftPlan ==
    ASSUME NEW replaces \in BOOLEAN
    PROVE  save_draft(replaces) =
               IF replaces THEN <<"append", "store", "expunge">> ELSE <<"append">>
  <1>1. "append" \in Commands /\ "store" \in Commands /\ "expunge" \in Commands
    BY DEF Commands
  <1>2. CASE replaces
    BY <1>1, <1>2, OneAndTwo DEF save_draft, Remove
  <1>3. CASE ~replaces
    BY <1>1, <1>3, ConcatEmptySeq DEF save_draft
  <1> QED BY <1>2, <1>3

LEMMA SendPlan ==
    ASSUME NEW replies \in BOOLEAN
    PROVE  send_message(replies) =
               IF replies THEN <<"deliver", "file", "answered">> ELSE <<"deliver", "file">>
  <1>1. "deliver" \in Commands /\ "file" \in Commands /\ "answered" \in Commands
    BY DEF Commands
  <1>2. CASE replies
    BY <1>1, <1>2, TwoAndOne DEF send_message
  <1>3. CASE ~replies
    <2>1. <<"deliver", "file">> \in Seq(Commands)
      BY <1>1
    <2> QED BY <1>3, <2>1, ConcatEmptySeq DEF send_message
  <1> QED BY <1>2, <1>3

-----------------------------------------------------------------------------
(* Copies and their uids. *)

\* Copies that may be together in a mailbox whose highest uid is n.
Sound(copies, n) ==
    /\ copies \subseteq Copy
    /\ \A c, d \in copies : c.uid = d.uid => c = d
    /\ \A c \in copies : c.uid <= n

LEMMA SoundIsFinite ==
    ASSUME NEW copies, NEW n, Sound(copies, n)
    PROVE  IsFiniteSet(copies)
  <1> DEFINE f == [c \in copies |-> c.uid]
  <1>1. f \in Injection(copies, 1..MaxUid)
    BY DEF Sound, Copy, Injection, IsInjective
  <1>2. IsFiniteSet(1..MaxUid)
    BY FS_Interval, MailboxAssumption DEF MailboxAssumption
  <1> QED BY <1>1, <1>2, FS_Injection

\* Some copies stay as they are; others have a new form, with its old uid in their
\* place or with a new one.
Remade(copies, n, top, keep, some, f, after) ==
    /\ Sound(copies, n) /\ keep \subseteq copies /\ some \subseteq copies /\ n <= top
    /\ \A c \in some : /\ f[c] \in Copy /\ f[c].mail = c.mail /\ f[c].uid <= top
                       /\ f[c].uid > n \/ (f[c].uid = c.uid /\ c \notin keep)
    /\ \A c, d \in some : f[c].uid = f[d].uid => c = d
    /\ \A e \in after : e \in keep \/ \E c \in some : e = f[c]

LEMMA SoundAgain ==
    ASSUME NEW copies, NEW n \in Nat, NEW top \in Nat, NEW keep, NEW some, NEW f, NEW after,
           Remade(copies, n, top, keep, some, f, after)
    PROVE  Sound(after, top) /\ Mails(after) \subseteq Mails(copies)
  <1>a. Sound(copies, n) /\ keep \subseteq copies /\ some \subseteq copies /\ n <= top
    BY DEF Remade
  <1>b. \A c \in some : /\ f[c] \in Copy /\ f[c].mail = c.mail /\ f[c].uid <= top
                        /\ f[c].uid > n \/ (f[c].uid = c.uid /\ c \notin keep)
    BY DEF Remade
  <1>c. \A c, d \in some : f[c].uid = f[d].uid => c = d
    BY DEF Remade
  <1>d. \A e \in after : e \in keep \/ \E c \in some : e = f[c]
    BY DEF Remade
  <1>1. after \subseteq Copy
    BY <1>a, <1>b, <1>d DEF Sound
  <1>2. \A c \in keep : c.uid \in Int /\ c.uid <= n
    BY <1>a DEF Sound, Copy
  <1>3. \A c \in some : f[c].uid \in Int
    BY <1>b DEF Copy
  <1>4. \A c \in after : c.uid <= top
    BY <1>a, <1>b, <1>d, <1>2
  <1>5. ASSUME NEW c \in keep, NEW d \in some, c.uid = f[d].uid
        PROVE  FALSE
    BY <1>a, <1>b, <1>2, <1>3, <1>5 DEF Sound
  <1>6. ASSUME NEW c \in after, NEW d \in after, c.uid = d.uid
        PROVE  c = d
    BY <1>a, <1>c, <1>d, <1>5, <1>6 DEF Sound
  <1>7. Mails(after) \subseteq Mails(copies)
    BY <1>a, <1>b, <1>d DEF Mails
  <1> QED BY <1>1, <1>4, <1>6, <1>7 DEF Sound

\* Copies made together get uids of their own, all of them new.
Ranked(copies, c) == Cardinality({d \in copies : d.uid <= c.uid})

LEMMA RanksDiffer ==
    ASSUME NEW copies, NEW n, Sound(copies, n)
    PROVE  /\ \A c \in copies : Ranked(copies, c) \in 1..Cardinality(copies)
           /\ \A c, d \in copies : Ranked(copies, c) = Ranked(copies, d) => c = d
  <1> DEFINE upto(c) == {d \in copies : d.uid <= c.uid}
  <1>1. IsFiniteSet(copies) /\ Cardinality(copies) \in Nat
    BY SoundIsFinite, FS_CardinalityType
  <1>2. \A c \in copies : c.uid \in Int
    BY DEF Sound, Copy
  <1>3. ASSUME NEW c \in copies
        PROVE  /\ IsFiniteSet(upto(c)) /\ Cardinality(upto(c)) \in Nat
               /\ Cardinality(upto(c)) <= Cardinality(copies)
               /\ Cardinality(upto(c)) # 0
    <2>1. upto(c) \in SUBSET copies
      OBVIOUS
    <2>2. c \in upto(c)
      BY <1>2
    <2> HIDE DEF upto
    <2> QED BY <1>1, <2>1, <2>2, FS_Subset, FS_CardinalityType, FS_EmptySet
  <1>4. ASSUME NEW c \in copies, NEW d \in copies, c.uid < d.uid
        PROVE  Cardinality(upto(c)) # Cardinality(upto(d))
    <2>1. upto(c) \in SUBSET upto(d)
      BY <1>2, <1>4
    <2>2. d \in upto(d) /\ d \notin upto(c)
      BY <1>2, <1>4
    <2> HIDE DEF upto
    <2> QED BY <1>3, <2>1, <2>2, FS_Subset
  <1>5. ASSUME NEW c \in copies
        PROVE  Ranked(copies, c) \in 1..Cardinality(copies)
    <2> HIDE DEF upto
    <2>1. Cardinality(upto(c)) \in 1..Cardinality(copies)
      BY <1>1, <1>3
    <2> QED BY <2>1 DEF Ranked, upto
  <1>6. ASSUME NEW c \in copies, NEW d \in copies, Ranked(copies, c) = Ranked(copies, d)
        PROVE  c = d
    <2>1. c.uid = d.uid
      BY <1>2, <1>4, <1>6 DEF Ranked
    <2> QED BY <2>1 DEF Sound
  <1> QED BY <1>5, <1>6

LEMMA CopiesAreNew ==
    ASSUME NEW copies, last \in Nat, Sound(copies, last), NEW to \in Special,
           last + Cardinality(copies) <= MaxUid
    PROVE  \E f : /\ \A e \in Copied(copies, to) : \E c \in copies : e = f[c]
                  /\ \A c \in copies : /\ f[c] \in Copied(copies, to)
                                       /\ f[c] \in Copy /\ f[c].mail = c.mail
                                       /\ f[c].deleted = c.deleted
                                       /\ f[c].uid <= last + Cardinality(copies)
                                       /\ f[c].uid > last
                  /\ \A c, d \in copies : f[c].uid = f[d].uid => c = d
  <1> DEFINE f == [c \in copies |-> [c EXCEPT !.folder = to,
                                              !.uid = last + Ranked(copies, c)]]
  <1>1. Copied(copies, to) = {f[c] : c \in copies}
    BY DEF Copied, Ranked
  <1>2. Cardinality(copies) \in Nat
    BY SoundIsFinite, FS_CardinalityType
  <1>3. ASSUME NEW c \in copies
        PROVE  /\ f[c] \in Copy /\ f[c].mail = c.mail /\ f[c].deleted = c.deleted
               /\ f[c].uid = last + Ranked(copies, c)
    <2>1. Ranked(copies, c) \in 1..Cardinality(copies)
      BY RanksDiffer
    <2>2. last + Ranked(copies, c) \in 1..MaxUid
      BY <1>2, <2>1, MailboxAssumption DEF MailboxAssumption
    <2>3. c \in Copy
      BY DEF Sound
    <2> QED BY <2>2, <2>3 DEF Copy
  <1> HIDE DEF f
  <1>4. ASSUME NEW c \in copies
        PROVE  f[c].uid <= last + Cardinality(copies) /\ f[c].uid > last
    <2>1. Ranked(copies, c) \in 1..Cardinality(copies)
      BY RanksDiffer
    <2> QED BY <1>2, <1>3, <2>1
  <1>5. ASSUME NEW c \in copies, NEW d \in copies, f[c].uid = f[d].uid
        PROVE  c = d
    <2>1. Ranked(copies, c) \in Int /\ Ranked(copies, d) \in Int
      BY <1>2, RanksDiffer
    <2>2. last + Ranked(copies, c) = last + Ranked(copies, d)
      BY <1>3, <1>5
    <2>3. \A x, y \in Int : last + x = last + y => x = y
      OBVIOUS
    <2>4. Ranked(copies, c) = Ranked(copies, d)
      BY <2>1, <2>2, <2>3
    <2> QED BY <2>4, RanksDiffer
  <1> QED BY <1>1, <1>3, <1>4, <1>5

-----------------------------------------------------------------------------
(* What a command does to the copies. *)

\* Uids are given once, and no request names one not given yet.
Numbered ==
    /\ Sound(box, last)
    /\ \A r \in Requests : \A u \in request[r].uids : u <= last

\* A copy of the same message, no worse off, in the same place or a new one.
Heir(e, d) ==
    /\ e.mail = d.mail
    /\ e.deleted => d.deleted
    /\ (e.uid = d.uid /\ e.folder = d.folder) \/ e.uid > last

\* The command keeps the mailbox sound, makes no message but the one it is to make, and
\* leaves every copy an heir, except those it was to mark or expunge.
Proper(r, command, after) ==
    /\ Sound(after, last + Made(r, command))
    /\ \A e \in after : \/ e.mail \in Mails(box)
                        \/ /\ command \in {"append", "file"}
                           /\ e.uid = last + 1 /\ e.mail = last + 1 /\ ~e.deleted
    /\ \A d \in box : command \notin {"store", "expunge"} \/ d \notin Named(r) =>
                          \E e \in after : Heir(e, d)
    /\ command = "copy" => \A d \in Named(r) : \E e \in after : Heir(e, d) /\ e.uid > last

LEMMA NamedAreThere ==
    ASSUME TypeOK, Numbered, NEW r \in Requests
    PROVE  /\ Named(r) \subseteq box /\ Sound(Named(r), last)
           /\ IsFiniteSet(Named(r)) /\ Cardinality(Named(r)) \in Nat
           /\ last \in Nat
  <1>1. Named(r) \subseteq box /\ last \in Nat
    BY MailboxAssumption DEF Named, In, TypeOK, MailboxAssumption
  <1>2. Sound(Named(r), last)
    BY <1>1 DEF Sound, Numbered
  <1> QED BY <1>1, <1>2, SoundIsFinite, FS_CardinalityType

\* Setting a flag.
LEMMA FlagsAreProper ==
    ASSUME TypeOK, Numbered, NEW r \in Requests, NEW command \in {"mark", "answered", "store"}
    PROVE  Proper(r, command, Effect(r, command))
  <1> DEFINE f == [c \in box |->
                     CASE command = "mark"     -> [c EXCEPT !.seen = TRUE]
                       [] command = "answered" -> [c EXCEPT !.answered = TRUE]
                       [] command = "store"    -> [c EXCEPT !.deleted = TRUE]]
             after == (box \ Named(r)) \cup {f[c] : c \in Named(r)}
  <1>1. Named(r) \subseteq box /\ last \in Nat /\ Sound(box, last)
    BY NamedAreThere DEF Numbered
  <1>2. ASSUME NEW c \in box
        PROVE  /\ f[c] \in Copy /\ f[c].mail = c.mail /\ f[c].uid = c.uid
               /\ f[c].folder = c.folder
               /\ command # "store" => f[c].deleted = c.deleted
    <2>1. c \in Copy
      BY <1>1 DEF Sound
    <2> QED BY <2>1 DEF Copy
  <1>3. after = Effect(r, command)
    <2>1. CASE command = "mark"
      BY <1>1, <2>1 DEF Effect, Set
    <2>2. CASE command = "answered"
      BY <1>1, <2>2 DEF Effect, Set
    <2>3. CASE command = "store"
      BY <1>1, <2>3 DEF Effect, Set
    <2> QED BY <2>1, <2>2, <2>3
  <1> HIDE DEF f
  <1>4. \A c, d \in Named(r) : f[c].uid = f[d].uid => c = d
    BY <1>1, <1>2 DEF Sound
  <1> DEFINE keep == box \ Named(r)
  <1>5. \A c \in Named(r) : /\ f[c] \in Copy /\ f[c].mail = c.mail /\ f[c].uid <= last
                            /\ f[c].uid > last \/ (f[c].uid = c.uid /\ c \notin keep)
    BY <1>1, <1>2 DEF Sound
  <1>6. Sound(after, last) /\ Mails(after) \subseteq Mails(box)
    <2>1. \A e \in after : e \in keep \/ \E c \in Named(r) : e = f[c]
      OBVIOUS
    <2>2. keep \in SUBSET box /\ Named(r) \in SUBSET box /\ last <= last
      BY <1>1
    <2> HIDE DEF keep, after
    <2>3. Remade(box, last, last, keep, Named(r), f, after)
      BY <1>1, <1>4, <1>5, <2>1, <2>2 DEF Remade
    <2> QED BY <1>1, <2>3, SoundAgain
  <1>7. Made(r, command) = 0 /\ last + 0 = last
    BY <1>1 DEF Made
  <1>8. ASSUME NEW d \in box, command # "store" \/ d \notin Named(r)
        PROVE  \E e \in after : Heir(e, d)
    <2>1. CASE d \notin Named(r)
      BY <2>1 DEF Heir
    <2>2. CASE d \in Named(r)
      BY <1>2, <1>8, <2>2 DEF Heir
    <2> QED BY <2>1, <2>2
  <1>9. \A e \in after : e.mail \in Mails(box)
    BY <1>6 DEF Mails
  <1> HIDE DEF after
  <1> QED BY <1>3, <1>6, <1>7, <1>8, <1>9 DEF Proper

\* Moving and copying.
LEMMA CopiesAreProper ==
    ASSUME TypeOK, Numbered, NEW r \in Requests, NEW command \in {"move", "copy"},
           ~Refuses(r, command), last + Made(r, command) <= MaxUid
    PROVE  Proper(r, command, Effect(r, command))
  <1>1. /\ Named(r) \subseteq box /\ last \in Nat /\ Sound(box, last)
        /\ Sound(Named(r), last) /\ Cardinality(Named(r)) \in Nat
    BY NamedAreThere DEF Numbered
  <1>2. request[r].to \in Special
    BY DEF TypeOK, Request, Refuses
  <1>3. Made(r, command) = Cardinality(Named(r))
    BY DEF Made
  <1> DEFINE new == Copied(Named(r), request[r].to)
  <1>4. PICK f : /\ \A e \in new : \E c \in Named(r) : e = f[c]
                 /\ \A c \in Named(r) : /\ f[c] \in new
                                        /\ f[c] \in Copy /\ f[c].mail = c.mail
                                        /\ f[c].deleted = c.deleted
                                        /\ f[c].uid <= last + Cardinality(Named(r))
                                        /\ f[c].uid > last
                 /\ \A c, d \in Named(r) : f[c].uid = f[d].uid => c = d
    BY <1>1, <1>2, <1>3, CopiesAreNew
  <1> DEFINE keep == IF command = "move" THEN box \ Named(r) ELSE box
             after == keep \cup new
  <1>5. after = Effect(r, command) /\ keep \in SUBSET box
    BY <1>4 DEF Effect, Set
  <1>6. Sound(after, last + Made(r, command)) /\ Mails(after) \subseteq Mails(box)
    <2> DEFINE top == last + Made(r, command)
    <2>1. top \in Nat /\ last <= top
      BY <1>1, <1>3
    <2>2. \A c \in Named(r) : /\ f[c] \in Copy /\ f[c].mail = c.mail /\ f[c].uid <= top
                              /\ f[c].uid > last \/ (f[c].uid = c.uid /\ c \notin keep)
      BY <1>3, <1>4
    <2>3. \A e \in after : e \in keep \/ \E c \in Named(r) : e = f[c]
      BY <1>4
    <2>4. Named(r) \in SUBSET box
      BY <1>1
    <2> HIDE DEF keep, new, after, top
    <2>5. Remade(box, last, top, keep, Named(r), f, after)
      BY <1>1, <1>4, <1>5, <2>1, <2>2, <2>3, <2>4 DEF Remade
    <2>6. Sound(after, top) /\ Mails(after) \subseteq Mails(box)
      BY <1>1, <2>1, <2>5, SoundAgain
    <2> QED BY <2>6 DEF top
  <1>7. ASSUME NEW d \in Named(r)
        PROVE  \E e \in after : Heir(e, d) /\ e.uid > last
    BY <1>4 DEF Heir
  <1>8. ASSUME NEW d \in box
        PROVE  \E e \in after : Heir(e, d)
    <2>1. CASE d \in Named(r)
      BY <1>7, <2>1
    <2>2. CASE d \notin Named(r)
      BY <2>2 DEF Heir
    <2> QED BY <2>1, <2>2
  <1>9. \A e \in after : e.mail \in Mails(box)
    BY <1>6 DEF Mails
  <1> HIDE DEF after
  <1> QED BY <1>5, <1>6, <1>7, <1>8, <1>9 DEF Proper

\* Expunging, and the commands that leave the copies alone.
LEMMA RemovalsAreProper ==
    ASSUME TypeOK, Numbered, NEW r \in Requests,
           NEW command \in {"expunge", "search", "deliver"}
    PROVE  Proper(r, command, Effect(r, command))
  <1> DEFINE after == Effect(r, command)
  <1>1. last \in Nat /\ Sound(box, last)
    BY NamedAreThere DEF Numbered
  <1>2. after \subseteq box /\ (command # "expunge" => after = box)
    BY DEF Effect
  <1>3. \A d \in box : d \notin Named(r) => d \in after
    BY DEF Effect, Expunged
  <1>4. Made(r, command) = 0 /\ last + 0 = last
    BY <1>1 DEF Made
  <1> HIDE DEF after
  <1>5. Sound(after, last)
    BY <1>1, <1>2 DEF Sound
  <1>6. \A e \in after : e.mail \in Mails(box)
    BY <1>2 DEF Mails
  <1>7. \A d \in box : command # "expunge" \/ d \notin Named(r) =>
                           \E e \in after : Heir(e, d)
    BY <1>2, <1>3 DEF Heir
  <1>8. Proper(r, command, after)
    BY <1>4, <1>5, <1>6, <1>7 DEF Proper
  <1> QED BY <1>8 DEF after

\* A new message.
LEMMA NewMailIsProper ==
    ASSUME TypeOK, Numbered, NEW r \in Requests, NEW command \in {"append", "file"},
           last + Made(r, command) <= MaxUid
    PROVE  Proper(r, command, Effect(r, command))
  <1> DEFINE folder == IF command = "append" THEN "Drafts" ELSE "Sent"
             new == Fresh(folder, last + 1)
             after == box \cup {new}
  <1>1. last \in Nat /\ Sound(box, last)
    BY NamedAreThere DEF Numbered
  <1>2. Made(r, command) = 1
    BY DEF Made
  <1>3. Effect(r, command) = after
    BY DEF Effect
  <1>4. /\ new.uid = last + 1 /\ new.mail = last + 1 /\ new.deleted = FALSE
        /\ new \in Copy
    BY <1>1, <1>2, MailboxAssumption DEF Fresh, Copy, Special, MailboxAssumption
  <1> HIDE DEF new
  <1>5. \A c \in box : c.uid \in Int /\ c.uid <= last /\ c \in Copy
    BY <1>1 DEF Sound, Copy
  <1>6. Sound(after, last + 1)
    BY <1>1, <1>4, <1>5 DEF Sound
  <1>7. \A e \in after : e.mail \in Mails(box) \/ e = new
    BY DEF Mails
  <1>8. \A d \in box : \E e \in after : Heir(e, d)
    BY DEF Heir
  <1> HIDE DEF after
  <1> QED BY <1>2, <1>3, <1>4, <1>6, <1>7, <1>8 DEF Proper

LEMMA CommandsAreProper ==
    ASSUME TypeOK, Numbered, NEW r \in Requests, NEW command \in Commands,
           ~Refuses(r, command), last + Made(r, command) <= MaxUid
    PROVE  /\ Proper(r, command, Effect(r, command))
           /\ last \in Nat /\ Made(r, command) \in Nat
  <1>1. Proper(r, command, Effect(r, command))
    BY FlagsAreProper, CopiesAreProper, RemovalsAreProper, NewMailIsProper DEF Commands
  <1>2. last \in Nat /\ Made(r, command) \in Nat
    BY NamedAreThere DEF Made
  <1> QED BY <1>1, <1>2

-----------------------------------------------------------------------------
(* The requests. *)

Planned == \A r \in Requests : Active(r) => request[r].todo \in Plans

\* The next command of r marks what it names \Deleted, or expunges it.
Removing(r) == Active(r) /\ Head(request[r].todo) \in {"store", "expunge"}

Names(r, c) == c.folder = request[r].folder /\ c.uid \in request[r].uids

\* Two records that differ at most in who has touched the mailbox, and in history.
Alike(p, q) ==
    /\ p.op = q.op /\ p.todo = q.todo /\ p.folder = q.folder /\ p.uids = q.uids
    /\ p.to = q.to /\ p.answer = q.answer

\* Only request r makes a step.
Only(r) ==
    /\ request' \in [Requests -> Request]
    /\ \A p \in Requests \ {r} : Alike(request'[p], request[p])

LEMMA NoRequestType == NoRequest \in Request
  <1>1. <<>> \in Seq(Commands) /\ 0 \in 0..MaxUid
    BY MailboxAssumption DEF MailboxAssumption
  <1> QED BY <1>1 DEF NoRequest, Request, AllOperations, Special, Answers

LEMMA AnsweredType ==
    ASSUME NEW q \in Request, NEW answer \in Answers
    PROVE  /\ Answered(q, answer) \in Request
           /\ Answered(q, answer).answer = answer /\ Answered(q, answer).uids = {}
  BY NoRequestType DEF Answered, Request, NoRequest

LEMMA OthersAlike ==
    ASSUME NEW r \in Requests, NEW req \in [Requests -> Request]
    PROVE  /\ Others(r, req) \in [Requests -> Request]
           /\ Others(r, req)[r] = req[r]
           /\ \A p \in Requests : Alike(Others(r, req)[p], req[p])
  <1>1. ASSUME NEW q \in Request
        PROVE  [q EXCEPT !.alone = FALSE] \in Request /\ Alike([q EXCEPT !.alone = FALSE], q)
    BY DEF Request, Alike
  <1>2. \A p \in Requests : Others(r, req)[p] \in Request /\ Alike(Others(r, req)[p], req[p])
    BY <1>1 DEF Others, Alike
  <1> QED BY <1>2 DEF Others

\* What a request that begins looks like.
Begun(r, new) ==
    /\ Only(r) /\ Alike(request'[r], new) /\ new \in Request /\ ~Active(r)
    /\ UNCHANGED <<has_move, box, last, mails, marked, sent, faults, app>>

LEMMA OpenBegins ==
    ASSUME TypeOK, NEW r \in Requests, NEW new \in Request, Open(r, new)
    PROVE  Begun(r, new)
  <1> DEFINE new2 == [new EXCEPT !.found = {c \in In(new.folder) : c.uid \in new.uids}]
  <1>1. {c \in In(new.folder) : c.uid \in new.uids} \subseteq Copy
    BY DEF In, TypeOK
  <1>2. new2 \in Request /\ Alike(new2, new)
    BY <1>1 DEF Request, Alike
  <1>3. request' = [request EXCEPT ![r] = new2] /\ ~Active(r)
    BY DEF Open, Active
  <1> HIDE DEF new2
  <1> QED BY <1>2, <1>3 DEF Begun, Only, Open, TypeOK, Alike

LEMMA UidsAreOld ==
    ASSUME TypeOK, Numbered, NEW copies \in SUBSET box
    PROVE  /\ {c.uid : c \in copies} \subseteq 1..MaxUid
           /\ \A u \in {c.uid : c \in copies} : u <= last
  BY DEF TypeOK, Copy, Numbered, Sound

\* How a request begins: with a plan, naming copies there are, and not to remove any at
\* once that are not unwanted.
BeginsWell(r) ==
    \E new : /\ Begun(r, new)
             /\ new.todo \in Plans
             /\ \A u \in new.uids : u <= last
             /\ Head(new.todo) \in {"store", "expunge"} =>
                    Mails({c \in In(new.folder) : c.uid \in new.uids}) \subseteq unwanted'
             /\ unwanted \subseteq unwanted' /\ unwanted' \subseteq unwanted \cup Mails(box)

LEMMA BulkBegins ==
    ASSUME TypeOK, Numbered, NEW r \in Requests,
           NEW op \in {"flag", "move", "delete", "purge"}, NEW read \in BOOLEAN,
           NEW folder \in Special, NEW to \in Destinations,
           NEW uids \in SUBSET {c.uid : c \in In(folder)}, Bulk(r, op, read, folder, uids, to)
    PROVE  BeginsWell(r)
  <1> DEFINE new == [NoRequest EXCEPT !.op = op, !.todo = bulk(op, read, folder), !.read = read,
                                      !.folder = folder, !.uids = uids, !.to = to]
             plan == bulk(op, read, folder)
  <1>1. plan = IF op = "flag" THEN <<"mark">>
               ELSE IF op = "purge" \/ (op = "delete" /\ folder = "Trash")
               THEN <<"store", "expunge">>
               ELSE IF read THEN <<"mark", "move">> ELSE <<"move">>
    BY BulkPlan DEF Bulk
  <1>2. plan \in Plans /\ plan \in Seq(Commands)
    BY <1>1, PlanType DEF Plans
  <1>3. In(folder) \subseteq box
    BY DEF In
  <1>4. uids \subseteq 1..MaxUid /\ \A u \in uids : u <= last
    BY <1>3, UidsAreOld
  <1>5. to \in Special \cup {Nowhere} /\ op \in AllOperations
    BY MailboxAssumption DEF MailboxAssumption, AllOperations
  <1> HIDE DEF plan
  <1>6. /\ new \in Request /\ new.todo = plan /\ new.uids = uids /\ new.folder = folder
    BY <1>2, <1>4, <1>5, NoRequestType DEF NoRequest, Request, plan
  <1>7. Open(r, new)
    BY DEF Bulk
  <1> HIDE DEF new
  <1>8. Begun(r, new)
    BY <1>6, <1>7, OpenBegins
  <1>9. Head(plan) \in {"store", "expunge"} =>
            op = "purge" \/ (op = "delete" /\ folder = "Trash")
    <2>1. Head(<<"mark">>) = "mark" /\ Head(<<"mark", "move">>) = "mark"
          /\ Head(<<"move">>) = "move"
      OBVIOUS
    <2> QED BY <1>1, <2>1
  <1>10. /\ Head(plan) \in {"store", "expunge"} =>
                Mails({c \in In(folder) : c.uid \in uids}) \subseteq unwanted'
         /\ unwanted \subseteq unwanted' /\ unwanted' \subseteq unwanted \cup Mails(box)
    BY <1>1, <1>3, <1>9 DEF Bulk, Mails
  <1> QED BY <1>2, <1>4, <1>6, <1>8, <1>10 DEF BeginsWell

LEMMA EmptyBegins ==
    ASSUME TypeOK, NEW r \in Requests, Empty(r)
    PROVE  BeginsWell(r)
  <1> DEFINE new == [NoRequest EXCEPT !.op = "empty", !.todo = <<"search">>, !.folder = "Trash"]
  <1>1. <<"search">> \in Plans /\ <<"search">> \in Seq(Commands) /\ Head(<<"search">>) = "search"
    BY PlanType DEF Plans
  <1>2. /\ new \in Request /\ new.todo = <<"search">> /\ new.uids = {}
    BY <1>1, NoRequestType DEF NoRequest, Request, AllOperations, Special
  <1>3. Open(r, new) /\ unwanted' = unwanted
    BY DEF Empty
  <1> HIDE DEF new
  <1>4. Begun(r, new)
    BY <1>2, <1>3, OpenBegins
  <1> QED BY <1>1, <1>2, <1>3, <1>4 DEF BeginsWell

LEMMA DraftBegins ==
    ASSUME TypeOK, Numbered, NEW r \in Requests, NEW replaced, Draft(r, replaced)
    PROVE  BeginsWell(r)
  <1> DEFINE new == [NoRequest EXCEPT !.op = "draft", !.todo = save_draft(replaced # {}),
                                      !.folder = "Drafts", !.uids = replaced]
             plan == save_draft(replaced # {})
  <1>1. plan \in {<<"append">>, <<"append", "store", "expunge">>}
    BY DraftPlan
  <1>2. plan \in Plans /\ plan \in Seq(Commands) /\ Head(plan) = "append"
    <2>1. \A p \in {<<"append">>, <<"append", "store", "expunge">>} : p \in Plans
      BY DEF Plans
    <2>2. \A p \in {<<"append">>, <<"append", "store", "expunge">>} : Head(p) = "append"
      OBVIOUS
    <2> HIDE DEF plan
    <2> QED BY <1>1, <2>1, <2>2, PlanType
  <1>3. replaced \subseteq 1..MaxUid /\ \A u \in replaced : u <= last
    <2>1. \A c \in In("Drafts") : c \in box /\ c.uid \in 1..MaxUid /\ c.uid <= last
      BY DEF In, TypeOK, Copy, Numbered, Sound
    <2> QED BY <2>1 DEF Draft
  <1> HIDE DEF plan
  <1>4. /\ new \in Request /\ new.todo = plan /\ new.uids = replaced
    BY <1>2, <1>3, NoRequestType DEF NoRequest, Request, plan, AllOperations, Special
  <1>5. Open(r, new) /\ unwanted' = unwanted
    BY DEF Draft
  <1> HIDE DEF new
  <1>6. Begun(r, new)
    BY <1>4, <1>5, OpenBegins
  <1> QED BY <1>2, <1>3, <1>4, <1>5, <1>6 DEF BeginsWell

LEMMA SendBegins ==
    ASSUME TypeOK, Numbered, NEW r \in Requests, NEW answered, Send(r, answered)
    PROVE  BeginsWell(r)
  <1> DEFINE new == [NoRequest EXCEPT !.op = "send", !.todo = send_message(answered # {}),
                                      !.uids = answered]
             plan == send_message(answered # {})
  <1>1. plan \in {<<"deliver", "file">>, <<"deliver", "file", "answered">>}
    BY SendPlan
  <1>2. plan \in Plans /\ plan \in Seq(Commands) /\ Head(plan) = "deliver"
    <2>1. \A p \in {<<"deliver", "file">>, <<"deliver", "file", "answered">>} : p \in Plans
      BY DEF Plans
    <2>2. \A p \in {<<"deliver", "file">>, <<"deliver", "file", "answered">>} : Head(p) = "deliver"
      OBVIOUS
    <2> HIDE DEF plan
    <2> QED BY <1>1, <2>1, <2>2, PlanType
  <1>3. answered \subseteq 1..MaxUid /\ \A u \in answered : u <= last
    <2>1. \A c \in In("INBOX") : c \in box /\ c.uid \in 1..MaxUid /\ c.uid <= last
      BY DEF In, TypeOK, Copy, Numbered, Sound
    <2> QED BY <2>1 DEF Send
  <1> HIDE DEF plan
  <1>4. /\ new \in Request /\ new.todo = plan /\ new.uids = answered
    BY <1>2, <1>3, NoRequestType DEF NoRequest, Request, plan, AllOperations
  <1>5. Open(r, new) /\ unwanted' = unwanted
    BY DEF Send
  <1> HIDE DEF new
  <1>6. Begun(r, new)
    BY <1>4, <1>5, OpenBegins
  <1> QED BY <1>2, <1>3, <1>4, <1>5, <1>6 DEF BeginsWell

-----------------------------------------------------------------------------
(* Nothing vanishes. *)

\* A copy nobody is about to remove: no request names it for that, and if it is marked
\* \Deleted, the owner's app has marked it.
Safe(c) ==
    /\ c.deleted => c.mail \in marked
    /\ \A r \in Requests : Removing(r) => ~Names(r, c)

\* Each message not unwanted has such a copy.
Unharmed ==
    /\ Mails(box) \subseteq mails
    /\ \A m \in mails \ unwanted : \E c \in box : c.mail = m /\ Safe(c)

Inv == TypeOK /\ Planned /\ Numbered /\ Unharmed

LEMMA AlikeRemoves ==
    ASSUME NEW p \in Requests, Alike(request'[p], request[p]), NEW c
    PROVE  /\ Active(p)' <=> Active(p)
           /\ Removing(p)' <=> Removing(p)
           /\ (c.folder = request'[p].folder /\ c.uid \in request'[p].uids) <=> Names(p, c)
  BY DEF Alike, Active, Removing, Names

\* An heir of a safe copy is safe from the requests that did not move.
LEMMA HeirIsSafe ==
    ASSUME TypeOK, Numbered, NEW r \in Requests,
           \A p \in Requests \ {r} : Alike(request'[p], request[p]),
           marked \subseteq marked', NEW d \in box, Safe(d), NEW e, Heir(e, d), e.uid \in Int,
           Removing(r)' => ~(e.folder = request'[r].folder /\ e.uid \in request'[r].uids)
    PROVE  Safe(e)'
  <1>1. e.deleted => e.mail \in marked'
    BY DEF Heir, Safe
  <1>2. ASSUME NEW p \in Requests, p # r, Removing(p)'
        PROVE  ~(e.folder = request'[p].folder /\ e.uid \in request'[p].uids)
    <2>1. Removing(p)
      BY <1>2, AlikeRemoves
    <2>2. ~Names(p, d)
      BY <2>1 DEF Safe
    <2>3. ~Names(p, e)
      <3>1. CASE e.uid = d.uid /\ e.folder = d.folder
        BY <2>2, <3>1 DEF Names
      <3>2. CASE e.uid > last
        <4>1. \A u \in request[p].uids : u \in Int /\ u <= last
          BY DEF Numbered, TypeOK, Request
        <4>2. last \in Int
          BY DEF TypeOK
        <4> QED BY <3>2, <4>1, <4>2 DEF Names
      <3> QED BY <3>1, <3>2 DEF Heir
    <2> QED BY <1>2, <2>3, AlikeRemoves
  <1> QED BY <1>1, <1>2 DEF Safe, Names

LEMMA BeginsStep ==
    ASSUME Inv, NEW r \in Requests, BeginsWell(r)
    PROVE  Inv'
  <1>1. PICK new : /\ Begun(r, new)
                   /\ new.todo \in Plans
                   /\ \A u \in new.uids : u <= last
                   /\ Head(new.todo) \in {"store", "expunge"} =>
                          Mails({c \in In(new.folder) : c.uid \in new.uids}) \subseteq unwanted'
                   /\ unwanted \subseteq unwanted' /\ unwanted' \subseteq unwanted \cup Mails(box)
    BY DEF BeginsWell
  <1>2. /\ Only(r) /\ Alike(request'[r], new)
        /\ UNCHANGED <<has_move, box, last, mails, marked, sent, faults, app>>
    BY <1>1 DEF Begun
  <1>3. TypeOK /\ Planned /\ Numbered /\ Unharmed
    BY DEF Inv
  <1>4. TypeOK'
    <2>1. Mails(box) \subseteq 1..MaxUid
      BY <1>3 DEF TypeOK, Copy, Mails
    <2> QED BY <1>1, <1>2, <1>3, <2>1 DEF TypeOK, Only
  <1>5. Planned'
    <2>1. \A p \in Requests \ {r} : Active(p)' => request'[p].todo \in Plans
      BY <1>2, <1>3 DEF Only, Alike, Active, Planned
    <2> QED BY <1>1, <1>2, <2>1 DEF Planned, Alike
  <1>6. Numbered'
    BY <1>1, <1>2, <1>3 DEF Numbered, Only, Alike
  <1>7. Unharmed'
    <2> SUFFICES ASSUME NEW m \in mails \ unwanted, m \notin unwanted'
                 PROVE  \E c \in box : c.mail = m /\ Safe(c)'
      BY <1>1, <1>2, <1>3 DEF Unharmed
    <2>1. PICK d \in box : d.mail = m /\ Safe(d)
      BY <1>3 DEF Unharmed
    <2>2. Heir(d, d) /\ d.uid \in Int
      BY <1>3 DEF Heir, TypeOK, Copy
    <2>3. Removing(r)' => ~(d.folder = request'[r].folder /\ d.uid \in request'[r].uids)
      <3> SUFFICES ASSUME Removing(r)', d.folder = new.folder, d.uid \in new.uids
                   PROVE  FALSE
        BY <1>2 DEF Alike
      <3>1. Head(new.todo) \in {"store", "expunge"}
        BY <1>2 DEF Removing, Alike
      <3>2. d \in {c \in In(new.folder) : c.uid \in new.uids}
        BY DEF In
      <3> QED BY <1>1, <2>1, <3>1, <3>2 DEF Mails
    <2>4. Safe(d)'
      BY <1>2, <1>3, <2>1, <2>2, <2>3, HeirIsSafe DEF Only
    <2> QED BY <2>1, <2>4
  <1> QED BY <1>4, <1>5, <1>6, <1>7 DEF Inv

LEMMA RestIsPlanned ==
    ASSUME NEW r \in Requests, request[r].todo \in Plans,
           NEW command, command = Head(request[r].todo)
    PROVE  LET rest == Rest(r, command)
           IN  /\ command \in Commands
               /\ rest \in Seq(Commands)
               /\ rest # <<>> => rest \in Plans
               /\ rest # <<>> /\ Head(rest) \in {"store", "expunge"} =>
                      command \in {"copy", "store", "append", "search"}
  <1> DEFINE todo == request[r].todo
  <1>1. /\ todo \in Plans /\ command \in Commands
        /\ Tail(todo) # <<>> => Tail(todo) \in Plans
        /\ command \in {"move", "search"} => Tail(todo) = <<>>
        /\ Tail(todo) # <<>> /\ Head(Tail(todo)) \in {"store", "expunge"} =>
               command \in {"copy", "store", "append"}
    BY PlanParts
  <1>2. <<>> \in Seq(Commands) /\ Plans \subseteq Seq(Commands)
    BY PlanType
  <1>3. CASE command = "move" /\ Refuses(r, command)
    <2>1. Fallback \in Plans /\ Head(Fallback) = "copy" /\ Fallback # <<>>
      BY DEF Fallback, Plans
    <2>2. Rest(r, command) = Fallback \o <<>>
      BY <1>1, <1>3 DEF Rest
    <2>3. Rest(r, command) = Fallback
      BY <1>2, <2>1, <2>2, ConcatEmptySeq
    <2> QED BY <1>1, <1>2, <2>1, <2>3
  <1>4. CASE command = "search" /\ In(request[r].folder) # {}
    <2>1. Remove \in Plans
      BY DEF Remove, Plans
    <2>2. Rest(r, command) = Remove
      BY <1>4 DEF Rest
    <2> QED BY <1>1, <1>2, <1>4, <2>1, <2>2
  <1>5. CASE ~(command = "move" /\ Refuses(r, command))
             /\ ~(command = "search" /\ In(request[r].folder) # {})
    <2>1. Rest(r, command) = Tail(todo)
      BY <1>5 DEF Rest
    <2> HIDE DEF todo
    <2> QED BY <1>1, <1>2, <2>1
  <1> QED BY <1>3, <1>4, <1>5

\* How a request goes on: answered, or with the rest of its plan, naming what it named or
\* what its search has found.
LEMMA StepMoves ==
    ASSUME Inv, NEW r \in Requests, Step(r), NEW command, command = Head(request[r].todo)
    PROVE  /\ Active(r) /\ command \in Commands
           /\ Only(r)
           /\ Active(r)' => request'[r].todo \in Plans
           /\ request'[r].uids \subseteq
                  request[r].uids \cup {c.uid : c \in In(request[r].folder)}
           /\ Removing(r)' => /\ command \in {"copy", "store", "append", "search"}
                              /\ command = "copy" => ~Refuses(r, command)
                              /\ request'[r].folder = request[r].folder
                              /\ command # "search" => request'[r].uids = request[r].uids
  <1> DEFINE rest == Rest(r, command)
             uids == IF command = "search" THEN {c.uid : c \in In(request[r].folder)}
                                           ELSE request[r].uids
             mail == IF command \in {"append", "file"} THEN last + 1 ELSE request[r].mail
             onward == [request[r] EXCEPT !.todo = rest, !.uids = uids, !.mail = mail]
             new == IF command = "copy" /\ Refuses(r, command)
                    THEN Answered(request[r], "refused")
                    ELSE IF rest = <<>> THEN Answered(onward, "ok") ELSE onward
  <1>1. /\ TypeOK /\ Numbered /\ Active(r) /\ request[r].todo \in Plans
        /\ request[r] \in Request /\ request \in [Requests -> Request]
        /\ last + Made(r, command) <= MaxUid /\ last \in Nat
    BY NamedAreThere DEF Inv, Step, Planned, TypeOK
  <1>2. /\ command \in Commands /\ rest \in Seq(Commands)
        /\ rest # <<>> => rest \in Plans
        /\ rest # <<>> /\ Head(rest) \in {"store", "expunge"} =>
               command \in {"copy", "store", "append", "search"}
    BY <1>1, RestIsPlanned
  <1>3. request' = Others(r, [request EXCEPT ![r] = new])
    BY DEF Step
  <1>4. uids \subseteq 1..MaxUid /\ mail \in 0..MaxUid
    <2>1. In(request[r].folder) \in SUBSET box
      BY DEF In
    <2>2. {c.uid : c \in In(request[r].folder)} \subseteq 1..MaxUid
      BY <1>1, <2>1, UidsAreOld
    <2>3. request[r].uids \subseteq 1..MaxUid /\ request[r].mail \in 0..MaxUid
      BY <1>1 DEF Request
    <2>4. command \in {"append", "file"} => Made(r, command) = 1
      BY DEF Made
    <2> QED BY <1>1, <2>2, <2>3, <2>4, MailboxAssumption DEF MailboxAssumption
  <1> HIDE DEF rest, uids, mail
  <1>5. /\ onward \in Request /\ onward.todo = rest /\ onward.uids = uids
        /\ onward.folder = request[r].folder
    BY <1>1, <1>2, <1>4 DEF Request
  <1> HIDE DEF onward
  <1>6. "refused" \in Answers /\ "ok" \in Answers
    BY DEF Answers
  <1>7. /\ Answered(request[r], "refused") \in Request
        /\ Answered(request[r], "refused").answer = "refused"
        /\ Answered(request[r], "refused").uids = {}
    BY <1>1, <1>6, AnsweredType
  <1>8. /\ Answered(onward, "ok") \in Request
        /\ Answered(onward, "ok").answer = "ok" /\ Answered(onward, "ok").uids = {}
    BY <1>5, <1>6, AnsweredType
  <1>9. /\ new \in Request
        /\ \/ new = onward /\ rest # <<>> /\ ~(command = "copy" /\ Refuses(r, command))
           \/ new.answer # "none" /\ new.uids = {}
    BY <1>5, <1>7, <1>8
  <1> HIDE DEF new
  <1> DEFINE req == [request EXCEPT ![r] = new]
  <1>10. req \in [Requests -> Request] /\ req[r] = new
         /\ \A p \in Requests \ {r} : req[p] = request[p]
    BY <1>1, <1>9
  <1> HIDE DEF req
  <1>11. Only(r) /\ request'[r] = new
    BY <1>3, <1>10, OthersAlike DEF Only, req
  <1>12. Active(r)' => new = onward /\ rest # <<>> /\ ~(command = "copy" /\ Refuses(r, command))
    BY <1>9, <1>11 DEF Active
  <1>13. request'[r].uids \subseteq
             request[r].uids \cup {c.uid : c \in In(request[r].folder)}
    BY <1>5, <1>9, <1>11 DEF uids
  <1>14. Removing(r)' => Active(r)' /\ Head(request'[r].todo) \in {"store", "expunge"}
    BY DEF Removing
  <1>15. Removing(r)' => /\ command \in {"copy", "store", "append", "search"}
                         /\ command = "copy" => ~Refuses(r, command)
                         /\ request'[r].folder = request[r].folder
                         /\ command # "search" => request'[r].uids = request[r].uids
    BY <1>2, <1>5, <1>11, <1>12, <1>14 DEF uids
  <1> QED BY <1>1, <1>2, <1>5, <1>11, <1>12, <1>13, <1>15

\* What a command, carried out or not, leaves.
Settled(r, command) ==
    /\ Sound(box', last') /\ last' \in 0..MaxUid /\ last <= last'
    /\ \A e \in box' : e.mail \in Mails(box) \/ (e.uid = last + 1 /\ ~e.deleted)
    /\ \A d \in box : command \notin {"store", "expunge"} \/ d \notin Named(r) =>
                          \E e \in box' : Heir(e, d)

LEMMA CommandSettles ==
    ASSUME TypeOK, Numbered, NEW r \in Requests, NEW command \in Commands,
           \/ /\ ~Refuses(r, command) /\ last + Made(r, command) <= MaxUid
              /\ box' = Effect(r, command) /\ last' = last + Made(r, command)
           \/ box' = box /\ last' = last
    PROVE  Settled(r, command)
  <1>1. ASSUME ~Refuses(r, command), last + Made(r, command) <= MaxUid,
               box' = Effect(r, command), last' = last + Made(r, command)
        PROVE  Settled(r, command)
    <2>1. Proper(r, command, box') /\ last \in Nat /\ Made(r, command) \in Nat
      BY <1>1, CommandsAreProper
    <2>2. last' \in 0..MaxUid /\ last <= last'
      BY <1>1, <2>1, MailboxAssumption DEF MailboxAssumption
    <2> QED BY <1>1, <2>1, <2>2 DEF Proper, Settled
  <1>2. ASSUME box' = box, last' = last
        PROVE  Settled(r, command)
    <2>1. last \in Nat /\ last \in 0..MaxUid
      BY NamedAreThere DEF TypeOK
    <2>2. \A d \in box : Heir(d, d) /\ d.mail \in Mails(box)
      BY DEF Heir, Mails
    <2> QED BY <1>2, <2>1, <2>2 DEF Settled, Numbered
  <1> QED BY <1>1, <1>2

\* Everything but the safe copies, after a command.
LEMMA CommandKeepsTypes ==
    ASSUME Inv, NEW r \in Requests, NEW command, Settled(r, command), Only(r),
           has_move' = has_move, marked' = marked, sent' \subseteq sent \cup {r},
           mails' = mails \cup Mails(box'), unwanted' \subseteq unwanted \cup Mails(box),
           faults' \in 0..MaxFaults, app' = app,
           Active(r)' => request'[r].todo \in Plans,
           request'[r].uids \subseteq request[r].uids \cup {c.uid : c \in In(request[r].folder)}
    PROVE  /\ TypeOK' /\ Planned' /\ Numbered'
           /\ \A p \in Requests : \A u \in request'[p].uids : u <= last
  <1>1. TypeOK /\ Planned /\ Numbered /\ Unharmed /\ last \in Nat
    BY NamedAreThere DEF Inv
  <1>2. box' \subseteq Copy /\ \A c, d \in box' : c.uid = d.uid => c = d
    BY DEF Settled, Sound
  <1>3. Mails(box') \subseteq 1..MaxUid /\ Mails(box) \subseteq 1..MaxUid
    BY <1>1, <1>2 DEF Mails, Copy, TypeOK
  <1>4. TypeOK'
    BY <1>1, <1>2, <1>3 DEF TypeOK, Only, Settled
  <1>5. Planned'
    BY <1>1 DEF Planned, Only, Alike, Active
  <1>6. \A p \in Requests : \A u \in request'[p].uids : u <= last
    <2>1. \A u \in {c.uid : c \in In(request[r].folder)} : u <= last
      BY <1>1, UidsAreOld DEF In
    <2> QED BY <1>1, <2>1 DEF Only, Alike, Numbered
  <1>7. Numbered'
    <2>1. \A p \in Requests : \A u \in request'[p].uids : u \in Int
      BY <1>4 DEF TypeOK, Request
    <2>2. last' \in Int /\ last <= last' /\ Sound(box', last')
      BY DEF Settled
    <2> QED BY <1>1, <1>6, <2>1, <2>2 DEF Numbered
  <1> QED BY <1>4, <1>5, <1>6, <1>7

\* A message a command made is safe.
LEMMA NewIsSafe ==
    ASSUME last \in Nat, NEW e, e.uid = last + 1, ~e.deleted,
           \A p \in Requests : \A u \in request'[p].uids : u <= last
    PROVE  Safe(e)'
  <1>1. \A p \in Requests : e.uid \notin request'[p].uids
    OBVIOUS
  <1> QED BY <1>1 DEF Safe, Names

\* A command keeps a safe copy of every message, if it keeps one of each that there was.
LEMMA CommandKeepsSafe ==
    ASSUME Inv, NEW r \in Requests, NEW command, Settled(r, command), Only(r),
           marked' = marked, mails' = mails \cup Mails(box'), unwanted \subseteq unwanted',
           \A p \in Requests : \A u \in request'[p].uids : u <= last,
           command \in {"store", "expunge"} => Removing(r),
           \A d \in box : Safe(d) /\ d.mail \notin unwanted' =>
               \E e \in box' : /\ Heir(e, d)
                               /\ Removing(r)' => ~(/\ e.folder = request'[r].folder
                                                    /\ e.uid \in request'[r].uids)
    PROVE  Unharmed'
  <1>1. TypeOK /\ Numbered /\ Unharmed /\ last \in Nat
    BY NamedAreThere DEF Inv
  <1>2. \A e \in box' : e.uid \in Int
    BY DEF Settled, Sound, Copy
  <1> SUFFICES ASSUME NEW m \in mails', m \notin unwanted'
               PROVE  \E e \in box' : e.mail = m /\ Safe(e)'
    BY DEF Unharmed
  <1>3. CASE m \in mails
    <2>1. PICK d \in box : d.mail = m /\ Safe(d)
      BY <1>1, <1>3 DEF Unharmed
    <2>2. PICK e \in box' : /\ Heir(e, d)
                            /\ Removing(r)' => ~(/\ e.folder = request'[r].folder
                                                 /\ e.uid \in request'[r].uids)
      BY <2>1
    <2>3. Safe(e)'
      BY <1>1, <1>2, <2>1, <2>2, HeirIsSafe DEF Only
    <2> QED BY <2>1, <2>2, <2>3 DEF Heir
  <1>4. CASE m \notin mails
    <2>1. PICK e \in box' : e.mail = m
      BY <1>4 DEF Mails
    <2>2. e.uid = last + 1 /\ ~e.deleted
      BY <1>1, <1>4, <2>1 DEF Settled, Unharmed
    <2>3. Safe(e)'
      BY <1>1, <2>2, NewIsSafe
    <2> QED BY <2>1, <2>3
  <1> QED BY <1>3, <1>4

LEMMA StepStep ==
    ASSUME Inv, NEW r \in Requests, Step(r)
    PROVE  Inv'
  <1> DEFINE command == Head(request[r].todo)
  <1>1. TypeOK /\ Numbered /\ Unharmed /\ last \in Nat
    BY NamedAreThere DEF Inv
  <1>2. /\ Active(r) /\ command \in Commands
        /\ Only(r)
        /\ Active(r)' => request'[r].todo \in Plans
        /\ request'[r].uids \subseteq
               request[r].uids \cup {c.uid : c \in In(request[r].folder)}
        /\ Removing(r)' => /\ command \in {"copy", "store", "append", "search"}
                           /\ command = "copy" => ~Refuses(r, command)
                           /\ request'[r].folder = request[r].folder
                           /\ command # "search" => request'[r].uids = request[r].uids
    BY StepMoves
  <1>3. /\ last + Made(r, command) <= MaxUid
        /\ box' = IF Refuses(r, command) THEN box ELSE Effect(r, command)
        /\ last' = IF Refuses(r, command) THEN last ELSE last + Made(r, command)
        /\ unwanted' = unwanted \cup CASE command = "search" -> Mails(In(request[r].folder))
                                       [] command = "append" -> Mails(Named(r))
                                       [] OTHER -> {}
        /\ mails' = mails \cup Mails(box')
        /\ sent' = IF command = "deliver" THEN sent \cup {r} ELSE sent
        /\ UNCHANGED <<has_move, marked, faults, app>>
    BY DEF Step
  <1> HIDE DEF command
  <1>4. Settled(r, command)
    BY <1>1, <1>2, <1>3, CommandSettles
  <1>5. Mails(In(request[r].folder)) \subseteq Mails(box) /\ Mails(Named(r)) \subseteq Mails(box)
    BY DEF In, Named, Mails
  <1>6. unwanted \subseteq unwanted' /\ unwanted' \subseteq unwanted \cup Mails(box)
    BY <1>3, <1>5
  <1>7. faults' \in 0..MaxFaults
    BY <1>1, <1>3 DEF TypeOK
  <1>8. /\ TypeOK' /\ Planned' /\ Numbered'
        /\ \A p \in Requests : \A u \in request'[p].uids : u <= last
    BY <1>2, <1>3, <1>4, <1>6, <1>7, CommandKeepsTypes
  <1>9. command \in {"store", "expunge"} => Removing(r)
    BY <1>2 DEF Removing, command
  <1>10. ASSUME NEW d \in box, Safe(d), d.mail \notin unwanted'
         PROVE  \E e \in box' : /\ Heir(e, d)
                                /\ Removing(r)' => ~(/\ e.folder = request'[r].folder
                                                     /\ e.uid \in request'[r].uids)
    <2>1. command \in {"store", "expunge"} => d \notin Named(r)
      BY <1>9, <1>10 DEF Safe, Names, Named, In
    <2>2. PICK e \in box' :
              /\ Heir(e, d)
              /\ command = "copy" /\ ~Refuses(r, command) /\ d \in Named(r) => e.uid > last
      <3>1. CASE command = "copy" /\ ~Refuses(r, command) /\ d \in Named(r)
        BY <1>1, <1>2, <1>3, <3>1, CommandsAreProper DEF Proper
      <3>2. CASE ~(command = "copy" /\ ~Refuses(r, command) /\ d \in Named(r))
        BY <1>4, <2>1, <3>2 DEF Settled
      <3> QED BY <3>1, <3>2
    <2>3. e.uid \in Int /\ \A u \in request'[r].uids : u \in Int /\ u <= last
      BY <1>4, <1>8 DEF Settled, Sound, Copy, TypeOK, Request
    <2>4. CASE e.uid > last
      BY <1>1, <2>2, <2>3, <2>4
    <2>5. CASE ~(e.uid > last) /\ Removing(r)'
      <3>1. e.uid = d.uid /\ e.folder = d.folder
        BY <2>2, <2>5 DEF Heir
      <3>2. request'[r].folder = request[r].folder
        BY <1>2, <2>5
      <3>3. d \notin Named(r)
        <4>1. CASE command = "append"
          BY <1>3, <1>10, <4>1 DEF Mails
        <4>2. CASE command = "search"
          BY <1>3, <1>10, <4>2 DEF Mails, Named
        <4>3. CASE command = "copy"
          BY <1>2, <2>2, <2>5, <4>3
        <4> QED BY <1>2, <2>1, <2>5, <4>1, <4>2, <4>3
      <3>4. command = "search" => d.folder # request[r].folder
        BY <1>3, <1>10 DEF Mails, In
      <3>5. command # "search" => request'[r].uids = request[r].uids
        BY <1>2, <2>5
      <3>6. ~(e.folder = request'[r].folder /\ e.uid \in request'[r].uids)
        BY <3>1, <3>2, <3>3, <3>4, <3>5 DEF Named, In
      <3> QED BY <2>2, <3>6
    <2> QED BY <2>2, <2>4, <2>5
  <1>11. Unharmed'
    BY <1>2, <1>3, <1>4, <1>6, <1>8, <1>9, <1>10, CommandKeepsSafe
  <1> QED BY <1>8, <1>11 DEF Inv

\* A request that is answered removes nothing more.
LEMMA AnsweredRests ==
    ASSUME request \in [Requests -> Request], NEW r \in Requests,
           NEW answer \in Answers \ {"none"},
           \/ request' = [request EXCEPT ![r] = Answered(request[r], answer)]
           \/ request' = Others(r, [request EXCEPT ![r] = Answered(request[r], answer)])
    PROVE  Only(r) /\ ~Active(r)' /\ ~Removing(r)' /\ request'[r].uids = {}
  <1> DEFINE new == Answered(request[r], answer)
             req == [request EXCEPT ![r] = new]
  <1>1. new \in Request /\ new.answer # "none" /\ new.uids = {}
    BY AnsweredType
  <1> HIDE DEF new
  <1>2. /\ req \in [Requests -> Request] /\ req[r] = new
        /\ \A p \in Requests \ {r} : req[p] = request[p]
    BY <1>1
  <1>3. request' = req \/ request' = Others(r, req)
    BY DEF new
  <1> HIDE DEF req
  <1>4. Only(r) /\ request'[r] = new
    BY <1>2, <1>3, OthersAlike DEF Only, Alike
  <1> QED BY <1>1, <1>4 DEF Active, Removing

LEMMA FaultStep ==
    ASSUME Inv, NEW r \in Requests, NEW done \in BOOLEAN, NEW mailbox_error \in BOOLEAN,
           Fault(r, done, mailbox_error)
    PROVE  Inv'
  <1> DEFINE command == Head(request[r].todo)
             answer == IF mailbox_error THEN "not filed" ELSE "failed"
  <1>1. /\ TypeOK /\ Numbered /\ Unharmed /\ Active(r) /\ command \in Commands
        /\ request \in [Requests -> Request]
    BY PlanParts DEF Inv, Planned, Fault, TypeOK
  <1>2. /\ \/ box' = box /\ last' = last
           \/ /\ ~Refuses(r, command) /\ last + Made(r, command) <= MaxUid
              /\ box' = Effect(r, command) /\ last' = last + Made(r, command)
        /\ sent' = IF done /\ command = "deliver" THEN sent \cup {r} ELSE sent
        /\ mails' = mails \cup Mails(box')
        /\ faults' = faults + 1 /\ faults < MaxFaults
        /\ UNCHANGED <<has_move, marked, unwanted, app>>
    BY DEF Fault
  <1>3. request' = Others(r, [request EXCEPT ![r] = Answered(request[r], answer)])
    BY DEF Fault
  <1>4. answer \in Answers \ {"none"}
    BY DEF Answers
  <1>5. command \in {"store", "expunge"} => Removing(r)
    BY <1>1 DEF Removing
  <1> HIDE DEF command, answer
  <1>6. Only(r) /\ ~Active(r)' /\ ~Removing(r)' /\ request'[r].uids = {}
    BY <1>1, <1>3, <1>4, AnsweredRests
  <1>7. Settled(r, command)
    BY <1>1, <1>2, CommandSettles
  <1>8. faults' \in 0..MaxFaults
    BY <1>1, <1>2, MailboxAssumption DEF TypeOK, MailboxAssumption
  <1>9. /\ TypeOK' /\ Planned' /\ Numbered'
        /\ \A p \in Requests : \A u \in request'[p].uids : u <= last
    BY <1>2, <1>6, <1>7, <1>8, CommandKeepsTypes
  <1>10. ASSUME NEW d \in box, Safe(d)
         PROVE  \E e \in box' : Heir(e, d)
    <2>1. command \in {"store", "expunge"} => d \notin Named(r)
      BY <1>5, <1>10 DEF Safe, Names, Named, In
    <2> QED BY <1>7, <2>1 DEF Settled
  <1>11. Unharmed'
    BY <1>2, <1>5, <1>6, <1>7, <1>9, <1>10, CommandKeepsSafe
  <1> QED BY <1>9, <1>11 DEF Inv

\* The requests stay as they are, but for who has touched the mailbox.
LEMMA AppLeaves ==
    ASSUME TypeOK, App
    PROVE  /\ request' \in [Requests -> Request]
           /\ \A p \in Requests : Alike(request'[p], request[p])
           /\ app' \in 0..MaxApp
           /\ UNCHANGED <<has_move, last, mails, sent, faults>>
  <1>1. ASSUME NEW q \in Request
        PROVE  [q EXCEPT !.alone = FALSE] \in Request /\ Alike([q EXCEPT !.alone = FALSE], q)
    BY DEF Request, Alike
  <1>2. app' \in 0..MaxApp
    BY MailboxAssumption DEF App, TypeOK, MailboxAssumption
  <1> QED BY <1>1, <1>2 DEF App, TypeOK, Alike

LEMMA AppKeepsRequests ==
    ASSUME Inv, \A p \in Requests : Alike(request'[p], request[p]), last' = last
    PROVE  /\ Planned'
           /\ \A r \in Requests : \A u \in request'[r].uids : u <= last'
           /\ \A c : (/\ c.deleted => c.mail \in marked'
                      /\ \A r \in Requests : Removing(r) => ~Names(r, c)) => Safe(c)'
  <1>1. Planned'
    BY DEF Inv, Planned, Alike, Active
  <1>2. \A r \in Requests : \A u \in request'[r].uids : u <= last'
    BY DEF Inv, Numbered, Alike
  <1>3. ASSUME NEW c, c.deleted => c.mail \in marked',
               \A r \in Requests : Removing(r) => ~Names(r, c)
        PROVE  Safe(c)'
    <2>1. ASSUME NEW r \in Requests, Removing(r)'
          PROVE  ~(c.folder = request'[r].folder /\ c.uid \in request'[r].uids)
      BY <1>3, <2>1, AlikeRemoves
    <2> QED BY <1>3, <2>1 DEF Safe, Names
  <1> QED BY <1>1, <1>2, <1>3

LEMMA MarksStep ==
    ASSUME Inv, NEW c \in box, AppMarks(c)
    PROVE  Inv'
  <1> DEFINE new == [c EXCEPT !.deleted = ~@]
  <1>1. TypeOK /\ Numbered /\ Unharmed /\ App
    BY DEF Inv, AppMarks
  <1>2. /\ request' \in [Requests -> Request]
        /\ \A p \in Requests : Alike(request'[p], request[p])
        /\ app' \in 0..MaxApp
        /\ UNCHANGED <<has_move, last, mails, sent, faults, unwanted>>
    BY <1>1, AppLeaves DEF AppMarks
  <1>3. /\ Planned'
        /\ \A r \in Requests : \A u \in request'[r].uids : u <= last'
        /\ \A d : (/\ d.deleted => d.mail \in marked'
                   /\ \A r \in Requests : Removing(r) => ~Names(r, d)) => Safe(d)'
    BY <1>2, AppKeepsRequests
  <1>4. /\ box' = (box \ {c}) \cup {new}
        /\ marked' = IF c.deleted THEN marked ELSE marked \cup {c.mail}
    BY DEF AppMarks
  <1>5. c \in Copy /\ box \subseteq Copy
    BY <1>1 DEF TypeOK
  <1>6. /\ new \in Copy /\ new.uid = c.uid /\ new.mail = c.mail /\ new.folder = c.folder
        /\ new.deleted = ~c.deleted
    BY <1>5 DEF Copy
  <1> HIDE DEF new
  <1>7. Sound(box', last)
    BY <1>1, <1>4, <1>6 DEF Numbered, Sound
  <1>8. Mails(box') \subseteq Mails(box) /\ marked' \subseteq 1..MaxUid /\ marked \subseteq marked'
    <2>1. marked \subseteq 1..MaxUid /\ c.mail \in 1..MaxUid
      BY <1>1, <1>5 DEF TypeOK, Copy
    <2> QED BY <1>4, <1>6, <2>1 DEF Mails
  <1>9. TypeOK'
    BY <1>1, <1>2, <1>7, <1>8 DEF TypeOK, Sound
  <1>10. ASSUME NEW m \in mails \ unwanted
         PROVE  \E e \in box' : e.mail = m /\ Safe(e)'
    <2>1. PICK d \in box : d.mail = m /\ Safe(d)
      BY <1>1 DEF Unharmed
    <2>2. CASE d # c
      BY <1>3, <1>4, <1>8, <2>1, <2>2 DEF Safe
    <2>3. CASE d = c
      <3>1. new.deleted => new.mail \in marked'
        BY <1>4, <1>6
      <3>2. \A r \in Requests : Removing(r) => ~Names(r, new)
        BY <1>6, <2>1, <2>3 DEF Safe, Names
      <3> QED BY <1>3, <1>4, <1>6, <2>1, <2>3, <3>1, <3>2
    <2> QED BY <2>2, <2>3
  <1>11. Unharmed'
    BY <1>1, <1>2, <1>8, <1>10 DEF Unharmed
  <1> QED BY <1>2, <1>3, <1>7, <1>9, <1>11 DEF Inv, Numbered

LEMMA ExpungesStep ==
    ASSUME Inv, NEW folder \in Special, AppExpunges(folder)
    PROVE  Inv'
  <1> DEFINE gone == {c \in In(folder) : c.deleted}
  <1>1. TypeOK /\ Numbered /\ Unharmed /\ App
    BY DEF Inv, AppExpunges
  <1>2. /\ request' \in [Requests -> Request]
        /\ \A p \in Requests : Alike(request'[p], request[p])
        /\ app' \in 0..MaxApp
        /\ UNCHANGED <<has_move, last, mails, sent, faults, marked>>
    BY <1>1, AppLeaves DEF AppExpunges
  <1>3. /\ Planned'
        /\ \A r \in Requests : \A u \in request'[r].uids : u <= last'
        /\ \A d : (/\ d.deleted => d.mail \in marked'
                   /\ \A r \in Requests : Removing(r) => ~Names(r, d)) => Safe(d)'
    BY <1>2, AppKeepsRequests
  <1>4. /\ box' = box \ gone /\ gone \subseteq box
        /\ unwanted' = unwanted \cup (Mails(gone) \cap marked)
    BY DEF AppExpunges, In
  <1>5. \A c \in gone : c.deleted
    OBVIOUS
  <1> HIDE DEF gone
  <1>6. Sound(box', last) /\ Mails(box') \subseteq Mails(box)
    BY <1>1, <1>4 DEF Numbered, Sound, Mails
  <1>7. TypeOK'
    BY <1>1, <1>2, <1>4, <1>6 DEF TypeOK, Sound
  <1>8. ASSUME NEW m \in mails \ unwanted, m \notin unwanted'
        PROVE  \E e \in box' : e.mail = m /\ Safe(e)'
    <2>1. PICK d \in box : d.mail = m /\ Safe(d)
      BY <1>1 DEF Unharmed
    <2>2. d \notin gone
      BY <1>4, <1>5, <1>8, <2>1 DEF Safe, Mails
    <2> QED BY <1>2, <1>3, <1>4, <2>1, <2>2 DEF Safe
  <1>9. Unharmed'
    BY <1>1, <1>2, <1>4, <1>6, <1>8 DEF Unharmed
  <1> QED BY <1>2, <1>3, <1>6, <1>7, <1>9 DEF Inv, Numbered

LEMMA RefusesStep ==
    ASSUME Inv, NEW r \in Requests, DeliverRefuses(r)
    PROVE  Inv'
  <1>1. /\ TypeOK /\ Planned /\ Numbered /\ Unharmed /\ request \in [Requests -> Request]
        /\ request' = [request EXCEPT ![r] = Answered(request[r], "refused")]
        /\ UNCHANGED <<has_move, box, last, mails, marked, unwanted, sent, faults, app>>
    BY DEF Inv, DeliverRefuses, TypeOK
  <1>2. "refused" \in Answers \ {"none"}
    BY DEF Answers
  <1>3. Only(r) /\ ~Active(r)' /\ ~Removing(r)' /\ request'[r].uids = {}
    BY <1>1, <1>2, AnsweredRests
  <1>4. TypeOK'
    BY <1>1, <1>3 DEF TypeOK, Only
  <1>5. Planned' /\ Numbered'
    BY <1>1, <1>3 DEF Planned, Numbered, Only, Alike, Active
  <1>6. ASSUME NEW c \in box, Safe(c)
        PROVE  Safe(c)'
    <2>1. Heir(c, c) /\ c.uid \in Int
      BY <1>1 DEF Heir, TypeOK, Copy
    <2> QED BY <1>1, <1>3, <1>6, <2>1, HeirIsSafe DEF Only
  <1>7. Unharmed'
    BY <1>1, <1>6 DEF Unharmed
  <1> QED BY <1>4, <1>5, <1>7 DEF Inv

\* A NO to MOVE leaves the fall-back to be done, and nothing else changed.
FallsBack(r) ==
    /\ Active(r) /\ Head(request[r].todo) = "move"
    /\ request' = [request EXCEPT ![r] = [request[r] EXCEPT !.todo = Fallback]]
    /\ faults' \in 0..MaxFaults
    /\ UNCHANGED <<has_move, box, last, mails, marked, unwanted, sent, app>>

LEMMA MoveFallsBack ==
    ASSUME Inv, NEW r \in Requests, MoveIsRefused(r)
    PROVE  FallsBack(r)
  <1>1. /\ Active(r) /\ Head(request[r].todo) = "move"
        /\ faults' = faults + 1 /\ faults < MaxFaults
        /\ UNCHANGED <<has_move, box, last, mails, marked, unwanted, sent, app>>
        /\ request' = [request EXCEPT ![r] =
                           [request[r] EXCEPT !.todo = Fallback \o Tail(request[r].todo)]]
    BY DEF MoveIsRefused
  <1>2. faults' \in 0..MaxFaults
    BY <1>1, MailboxAssumption DEF Inv, TypeOK, MailboxAssumption
  <1>3. Tail(request[r].todo) = <<>>
    BY <1>1, PlanParts DEF Inv, Planned
  <1>4. Fallback \in Seq(Commands)
    BY PlanType DEF Plans, Fallback
  <1>5. Fallback \o <<>> = Fallback
    BY <1>4, ConcatEmptySeq
  <1>6. Fallback \o Tail(request[r].todo) = Fallback
    BY <1>3, <1>5
  <1> QED BY <1>1, <1>2, <1>6 DEF FallsBack

\* How a request stands after it.
LEMMA FallenBack ==
    ASSUME TypeOK, NEW r \in Requests, FallsBack(r)
    PROVE  /\ request'[r] \in Request /\ request'[r].todo = Fallback
           /\ request'[r].op = request[r].op /\ request'[r].folder = request[r].folder
           /\ request'[r].uids = request[r].uids /\ request'[r].to = request[r].to
           /\ request'[r].read = request[r].read /\ request'[r].mail = request[r].mail
           /\ request'[r].alone = request[r].alone /\ request'[r].found = request[r].found
           /\ request'[r].answer = request[r].answer
           /\ request' \in [Requests -> Request]
           /\ \A p \in Requests \ {r} : request'[p] = request[p]
  <1> DEFINE new == [request[r] EXCEPT !.todo = Fallback]
  <1>1. Fallback \in Seq(Commands)
    BY PlanType DEF Plans, Fallback
  <1>2. request \in [Requests -> Request] /\ request[r] \in Request
    BY DEF TypeOK
  <1>3. /\ new \in Request /\ new.todo = Fallback
        /\ new.op = request[r].op /\ new.folder = request[r].folder
        /\ new.uids = request[r].uids /\ new.to = request[r].to
        /\ new.read = request[r].read /\ new.mail = request[r].mail
        /\ new.alone = request[r].alone /\ new.found = request[r].found
        /\ new.answer = request[r].answer
    BY <1>1, <1>2 DEF Request
  <1>4. request' = [request EXCEPT ![r] = new]
    BY DEF FallsBack
  <1> HIDE DEF new
  <1>5. /\ request' \in [Requests -> Request] /\ request'[r] = new
        /\ \A p \in Requests \ {r} : request'[p] = request[p]
    BY <1>2, <1>3, <1>4
  <1> QED BY <1>3, <1>5

LEMMA MoveRefusedStep ==
    ASSUME Inv, NEW r \in Requests, MoveIsRefused(r)
    PROVE  Inv'
  <1>1. TypeOK /\ Planned /\ Numbered /\ Unharmed /\ FallsBack(r)
    BY MoveFallsBack DEF Inv
  <1>2. /\ request' \in [Requests -> Request] /\ request'[r].todo = Fallback
        /\ request'[r].uids = request[r].uids
        /\ \A p \in Requests \ {r} : request'[p] = request[p]
    BY <1>1, FallenBack
  <1>3. Fallback \in Plans /\ Head(Fallback) = "copy"
    BY DEF Fallback, Plans
  <1>4. TypeOK'
    BY <1>1, <1>2 DEF TypeOK, FallsBack
  <1>5. Planned' /\ Numbered'
    BY <1>1, <1>2, <1>3 DEF Planned, Numbered, Active, FallsBack
  <1>6. Only(r) /\ ~Removing(r)'
    BY <1>2, <1>3 DEF Only, Alike, Removing
  <1>7. ASSUME NEW c \in box, Safe(c)
        PROVE  Safe(c)'
    <2>1. Heir(c, c) /\ c.uid \in Int
      BY <1>1 DEF Heir, TypeOK, Copy
    <2> QED BY <1>1, <1>6, <1>7, <2>1, HeirIsSafe DEF Only, FallsBack
  <1>8. Unharmed'
    BY <1>1, <1>7 DEF Unharmed, FallsBack
  <1> QED BY <1>4, <1>5, <1>8 DEF Inv

LEMMA InitInv == ASSUME Init PROVE Inv
  <1>1. /\ Initial \subseteq Copy /\ IsFiniteSet(Initial)
        /\ \A c \in Initial : c.uid <= Cardinality(Initial)
        /\ \A c, d \in Initial : c.uid = d.uid => c = d
        /\ Cardinality(Initial) \in 0..MaxUid
    BY MailboxAssumption, FS_CardinalityType DEF MailboxAssumption
  <1>2. Sound(box, last)
    BY <1>1 DEF Init, Sound
  <1>3. \A r \in Requests : request[r] = NoRequest /\ ~Active(r) /\ request[r].uids = {}
    BY DEF Init, Active, NoRequest
  <1>4. Mails(box) \subseteq 1..MaxUid /\ marked \subseteq Mails(box)
    BY <1>1 DEF Init, Mails, Copy
  <1>5. TypeOK
    <2>1. 0 \in 0..MaxFaults /\ 0 \in 0..MaxApp
      BY MailboxAssumption DEF MailboxAssumption
    <2>2. request \in [Requests -> Request]
      BY NoRequestType DEF Init
    <2> QED BY <1>1, <1>4, <2>1, <2>2 DEF Init, TypeOK
  <1>6. Unharmed
    <2>1. ASSUME NEW c \in box
          PROVE  Safe(c)
      BY <1>3, <2>1 DEF Init, Safe, Removing, Mails
    <2> QED BY <2>1 DEF Init, Unharmed, Mails
  <1> QED BY <1>2, <1>3, <1>5, <1>6 DEF Inv, Planned, Numbered

LEMMA NextInv == ASSUME Inv, [Next]_vars PROVE Inv'
  <1>1. TypeOK /\ Numbered
    BY DEF Inv
  <1>2. ASSUME NEW r \in Requests, NEW op \in {"flag", "move", "delete", "purge"},
               NEW read \in BOOLEAN, NEW folder \in Special, NEW to \in Destinations,
               NEW uids \in (SUBSET {c.uid : c \in In(folder)}) \ {{}},
               Bulk(r, op, read, folder, uids, to)
        PROVE  Inv'
    <2>1. uids \in SUBSET {c.uid : c \in In(folder)}
      OBVIOUS
    <2> QED BY <1>1, <1>2, <2>1, BulkBegins, BeginsStep
  <1>3. ASSUME NEW r \in Requests, Empty(r)
        PROVE  Inv'
    BY <1>1, <1>3, EmptyBegins, BeginsStep
  <1>4. ASSUME NEW r \in Requests, NEW uids, Draft(r, uids) \/ Send(r, uids)
        PROVE  Inv'
    BY <1>1, <1>4, DraftBegins, SendBegins, BeginsStep
  <1>5. ASSUME NEW r \in Requests, DeliverRefuses(r)
        PROVE  Inv'
    BY <1>5, RefusesStep
  <1>6. CASE UNCHANGED vars
    <2>1. \A c : Safe(c)' <=> Safe(c)
      BY <1>6 DEF vars, Safe, Removing, Active, Names
    <2> QED BY <1>6, <2>1
            DEF vars, Inv, TypeOK, Planned, Active, Numbered, Unharmed, Mails
  <1> QED BY <1>2, <1>3, <1>4, <1>5, <1>6, StepStep, FaultStep, MarksStep, ExpungesStep,
          MoveRefusedStep, Zenon DEF Next

LEMMA InvHolds == Spec => []Inv
  BY InitInv, NextInv, PTL DEF Spec

\* Records keep their types, and no two copies ever share a uid, however the requests that
\* make copies cross (aioimap.py: append, move).
THEOREM TypesAreKept == Spec => []TypeOK
  <1>1. Inv => TypeOK
    BY DEF Inv
  <1> QED BY <1>1, InvHolds, PTL

\* No message is lost that nobody asked to be rid of, wherever a request stops and whatever
\* other requests and the owner's app do between its commands (Mailbox.delete,
\* AioIMAPClient.move, save_draft, empty_folder).
THEOREM NothingIsLost == Spec => []NothingVanishes
  <1>1. Inv => NothingVanishes
    BY DEF Inv, Unharmed, NothingVanishes, Mails
  <1> QED BY <1>1, InvHolds, PTL

-----------------------------------------------------------------------------
(* A success is whole. *)

Moving(r) ==
    request[r].op = "move" \/ (request[r].op = "delete" /\ request[r].folder # "Trash")

Purging(r) ==
    request[r].op = "purge" \/ (request[r].op = "delete" /\ request[r].folder = "Trash")

\* What was named of message m is still there, and read if that is done.
There(r, m, command) ==
    \E c \in Named(r) : c.mail = m /\ (request[r].read /\ command # "mark" => c.seen)

\* It is where it was to go, under a uid of its own.
Arrived(r, m) ==
    \E c \in box : /\ c.mail = m /\ c.folder = request[r].to /\ c.uid \notin request[r].uids
                   /\ request[r].read => c.seen

\* The message the request makes is in its folder.
Filed(r, folder) ==
    \E c \in box : c.mail = request[r].mail /\ c.folder = folder /\ c.uid \notin request[r].uids

\* What is left of a message that answers none.
Unmarking == {<<"deliver", "file">>, <<"file">>}

LEMMA MarkingDiffers ==
    /\ <<"deliver", "file", "answered">> \notin Unmarking
    /\ <<"file", "answered">> \notin Unmarking
    /\ <<"answered">> \notin Unmarking
  <1>1. /\ <<"deliver", "file", "answered">> # <<"deliver", "file">>
        /\ <<"deliver", "file", "answered">> # <<"file">>
        /\ <<"file", "answered">> # <<"deliver", "file">>
        /\ <<"file", "answered">> # <<"file">>
        /\ <<"answered">> # <<"deliver", "file">>
        /\ <<"answered">> # <<"file">>
    OBVIOUS
  <1> QED BY <1>1 DEF Unmarking

\* How far a request has come that nobody has crossed, at its next command.
Going(r, command) ==
    /\ \A c \in box : c.uid \in request[r].uids => c.folder = request[r].folder
    /\ command = "expunge" => \A c \in Named(r) : c.deleted
    /\ request[r].op = "flag" =>
          /\ command = "mark" /\ Tail(request[r].todo) = <<>> /\ request[r].read
          /\ \A m \in Mails(request[r].found) : There(r, m, command)
    /\ Moving(r) =>
          /\ command \in {"mark", "move", "copy", "store", "expunge"}
          /\ command = "mark" => Tail(request[r].todo) # <<>>
          /\ \A m \in Mails(request[r].found) :
                IF command \in {"store", "expunge"} THEN Arrived(r, m) ELSE There(r, m, command)
    /\ Purging(r) => command \in {"store", "expunge"}
    /\ request[r].op = "empty" =>
          /\ command \in {"search", "store", "expunge"}
          /\ command # "search" => \A c \in In(request[r].folder) : c.uid \in request[r].uids
    /\ request[r].op = "draft" =>
          /\ command \in {"append", "store", "expunge"}
          /\ command = "append" /\ Tail(request[r].todo) = <<>> => request[r].uids = {}
          /\ command # "append" => Filed(r, "Drafts")
    /\ request[r].op = "send" =>
          /\ command \in {"deliver", "file", "answered"}
          /\ command # "deliver" => r \in sent
          /\ command = "answered" => Filed(r, "Sent")
          /\ request[r].todo \in Unmarking => request[r].uids = {}

OnItsWay(r) == Active(r) /\ request[r].alone => Going(r, Head(request[r].todo))

OnTheirWay == \A r \in Requests : OnItsWay(r)

\* The order of the commands of a plan.
InOrder(p) ==
    /\ Head(p) = "mark" /\ Tail(p) # <<>> => Head(Tail(p)) = "move"
    /\ Head(p) \in {"move", "expunge", "search", "answered"} => Tail(p) = <<>>
    /\ Head(p) \in {"copy", "store", "deliver"} => Tail(p) # <<>>
    /\ Head(p) = "copy" => Head(Tail(p)) = "store"
    /\ Head(p) = "store" => Head(Tail(p)) = "expunge"
    /\ Head(p) = "append" /\ Tail(p) # <<>> => Head(Tail(p)) = "store"
    /\ Head(p) = "deliver" => Head(Tail(p)) = "file"
    /\ Head(p) = "file" /\ Tail(p) # <<>> => Head(Tail(p)) = "answered"
    /\ Head(p) \in {"deliver", "file"} /\ Tail(p) \in Unmarking \cup {<<>>} => p \in Unmarking

LEMMA PlansAreInOrder ==
    ASSUME NEW p \in Plans
    PROVE  InOrder(p)
  <1>1. CASE p = <<"mark">>
    BY <1>1 DEF InOrder
  <1>2. CASE p = <<"mark", "move">>
    BY <1>2 DEF InOrder
  <1>3. CASE p = <<"move">>
    BY <1>3 DEF InOrder
  <1>4. CASE p = <<"copy", "store", "expunge">>
    BY <1>4 DEF InOrder
  <1>5. CASE p = <<"store", "expunge">>
    BY <1>5 DEF InOrder
  <1>6. CASE p = <<"expunge">>
    BY <1>6 DEF InOrder
  <1>7. CASE p = <<"search">>
    BY <1>7 DEF InOrder
  <1>8. CASE p = <<"append">>
    BY <1>8 DEF InOrder
  <1>9. CASE p = <<"append", "store", "expunge">>
    BY <1>9 DEF InOrder
  <1>10. CASE p = <<"deliver", "file">>
    BY <1>10 DEF InOrder, Unmarking
  <1>11. CASE p = <<"deliver", "file", "answered">>
    <2>1. /\ Head(p) = "deliver" /\ Tail(p) = <<"file", "answered">>
          /\ Head(Tail(p)) = "file" /\ Tail(p) # <<>>
      BY <1>11
    <2>2. Tail(p) \notin Unmarking
      BY <2>1, MarkingDiffers
    <2> QED BY <2>1, <2>2 DEF InOrder
  <1>12. CASE p = <<"file">>
    BY <1>12 DEF InOrder, Unmarking
  <1>13. CASE p = <<"file", "answered">>
    <2>1. /\ Head(p) = "file" /\ Tail(p) = <<"answered">>
          /\ Head(Tail(p)) = "answered" /\ Tail(p) # <<>>
      BY <1>13
    <2>2. Tail(p) \notin Unmarking
      BY <2>1, MarkingDiffers
    <2> QED BY <2>1, <2>2 DEF InOrder
  <1>14. CASE p = <<"answered">>
    BY <1>14 DEF InOrder
  <1> QED BY <1>1, <1>2, <1>3, <1>4, <1>5, <1>6, <1>7, <1>8, <1>9, <1>10, <1>11, <1>12,
             <1>13, <1>14 DEF Plans

\* The command after the next one.
Then(r, command, rest) ==
    /\ command = "mark" => rest = Tail(request[r].todo) /\ (rest # <<>> => Head(rest) = "move")
    /\ command = "move" =>
          IF Refuses(r, command) THEN rest # <<>> /\ Head(rest) = "copy" ELSE rest = <<>>
    /\ command = "copy" => rest # <<>> /\ Head(rest) = "store"
    /\ command = "store" => rest # <<>> /\ Head(rest) = "expunge"
    /\ command \in {"expunge", "answered"} => rest = <<>>
    /\ command = "search" =>
          IF In(request[r].folder) = {} THEN rest = <<>> ELSE rest # <<>> /\ Head(rest) = "store"
    /\ command = "append" => rest = Tail(request[r].todo) /\ (rest # <<>> => Head(rest) = "store")
    /\ command = "deliver" => rest # <<>> /\ Head(rest) = "file"
    /\ command = "file" => (rest # <<>> => Head(rest) = "answered")
    /\ command \in {"deliver", "file"} /\ rest \in Unmarking \cup {<<>>} =>
          request[r].todo \in Unmarking

LEMMA NextCommand ==
    ASSUME NEW r \in Requests, request[r].todo \in Plans,
           NEW command, command = Head(request[r].todo), NEW rest, rest = Rest(r, command)
    PROVE  Then(r, command, rest)
  <1> DEFINE todo == request[r].todo
  <1>1. InOrder(todo) /\ command = Head(todo) /\ todo = request[r].todo
    BY PlansAreInOrder
  <1>2. CASE command = "move" /\ Refuses(r, command)
    <2>1. Fallback \in Seq(Commands) /\ Head(Fallback) = "copy" /\ Fallback # <<>>
      BY DEF Fallback, Commands
    <2>2. rest = Fallback \o <<>>
      BY <1>1, <1>2 DEF Rest, InOrder
    <2>3. rest = Fallback
      BY <2>1, <2>2, ConcatEmptySeq
    <2> QED BY <1>2, <2>1, <2>3 DEF Then
  <1>3. CASE command = "search" /\ In(request[r].folder) # {}
    <2>1. Head(Remove) = "store" /\ Remove # <<>>
      BY DEF Remove
    <2>2. rest = Remove
      BY <1>3 DEF Rest
    <2> QED BY <1>3, <2>1, <2>2 DEF Then
  <1>4. CASE ~(command = "move" /\ Refuses(r, command))
             /\ ~(command = "search" /\ In(request[r].folder) # {})
    <2>1. rest = Tail(todo)
      BY <1>4 DEF Rest
    <2> HIDE DEF todo
    <2>2. /\ command = "mark" /\ rest # <<>> => Head(rest) = "move"
          /\ command \in {"move", "expunge", "search", "answered"} => rest = <<>>
          /\ command = "copy" => rest # <<>> /\ Head(rest) = "store"
          /\ command = "store" => rest # <<>> /\ Head(rest) = "expunge"
          /\ command = "append" /\ rest # <<>> => Head(rest) = "store"
          /\ command = "deliver" => rest # <<>> /\ Head(rest) = "file"
          /\ command = "file" /\ rest # <<>> => Head(rest) = "answered"
          /\ command \in {"deliver", "file"} /\ rest \in Unmarking \cup {<<>>} =>
                todo \in Unmarking
      BY <1>1, <2>1 DEF InOrder
    <2> QED BY <1>1, <1>4, <2>1, <2>2 DEF Then
  <1> QED BY <1>2, <1>3, <1>4

-----------------------------------------------------------------------------
(* What a command leaves behind, for the request that sent it. *)

\* What a command that is carried out makes of the copies.
Changes(r, command, after) ==
    /\ command \in {"mark", "answered", "store"} =>
          /\ \A c \in box : \E e \in after :
                /\ e.uid = c.uid /\ e.mail = c.mail /\ e.folder = c.folder
                /\ c.seen \/ (command = "mark" /\ c \in Named(r)) => e.seen
          /\ \A e \in after : \E c \in box :
                /\ e.uid = c.uid /\ e.folder = c.folder
                /\ command = "store" /\ c \in Named(r) => e.deleted
                /\ command = "answered" /\ c \in Named(r) => e.answered
    /\ command \in {"move", "copy"} =>
          /\ \A c \in Named(r) : \E e \in after :
                e.mail = c.mail /\ e.folder = request[r].to /\ e.uid > last /\ (c.seen => e.seen)
          /\ \A e \in after : \/ e \in box /\ (command = "move" => e \notin Named(r))
                              \/ e.uid > last
    /\ command = "expunge" =>
          /\ \A c \in box : c \in Named(r) \/ c \in after
          /\ \A e \in after : e \in box /\ (e \in Named(r) => ~e.deleted)
    /\ command \in {"append", "file"} =>
          /\ box \subseteq after
          /\ \A e \in after : e \in box \/ e.uid > last
          /\ \E e \in after : /\ e.mail = last + 1 /\ e.uid > last
                              /\ e.folder = IF command = "append" THEN "Drafts" ELSE "Sent"
    /\ command \in {"search", "deliver"} => after = box

LEMMA EffectChanges ==
    ASSUME TypeOK, Numbered, NEW r \in Requests, NEW command \in Commands,
           ~Refuses(r, command), last + Made(r, command) <= MaxUid
    PROVE  Changes(r, command, Effect(r, command))
  <1> DEFINE after == Effect(r, command)
  <1>1. /\ Named(r) \subseteq box /\ last \in Nat /\ Sound(Named(r), last) /\ box \subseteq Copy
        /\ Cardinality(Named(r)) \in Nat
    BY NamedAreThere DEF TypeOK
  <1>2. CASE command = "mark"
    <2>1. after = (box \ Named(r)) \cup {[c EXCEPT !.seen = TRUE] : c \in Named(r)}
      BY <1>2 DEF Effect, Set
    <2>2. \A c \in Copy : /\ [c EXCEPT !.seen = TRUE].uid = c.uid
                          /\ [c EXCEPT !.seen = TRUE].mail = c.mail
                          /\ [c EXCEPT !.seen = TRUE].folder = c.folder
                          /\ [c EXCEPT !.seen = TRUE].seen = TRUE
      BY DEF Copy
    <2>3. ASSUME NEW c \in box
          PROVE  \E e \in after : /\ e.uid = c.uid /\ e.mail = c.mail /\ e.folder = c.folder
                                  /\ c.seen \/ c \in Named(r) => e.seen
      <3>1. CASE c \in Named(r)
        <4>1. [c EXCEPT !.seen = TRUE] \in after
          BY <2>1, <3>1
        <4>2. c \in Copy
          BY <1>1
        <4> HIDE DEF after
        <4> QED BY <2>2, <4>1, <4>2
      <3>2. CASE c \notin Named(r)
        BY <2>1, <3>2
      <3> QED BY <3>1, <3>2
    <2>4. ASSUME NEW e \in after
          PROVE  \E c \in box : e.uid = c.uid /\ e.folder = c.folder
      <3>1. CASE e \in box \ Named(r)
        BY <3>1
      <3>2. CASE e \notin box \ Named(r)
        <4>1. PICK c \in Named(r) : e = [c EXCEPT !.seen = TRUE]
          BY <2>1, <3>2
        <4> QED BY <1>1, <2>2, <4>1
      <3> QED BY <3>1, <3>2
    <2> HIDE DEF after
    <2> QED BY <1>2, <2>3, <2>4 DEF Changes, after
  <1>3. CASE command = "answered"
    <2>1. after = (box \ Named(r)) \cup {[c EXCEPT !.answered = TRUE] : c \in Named(r)}
      BY <1>3 DEF Effect, Set
    <2>2. \A c \in Copy : /\ [c EXCEPT !.answered = TRUE].uid = c.uid
                          /\ [c EXCEPT !.answered = TRUE].mail = c.mail
                          /\ [c EXCEPT !.answered = TRUE].folder = c.folder
                          /\ [c EXCEPT !.answered = TRUE].seen = c.seen
                          /\ [c EXCEPT !.answered = TRUE].answered = TRUE
      BY DEF Copy
    <2>3. ASSUME NEW c \in box
          PROVE  \E e \in after : /\ e.uid = c.uid /\ e.mail = c.mail /\ e.folder = c.folder
                                  /\ c.seen => e.seen
      <3>1. CASE c \in Named(r)
        <4>1. [c EXCEPT !.answered = TRUE] \in after
          BY <2>1, <3>1
        <4>2. c \in Copy
          BY <1>1
        <4> HIDE DEF after
        <4> QED BY <2>2, <4>1, <4>2
      <3>2. CASE c \notin Named(r)
        BY <2>1, <3>2
      <3> QED BY <3>1, <3>2
    <2>4. ASSUME NEW e \in after
          PROVE  \E c \in box : /\ e.uid = c.uid /\ e.folder = c.folder
                                /\ c \in Named(r) => e.answered
      <3>1. CASE e \in box \ Named(r)
        BY <3>1
      <3>2. CASE e \notin box \ Named(r)
        <4>1. PICK c \in Named(r) : e = [c EXCEPT !.answered = TRUE]
          BY <2>1, <3>2
        <4> QED BY <1>1, <2>2, <4>1
      <3> QED BY <3>1, <3>2
    <2> HIDE DEF after
    <2> QED BY <1>3, <2>3, <2>4 DEF Changes, after
  <1>4. CASE command = "store"
    <2>1. after = (box \ Named(r)) \cup {[c EXCEPT !.deleted = TRUE] : c \in Named(r)}
      BY <1>4 DEF Effect, Set
    <2>2. \A c \in Copy : /\ [c EXCEPT !.deleted = TRUE].uid = c.uid
                          /\ [c EXCEPT !.deleted = TRUE].mail = c.mail
                          /\ [c EXCEPT !.deleted = TRUE].folder = c.folder
                          /\ [c EXCEPT !.deleted = TRUE].seen = c.seen
                          /\ [c EXCEPT !.deleted = TRUE].deleted = TRUE
      BY DEF Copy
    <2>3. ASSUME NEW c \in box
          PROVE  \E e \in after : /\ e.uid = c.uid /\ e.mail = c.mail /\ e.folder = c.folder
                                  /\ c.seen => e.seen
      <3>1. CASE c \in Named(r)
        <4>1. [c EXCEPT !.deleted = TRUE] \in after
          BY <2>1, <3>1
        <4>2. c \in Copy
          BY <1>1
        <4> HIDE DEF after
        <4> QED BY <2>2, <4>1, <4>2
      <3>2. CASE c \notin Named(r)
        BY <2>1, <3>2
      <3> QED BY <3>1, <3>2
    <2>4. ASSUME NEW e \in after
          PROVE  \E c \in box : /\ e.uid = c.uid /\ e.folder = c.folder
                                /\ c \in Named(r) => e.deleted
      <3>1. CASE e \in box \ Named(r)
        BY <3>1
      <3>2. CASE e \notin box \ Named(r)
        <4>1. PICK c \in Named(r) : e = [c EXCEPT !.deleted = TRUE]
          BY <2>1, <3>2
        <4> QED BY <1>1, <2>2, <4>1
      <3> QED BY <3>1, <3>2
    <2> HIDE DEF after
    <2> QED BY <1>4, <2>3, <2>4 DEF Changes, after
  <1>5. CASE command \in {"move", "copy"}
    <2>1. request[r].to \in Special /\ Made(r, command) = Cardinality(Named(r))
      BY <1>5 DEF TypeOK, Request, Refuses, Made
    <2> DEFINE new == Copied(Named(r), request[r].to)
    <2>2. PICK f : /\ \A e \in new : \E c \in Named(r) : e = f[c]
                   /\ \A c \in Named(r) : /\ f[c] \in new
                                          /\ f[c] \in Copy /\ f[c].mail = c.mail
                                          /\ f[c].deleted = c.deleted
                                          /\ f[c].uid <= last + Cardinality(Named(r))
                                          /\ f[c].uid > last
                   /\ \A c, d \in Named(r) : f[c].uid = f[d].uid => c = d
      BY <1>1, <2>1, CopiesAreNew
    <2>3. ASSUME NEW c \in Named(r)
          PROVE  \E e \in new : e.mail = c.mail /\ e.folder = request[r].to /\ e.seen = c.seen
      <3> DEFINE n == last + Cardinality({d \in Named(r) : d.uid <= c.uid})
      <3>1. [c EXCEPT !.folder = request[r].to, !.uid = n] \in new
        BY DEF Copied
      <3> HIDE DEF n, new
      <3>2. c \in Copy
        BY <1>1
      <3>3. /\ [c EXCEPT !.folder = request[r].to, !.uid = n].mail = c.mail
            /\ [c EXCEPT !.folder = request[r].to, !.uid = n].folder = request[r].to
            /\ [c EXCEPT !.folder = request[r].to, !.uid = n].seen = c.seen
        BY <3>2 DEF Copy
      <3> QED BY <3>1, <3>3
    <2>4. \A e \in new : e.uid > last
      BY <2>2
    <2>5. after = IF command = "move" THEN (box \ Named(r)) \cup new ELSE box \cup new
      BY <1>5 DEF Effect, Set
    <2> HIDE DEF new, after
    <2> QED BY <1>5, <2>3, <2>4, <2>5 DEF Changes, after
  <1>6. CASE command = "expunge"
    <2>1. after = box \ {c \in Named(r) : c.deleted}
      BY <1>6 DEF Effect, Expunged
    <2> HIDE DEF after
    <2> QED BY <1>6, <2>1 DEF Changes, after
  <1>7. CASE command \in {"append", "file"}
    <2> DEFINE folder == IF command = "append" THEN "Drafts" ELSE "Sent"
               new == Fresh(folder, last + 1)
    <2>1. after = box \cup {new}
      BY <1>7 DEF Effect
    <2>2. new.mail = last + 1 /\ new.uid = last + 1 /\ new.folder = folder
      BY DEF Fresh
    <2> HIDE DEF new, after
    <2>3. last + 1 > last
      BY <1>1
    <2> QED BY <1>7, <2>1, <2>2, <2>3 DEF Changes, after
  <1>8. CASE command \in {"search", "deliver"}
    <2>1. after = box
      BY <1>8 DEF Effect
    <2> HIDE DEF after
    <2> QED BY <1>8, <2>1 DEF Changes, after
  <1> QED BY <1>2, <1>3, <1>4, <1>5, <1>6, <1>7, <1>8 DEF Commands

\* The message a request makes gets the next uid.
NewMail(r, command) == IF command \in {"append", "file"} THEN last + 1 ELSE request[r].mail

\* A request is over, or goes on with what it had.
OnTo(r, command, rest) ==
    /\ Active(r) /\ request[r].answer = "none"
    /\ IF command = "copy" /\ Refuses(r, command) THEN request'[r].answer = "refused"
       ELSE IF rest = <<>>
       THEN request'[r].answer = "ok" /\ request'[r].mail = NewMail(r, command)
       ELSE /\ request'[r].todo = rest /\ request'[r].answer = "none"
            /\ request'[r].op = request[r].op /\ request'[r].folder = request[r].folder
            /\ request'[r].to = request[r].to /\ request'[r].read = request[r].read
            /\ request'[r].found = request[r].found /\ request'[r].alone = request[r].alone
            /\ request'[r].uids = IF command = "search"
                                  THEN {c.uid : c \in In(request[r].folder)}
                                  ELSE request[r].uids
            /\ request'[r].mail = NewMail(r, command)

\* Other requests that are under way are crossed.
Crossed(r) ==
    \A p \in Requests \ {r} :
        /\ Active(p) => ~request'[p].alone /\ request'[p].answer = "none"
        /\ ~Active(p) => request'[p] = request[p]

LEMMA OthersAreCrossed ==
    ASSUME NEW r \in Requests, TypeOK, NEW new, new \in Request,
           request' = Others(r, [request EXCEPT ![r] = new])
    PROVE  Crossed(r) /\ request'[r] = new
  <1> DEFINE req == [request EXCEPT ![r] = new]
  <1>1. /\ req \in [Requests -> Request] /\ req[r] = new
        /\ \A p \in Requests \ {r} : req[p] = request[p] /\ request[p] \in Request
    BY DEF TypeOK
  <1>2. request' = Others(r, req)
    OBVIOUS
  <1> HIDE DEF req
  <1>3. ASSUME NEW p \in Requests \ {r}, Active(p)
        PROVE  ~request'[p].alone /\ request'[p].answer = "none"
    <2>1. request'[p] = [req[p] EXCEPT !.alone = FALSE] /\ req[p] \in Request
      BY <1>1, <1>2, <1>3 DEF Others
    <2>2. /\ [req[p] EXCEPT !.alone = FALSE].alone = FALSE
          /\ [req[p] EXCEPT !.alone = FALSE].answer = req[p].answer
      BY <2>1 DEF Request
    <2>3. req[p].answer = "none"
      BY <1>1, <1>3 DEF Active
    <2> QED BY <2>1, <2>2, <2>3
  <1>4. ASSUME NEW p \in Requests \ {r}, ~Active(p)
        PROVE  request'[p] = request[p]
    BY <1>1, <1>2, <1>4 DEF Others
  <1>5. request'[r] = new
    BY <1>1, <1>2 DEF Others
  <1> QED BY <1>3, <1>4, <1>5 DEF Crossed

LEMMA StepOnward ==
    ASSUME Inv, NEW r \in Requests, Step(r), NEW command, command = Head(request[r].todo),
           NEW rest, rest = Rest(r, command)
    PROVE  OnTo(r, command, rest) /\ Crossed(r)
  <1> DEFINE uids == IF command = "search" THEN {c.uid : c \in In(request[r].folder)}
                                           ELSE request[r].uids
             mail == NewMail(r, command)
             onward == [request[r] EXCEPT !.todo = rest, !.uids = uids, !.mail = mail]
             new == IF command = "copy" /\ Refuses(r, command)
                    THEN Answered(request[r], "refused")
                    ELSE IF rest = <<>> THEN Answered(onward, "ok") ELSE onward
  <1>1. /\ TypeOK /\ Numbered /\ Active(r) /\ request[r].todo \in Plans
        /\ request[r] \in Request /\ request[r].answer = "none"
        /\ last + Made(r, command) <= MaxUid /\ last \in Nat
    BY NamedAreThere DEF Inv, Step, Planned, TypeOK, Active
  <1>2. command \in Commands /\ rest \in Seq(Commands)
    BY <1>1, RestIsPlanned
  <1>3. request' = Others(r, [request EXCEPT ![r] = new])
    BY DEF Step, NewMail
  <1>4. uids \subseteq 1..MaxUid /\ mail \in 0..MaxUid
    <2>1. In(request[r].folder) \in SUBSET box
      BY DEF In
    <2>2. {c.uid : c \in In(request[r].folder)} \subseteq 1..MaxUid
      BY <1>1, <2>1, UidsAreOld
    <2>3. request[r].uids \subseteq 1..MaxUid /\ request[r].mail \in 0..MaxUid
      BY <1>1 DEF Request
    <2>4. command \in {"append", "file"} => Made(r, command) = 1
      BY DEF Made
    <2> QED BY <1>1, <2>2, <2>3, <2>4, MailboxAssumption DEF MailboxAssumption, NewMail
  <1> HIDE DEF mail
  <1>5. uids = IF command = "search" THEN {c.uid : c \in In(request[r].folder)}
               ELSE request[r].uids
    OBVIOUS
  <1> HIDE DEF uids
  <1>6. /\ onward \in Request /\ onward.todo = rest /\ onward.uids = uids /\ onward.mail = mail
        /\ onward.op = request[r].op /\ onward.folder = request[r].folder
        /\ onward.to = request[r].to /\ onward.read = request[r].read
        /\ onward.found = request[r].found /\ onward.alone = request[r].alone
        /\ onward.answer = "none"
    BY <1>1, <1>2, <1>4 DEF Request
  <1> HIDE DEF onward
  <1>7. "refused" \in Answers /\ "ok" \in Answers
    BY DEF Answers
  <1>8. /\ Answered(request[r], "refused") \in Request
        /\ Answered(request[r], "refused").answer = "refused"
    BY <1>1, <1>7, AnsweredType
  <1>9. /\ Answered(onward, "ok") \in Request
        /\ Answered(onward, "ok").answer = "ok"
        /\ Answered(onward, "ok").mail = mail
    BY <1>6, <1>7, AnsweredType DEF Answered, NoRequest
  <1>10. new \in Request
    BY <1>6, <1>8, <1>9
  <1>11. Crossed(r) /\ request'[r] = new
    <2> HIDE DEF new
    <2> QED BY <1>1, <1>3, <1>10, OthersAreCrossed
  <1> QED BY <1>1, <1>5, <1>6, <1>8, <1>9, <1>11 DEF OnTo, mail

\* A request that nobody has crossed does its next command.
Ready(r, command, rest) ==
    /\ request[r].op \in AllOperations
    /\ Going(r, command)
    /\ OnTo(r, command, rest)
    /\ Then(r, command, rest)
    /\ \A c, d \in box : c.uid = d.uid => c = d
    /\ \A u \in request[r].uids : ~(u > last)
    /\ IF Refuses(r, command) THEN box' = box ELSE Changes(r, command, box')
    /\ sent' = IF command = "deliver" THEN sent \cup {r} ELSE sent

\* It has kept its promise, or it is still on its way.
Onward(r, next) ==
    /\ request'[r].answer = "ok" => Kept(r)
    /\ request'[r].answer = "none" => Going(r, next)'

LEMMA MarkOnward ==
    ASSUME NEW r \in Requests, NEW rest, Ready(r, "mark", rest)
    PROVE  Onward(r, Head(rest))
  <1>1. /\ Going(r, "mark") /\ OnTo(r, "mark", rest) /\ Then(r, "mark", rest)
        /\ request[r].op \in AllOperations /\ Changes(r, "mark", box')
    BY DEF Ready, Refuses
  <1>2. request[r].op = "flag" \/ Moving(r)
    BY <1>1 DEF Going, Purging, Moving, AllOperations
  <1>3. /\ \A c \in box : \E e \in box' :
              /\ e.uid = c.uid /\ e.mail = c.mail /\ e.folder = c.folder
              /\ c \in Named(r) => e.seen
        /\ \A e \in box' : \E c \in box : e.uid = c.uid /\ e.folder = c.folder
    BY <1>1 DEF Changes
  <1>4. ASSUME NEW m \in Mails(request[r].found)
        PROVE  \E e \in box' : /\ e.mail = m /\ e.folder = request[r].folder
                               /\ e.uid \in request[r].uids /\ e.seen
    <2>1. There(r, m, "mark")
      BY <1>1, <1>2 DEF Going
    <2>2. PICK c \in Named(r) : c.mail = m
      BY <2>1 DEF There
    <2>3. c \in box /\ c.folder = request[r].folder /\ c.uid \in request[r].uids
      BY DEF Named, In
    <2> QED BY <1>3, <2>2, <2>3
  <1>5. CASE request[r].op = "flag"
    <2>1. request'[r].answer = "ok"
      BY <1>1, <1>5 DEF Going, OnTo, Then
    <2>2. ~Moving(r)
      BY <1>5 DEF Moving
    <2>3. Kept(r)
      BY <1>4, <1>5 DEF Kept
    <2> QED BY <2>1, <2>3 DEF Onward
  <1>6. CASE Moving(r)
    <2> DEFINE next == Head(rest)
    <2>1. /\ rest # <<>> /\ next = "move" /\ request'[r].answer = "none"
          /\ request'[r].op = request[r].op /\ request'[r].folder = request[r].folder
          /\ request'[r].uids = request[r].uids /\ request'[r].found = request[r].found
      BY <1>1, <1>6 DEF Going, OnTo, Then
    <2> HIDE DEF next
    <2>2. \A e \in box' : e.uid \in request'[r].uids => e.folder = request'[r].folder
      BY <1>1, <1>3, <2>1 DEF Going
    <2>3. ASSUME NEW m \in Mails(request[r].found)
          PROVE  There(r, m, next)'
      BY <1>4, <2>1 DEF There, Named, In
    <2>4. Going(r, next)'
      BY <1>6, <2>1, <2>2, <2>3 DEF Going, Moving, Purging
    <2> QED BY <2>1, <2>4 DEF Onward, next
  <1> QED BY <1>2, <1>5, <1>6

LEMMA MoveOnward ==
    ASSUME NEW r \in Requests, NEW rest, Ready(r, "move", rest)
    PROVE  Onward(r, Head(rest))
  <1>1. /\ Going(r, "move") /\ OnTo(r, "move", rest) /\ Then(r, "move", rest)
        /\ request[r].op \in AllOperations
        /\ IF Refuses(r, "move") THEN box' = box ELSE Changes(r, "move", box')
        /\ \A u \in request[r].uids : ~(u > last)
    BY DEF Ready
  <1>2. Moving(r)
    BY <1>1 DEF Going, Purging, Moving, AllOperations
  <1>3. \A m \in Mails(request[r].found) : There(r, m, "move")
    BY <1>1, <1>2 DEF Going
  <1>4. CASE Refuses(r, "move")
    <2> DEFINE next == Head(rest)
    <2>1. /\ rest # <<>> /\ next = "copy" /\ request'[r].answer = "none" /\ box' = box
          /\ request'[r].op = request[r].op /\ request'[r].folder = request[r].folder
          /\ request'[r].uids = request[r].uids /\ request'[r].found = request[r].found
          /\ request'[r].read = request[r].read
      BY <1>1, <1>4 DEF OnTo, Then
    <2> HIDE DEF next
    <2>2. \A c \in box' : c.uid \in request'[r].uids => c.folder = request'[r].folder
      BY <1>1, <2>1 DEF Going
    <2>3. ASSUME NEW m \in Mails(request[r].found)
          PROVE  There(r, m, next)'
      BY <1>3, <2>1 DEF There, Named, In
    <2>4. Going(r, next)'
      BY <1>2, <2>1, <2>2, <2>3 DEF Going, Moving, Purging
    <2> QED BY <2>1, <2>4 DEF Onward, next
  <1>5. CASE ~Refuses(r, "move")
    <2>1. request'[r].answer = "ok"
      BY <1>1, <1>5 DEF OnTo, Then
    <2>2. /\ \A c \in Named(r) : \E e \in box' :
                e.mail = c.mail /\ e.folder = request[r].to /\ (c.seen => e.seen)
          /\ \A e \in box' : (e \in box /\ e \notin Named(r)) \/ e.uid > last
      BY <1>1, <1>5 DEF Changes
    <2>3. ASSUME NEW m \in Mails(request[r].found)
          PROVE  \E e \in box' : e.mail = m /\ e.folder = request[r].to
                                 /\ (request[r].read => e.seen)
      <3>1. PICK c \in Named(r) : c.mail = m /\ (request[r].read => c.seen)
        BY <1>3 DEF There
      <3> QED BY <2>2, <3>1
    <2>4. \A e \in box' : e.uid \notin request[r].uids
      BY <1>1, <2>2 DEF Going, Named, In
    <2>5. Kept(r)
      BY <1>2, <2>3, <2>4 DEF Kept, Moving
    <2> QED BY <2>1, <2>5 DEF Onward
  <1> QED BY <1>4, <1>5

LEMMA CopyOnward ==
    ASSUME NEW r \in Requests, NEW rest, Ready(r, "copy", rest)
    PROVE  Onward(r, Head(rest))
  <1>1. /\ Going(r, "copy") /\ OnTo(r, "copy", rest) /\ Then(r, "copy", rest)
        /\ request[r].op \in AllOperations
        /\ ~Refuses(r, "copy") => Changes(r, "copy", box')
        /\ \A u \in request[r].uids : ~(u > last)
    BY DEF Ready
  <1>2. Moving(r)
    BY <1>1 DEF Going, Purging, Moving, AllOperations
  <1>3. CASE Refuses(r, "copy")
    BY <1>1, <1>3 DEF OnTo, Onward
  <1>4. CASE ~Refuses(r, "copy")
    <2> DEFINE next == Head(rest)
    <2>1. /\ rest # <<>> /\ next = "store" /\ request'[r].answer = "none"
          /\ request'[r].op = request[r].op /\ request'[r].folder = request[r].folder
          /\ request'[r].uids = request[r].uids /\ request'[r].found = request[r].found
          /\ request'[r].read = request[r].read /\ request'[r].to = request[r].to
      BY <1>1, <1>4 DEF OnTo, Then
    <2> HIDE DEF next
    <2>2. /\ \A c \in Named(r) : \E e \in box' :
                /\ e.mail = c.mail /\ e.folder = request[r].to /\ e.uid > last
                /\ c.seen => e.seen
          /\ \A e \in box' : e \in box \/ e.uid > last
      BY <1>1, <1>4 DEF Changes
    <2>3. \A e \in box' : e.uid \in request'[r].uids => e.folder = request'[r].folder
      BY <1>1, <2>1, <2>2 DEF Going
    <2>4. ASSUME NEW m \in Mails(request[r].found)
          PROVE  Arrived(r, m)'
      <3>1. There(r, m, "copy")
        BY <1>1, <1>2 DEF Going
      <3>2. PICK c \in Named(r) : c.mail = m /\ (request[r].read => c.seen)
        BY <3>1 DEF There
      <3>3. PICK e \in box' : /\ e.mail = c.mail /\ e.folder = request[r].to /\ e.uid > last
                              /\ c.seen => e.seen
        BY <2>2
      <3> QED BY <1>1, <2>1, <3>2, <3>3 DEF Arrived
    <2>5. Going(r, next)'
      BY <1>2, <2>1, <2>3, <2>4 DEF Going, Moving, Purging
    <2> QED BY <2>1, <2>5 DEF Onward, next
  <1> QED BY <1>3, <1>4

LEMMA StoreOnward ==
    ASSUME NEW r \in Requests, NEW rest, Ready(r, "store", rest)
    PROVE  Onward(r, Head(rest))
  <1> DEFINE next == Head(rest)
  <1>1. /\ Going(r, "store") /\ OnTo(r, "store", rest) /\ Then(r, "store", rest)
        /\ request[r].op \in AllOperations /\ Changes(r, "store", box')
    BY DEF Ready, Refuses
  <1>2. /\ rest # <<>> /\ next = "expunge" /\ request'[r].answer = "none"
        /\ request'[r].op = request[r].op /\ request'[r].folder = request[r].folder
        /\ request'[r].uids = request[r].uids /\ request'[r].found = request[r].found
        /\ request'[r].read = request[r].read /\ request'[r].to = request[r].to
        /\ request'[r].mail = request[r].mail
    BY <1>1 DEF OnTo, Then, NewMail, Refuses
  <1> HIDE DEF next
  <1>3. /\ \A c \in box : \E e \in box' :
              /\ e.uid = c.uid /\ e.mail = c.mail /\ e.folder = c.folder
              /\ c.seen => e.seen
        /\ \A e \in box' : \E c \in box : /\ e.uid = c.uid /\ e.folder = c.folder
                                          /\ c \in Named(r) => e.deleted
    BY <1>1 DEF Changes
  <1>4. \A e \in box' : e.uid \in request'[r].uids => e.folder = request'[r].folder
    BY <1>1, <1>2, <1>3 DEF Going
  <1>5. \A e \in Named(r)' : e.deleted
    BY <1>2, <1>3 DEF Named, In
  <1>6. ASSUME NEW m, Arrived(r, m)
        PROVE  Arrived(r, m)'
    BY <1>2, <1>3, <1>6 DEF Arrived
  <1>7. Filed(r, "Drafts") => Filed(r, "Drafts")'
    BY <1>2, <1>3 DEF Filed
  <1>8. (\A c \in In(request[r].folder) : c.uid \in request[r].uids) =>
            (\A c \in In(request[r].folder) : c.uid \in request[r].uids)'
    BY <1>2, <1>3 DEF In
  <1>9. Moving(r)' => Moving(r)
    BY <1>2 DEF Moving
  <1>10. Moving(r)' => \A m \in Mails(request'[r].found) : Arrived(r, m)'
    BY <1>1, <1>2, <1>6, <1>9 DEF Going
  <1>11. (request[r].op = "empty")' =>
            (\A c \in In(request[r].folder) : c.uid \in request[r].uids)'
    BY <1>1, <1>2, <1>8 DEF Going
  <1>12. (request[r].op = "draft")' => Filed(r, "Drafts")'
    BY <1>1, <1>2, <1>7 DEF Going
  <1>13. request[r].op # "flag" /\ request[r].op # "send"
    BY <1>1 DEF Going
  <1>14. Going(r, next)'
    BY <1>2, <1>4, <1>5, <1>10, <1>11, <1>12, <1>13 DEF Going
  <1> QED BY <1>2, <1>14 DEF Onward, next

LEMMA ExpungeOnward ==
    ASSUME NEW r \in Requests, NEW rest, Ready(r, "expunge", rest)
    PROVE  Onward(r, Head(rest))
  <1>1. /\ Going(r, "expunge") /\ OnTo(r, "expunge", rest) /\ Then(r, "expunge", rest)
        /\ request[r].op \in AllOperations /\ Changes(r, "expunge", box')
    BY DEF Ready, Refuses
  <1>2. request'[r].answer = "ok" /\ request'[r].mail = request[r].mail
    BY <1>1 DEF OnTo, Then, NewMail
  <1>3. /\ \A c \in box : c \in Named(r) \/ c \in box'
        /\ \A e \in box' : e \in box /\ e \notin Named(r)
    BY <1>1 DEF Changes, Going
  <1>4. \A e \in box' : e.uid \notin request[r].uids
    BY <1>1, <1>3 DEF Going, Named, In
  <1>5. ASSUME Moving(r), NEW m \in Mails(request[r].found)
        PROVE  \E e \in box' : e.mail = m /\ e.folder = request[r].to
                               /\ (request[r].read => e.seen)
    <2>1. Arrived(r, m)
      BY <1>1, <1>5 DEF Going
    <2> QED BY <1>3, <2>1 DEF Arrived, Named
  <1>6. request[r].op = "empty" => \A c \in box' : c.folder # request[r].folder
    BY <1>1, <1>3 DEF Going, Named, In
  <1>7. request[r].op = "draft" => \E c \in box' : c.mail = request'[r].mail
                                                  /\ c.folder = "Drafts"
    BY <1>1, <1>2, <1>3 DEF Going, Filed, Named
  <1>8. request[r].op # "flag" /\ request[r].op # "send"
    BY <1>1 DEF Going
  <1>9. Kept(r)
    BY <1>4, <1>5, <1>6, <1>7, <1>8 DEF Kept, Moving
  <1> QED BY <1>2, <1>9 DEF Onward

LEMMA SearchOnward ==
    ASSUME NEW r \in Requests, NEW rest, Ready(r, "search", rest)
    PROVE  Onward(r, Head(rest))
  <1>1. /\ Going(r, "search") /\ OnTo(r, "search", rest) /\ Then(r, "search", rest)
        /\ request[r].op \in AllOperations /\ box' = box
        /\ \A c, d \in box : c.uid = d.uid => c = d
    BY DEF Ready, Refuses, Changes
  <1>2. request[r].op = "empty"
    BY <1>1 DEF Going, Purging, Moving, AllOperations
  <1>3. CASE In(request[r].folder) = {}
    <2>1. request'[r].answer = "ok"
      BY <1>1, <1>3 DEF OnTo, Then
    <2>2. Kept(r)
      BY <1>1, <1>2, <1>3 DEF Kept, In
    <2> QED BY <2>1, <2>2 DEF Onward
  <1>4. CASE In(request[r].folder) # {}
    <2> DEFINE next == Head(rest)
    <2>1. /\ rest # <<>> /\ next = "store" /\ request'[r].answer = "none"
          /\ request'[r].op = request[r].op /\ request'[r].folder = request[r].folder
          /\ request'[r].uids = {c.uid : c \in In(request[r].folder)}
      BY <1>1, <1>4 DEF OnTo, Then
    <2> HIDE DEF next
    <2>2. \A c \in box' : c.uid \in request'[r].uids => c.folder = request'[r].folder
      BY <1>1, <2>1 DEF In
    <2>3. (\A c \in In(request[r].folder) : c.uid \in request[r].uids)'
      BY <1>1, <2>1 DEF In
    <2>4. Going(r, next)'
      BY <1>2, <2>1, <2>2, <2>3 DEF Going, Moving, Purging
    <2> QED BY <2>1, <2>4 DEF Onward, next
  <1> QED BY <1>3, <1>4

LEMMA AppendOnward ==
    ASSUME NEW r \in Requests, NEW rest, Ready(r, "append", rest)
    PROVE  Onward(r, Head(rest))
  <1>1. /\ Going(r, "append") /\ OnTo(r, "append", rest) /\ Then(r, "append", rest)
        /\ request[r].op \in AllOperations /\ Changes(r, "append", box')
        /\ \A u \in request[r].uids : ~(u > last)
    BY DEF Ready, Refuses
  <1>2. request[r].op = "draft"
    BY <1>1 DEF Going, Purging, Moving, AllOperations
  <1>3. \A e \in box' : e \in box \/ e.uid > last
    BY <1>1 DEF Changes
  <1>4. PICK new \in box' : new.mail = last + 1 /\ new.uid > last /\ new.folder = "Drafts"
    BY <1>1 DEF Changes
  <1>5. CASE rest = <<>>
    <2>1. request'[r].answer = "ok" /\ request'[r].mail = last + 1 /\ request[r].uids = {}
      BY <1>1, <1>2, <1>5 DEF OnTo, Then, NewMail, Going
    <2>2. Kept(r)
      BY <1>2, <1>4, <2>1 DEF Kept
    <2> QED BY <2>1, <2>2 DEF Onward
  <1>6. CASE rest # <<>>
    <2> DEFINE next == Head(rest)
    <2>1. /\ next = "store" /\ request'[r].answer = "none"
          /\ request'[r].op = request[r].op /\ request'[r].folder = request[r].folder
          /\ request'[r].uids = request[r].uids /\ request'[r].mail = last + 1
      BY <1>1, <1>6 DEF OnTo, Then, NewMail
    <2> HIDE DEF next
    <2>2. \A c \in box' : c.uid \in request'[r].uids => c.folder = request'[r].folder
      BY <1>1, <1>3, <2>1 DEF Going
    <2>3. Filed(r, "Drafts")'
      BY <1>1, <1>4, <2>1 DEF Filed
    <2>4. Going(r, next)'
      BY <1>2, <2>1, <2>2, <2>3 DEF Going, Moving, Purging
    <2> QED BY <2>1, <2>4 DEF Onward, next
  <1> QED BY <1>5, <1>6

LEMMA DeliverOnward ==
    ASSUME NEW r \in Requests, NEW rest, Ready(r, "deliver", rest)
    PROVE  Onward(r, Head(rest))
  <1> DEFINE next == Head(rest)
  <1>1. /\ Going(r, "deliver") /\ OnTo(r, "deliver", rest) /\ Then(r, "deliver", rest)
        /\ request[r].op \in AllOperations /\ box' = box /\ r \in sent'
    BY DEF Ready, Refuses, Changes
  <1>2. request[r].op = "send"
    BY <1>1 DEF Going, Purging, Moving, AllOperations
  <1>3. /\ rest # <<>> /\ next = "file" /\ request'[r].answer = "none"
        /\ request'[r].op = request[r].op /\ request'[r].folder = request[r].folder
        /\ request'[r].uids = request[r].uids
        /\ request'[r].todo \in Unmarking => request[r].todo \in Unmarking
    BY <1>1 DEF OnTo, Then
  <1> HIDE DEF next
  <1>4. Going(r, next)'
    BY <1>1, <1>2, <1>3 DEF Going, Moving, Purging
  <1> QED BY <1>3, <1>4 DEF Onward, next

LEMMA FileOnward ==
    ASSUME NEW r \in Requests, NEW rest, Ready(r, "file", rest)
    PROVE  Onward(r, Head(rest))
  <1>1. /\ Going(r, "file") /\ OnTo(r, "file", rest) /\ Then(r, "file", rest)
        /\ request[r].op \in AllOperations /\ Changes(r, "file", box') /\ sent' = sent
        /\ \A u \in request[r].uids : ~(u > last)
    BY DEF Ready, Refuses
  <1>2. request[r].op = "send"
    BY <1>1 DEF Going, Purging, Moving, AllOperations
  <1>3. r \in sent'
    BY <1>1, <1>2 DEF Going
  <1>4. \A e \in box' : e \in box \/ e.uid > last
    BY <1>1 DEF Changes
  <1>5. PICK new \in box' : new.mail = last + 1 /\ new.uid > last /\ new.folder = "Sent"
    BY <1>1 DEF Changes
  <1>6. CASE rest = <<>>
    <2>1. request'[r].answer = "ok" /\ request'[r].mail = last + 1
      BY <1>1, <1>6 DEF OnTo, NewMail
    <2>2. request[r].uids = {}
      BY <1>1, <1>2, <1>6 DEF Going, Then
    <2>3. Kept(r)
      BY <1>2, <1>3, <1>5, <2>1, <2>2 DEF Kept
    <2> QED BY <2>1, <2>3 DEF Onward
  <1>7. CASE rest # <<>>
    <2> DEFINE next == Head(rest)
    <2>1. /\ next = "answered" /\ request'[r].answer = "none"
          /\ request'[r].op = request[r].op /\ request'[r].folder = request[r].folder
          /\ request'[r].uids = request[r].uids /\ request'[r].mail = last + 1
          /\ request'[r].todo \in Unmarking => request[r].todo \in Unmarking
      BY <1>1, <1>7 DEF OnTo, Then, NewMail
    <2> HIDE DEF next
    <2>2. /\ \A c \in box' : c.uid \in request'[r].uids => c.folder = request'[r].folder
          /\ request'[r].todo \in Unmarking => request'[r].uids = {}
      BY <1>1, <1>2, <1>4, <2>1 DEF Going
    <2>3. Filed(r, "Sent")'
      BY <1>1, <1>5, <2>1 DEF Filed
    <2>4. Going(r, next)'
      BY <1>2, <1>3, <2>1, <2>2, <2>3 DEF Going, Moving, Purging
    <2> QED BY <2>1, <2>4 DEF Onward, next
  <1> QED BY <1>6, <1>7

LEMMA AnsweredOnward ==
    ASSUME NEW r \in Requests, NEW rest, Ready(r, "answered", rest)
    PROVE  Onward(r, Head(rest))
  <1>1. /\ Going(r, "answered") /\ OnTo(r, "answered", rest) /\ Then(r, "answered", rest)
        /\ request[r].op \in AllOperations /\ Changes(r, "answered", box') /\ sent' = sent
    BY DEF Ready, Refuses
  <1>2. request[r].op = "send"
    BY <1>1 DEF Going, Purging, Moving, AllOperations
  <1>3. request'[r].answer = "ok" /\ request'[r].mail = request[r].mail
    BY <1>1 DEF OnTo, Then, NewMail
  <1>4. \A c \in box : \E e \in box' : e.mail = c.mail /\ e.folder = c.folder
    BY <1>1 DEF Changes
  <1>5. r \in sent' /\ \E c \in box : c.mail = request[r].mail /\ c.folder = "Sent"
    BY <1>1, <1>2 DEF Going, Filed
  <1>6. \A e \in box' : e.uid \in request[r].uids => e.answered
    <2>1. \A c \in box : c.uid \in request[r].uids => c \in Named(r)
      BY <1>1 DEF Going, Named, In
    <2> QED BY <1>1, <2>1 DEF Changes
  <1>7. Kept(r)
    BY <1>2, <1>3, <1>4, <1>5, <1>6 DEF Kept
  <1> QED BY <1>3, <1>7 DEF Onward

LEMMA StepKeepsWhole ==
    ASSUME Inv, OnTheirWay, NEW r \in Requests, Step(r), request[r].alone,
           NEW command, command = Head(request[r].todo), NEW rest, rest = Rest(r, command)
    PROVE  Onward(r, Head(rest)) /\ OnTo(r, command, rest)
  <1>1. /\ TypeOK /\ Numbered /\ Active(r) /\ request[r].todo \in Plans
        /\ request[r] \in Request /\ request[r].op # "none" /\ request[r].todo # <<>>
    BY DEF Inv, Step, Planned, TypeOK, Active
  <1>2. OnTo(r, command, rest) /\ Then(r, command, rest)
    BY <1>1, StepOnward, NextCommand
  <1>3. Going(r, command)
    BY <1>1 DEF OnTheirWay, OnItsWay
  <1>4. command \in Commands
    BY <1>1, PlanParts
  <1>5. IF Refuses(r, command) THEN box' = box ELSE Changes(r, command, box')
    <2>1. CASE Refuses(r, command)
      BY <2>1 DEF Step
    <2>2. CASE ~Refuses(r, command)
      <3>1. box' = Effect(r, command) /\ last + Made(r, command) <= MaxUid
        BY <2>2 DEF Step
      <3>2. Changes(r, command, Effect(r, command))
        BY <1>1, <1>4, <2>2, <3>1, EffectChanges
      <3> QED BY <2>2, <3>1, <3>2
    <2> QED BY <2>1, <2>2
  <1>6. \A u \in request[r].uids : ~(u > last)
    <2>1. request[r].uids \subseteq 1..MaxUid /\ last \in Nat
      BY <1>1, NamedAreThere DEF Request
    <2> QED BY <1>1, <2>1 DEF Numbered
  <1>7. sent' = IF command = "deliver" THEN sent \cup {r} ELSE sent
    BY DEF Step
  <1>8. Ready(r, command, rest)
    BY <1>1, <1>2, <1>3, <1>5, <1>6, <1>7 DEF Ready, Request, TypeOK
  <1>9. Onward(r, Head(rest))
    BY <1>4, <1>8, MarkOnward, MoveOnward, CopyOnward, StoreOnward, ExpungeOnward, SearchOnward,
       AppendOnward, DeliverOnward, FileOnward, AnsweredOnward DEF Commands
  <1> QED BY <1>2, <1>9

-----------------------------------------------------------------------------
(* Requests begin whole, and steps keep them so. *)

\* A request begins.
StartsAs(r, new) ==
    /\ box' = box /\ sent' = sent
    /\ \A p \in Requests \ {r} : request'[p] = request[p]
    /\ request'[r].op = new.op /\ request'[r].todo = new.todo /\ request'[r].folder = new.folder
    /\ request'[r].uids = new.uids /\ request'[r].read = new.read
    /\ request'[r].answer = new.answer
    /\ request'[r].found = {c \in In(new.folder) : c.uid \in new.uids}

LEMMA OpenStarts ==
    ASSUME TypeOK, NEW r \in Requests, NEW new \in Request, Open(r, new)
    PROVE  StartsAs(r, new)
  <1> DEFINE found == {c \in In(new.folder) : c.uid \in new.uids}
             q == [new EXCEPT !.found = found]
  <1>1. /\ q.op = new.op /\ q.todo = new.todo /\ q.folder = new.folder /\ q.uids = new.uids
        /\ q.read = new.read /\ q.answer = new.answer /\ q.found = found
    BY DEF Request
  <1>2. request' = [request EXCEPT ![r] = q] /\ box' = box /\ sent' = sent
    BY DEF Open
  <1>3. request \in [Requests -> Request]
    BY DEF TypeOK
  <1> HIDE DEF q
  <1>4. request'[r] = q /\ \A p \in Requests \ {r} : request'[p] = request[p]
    BY <1>2, <1>3
  <1> QED BY <1>1, <1>2, <1>4 DEF StartsAs

\* What it works on is what it has named.
LEMMA NamedAtStart ==
    ASSUME TypeOK, NEW r \in Requests, NEW new, StartsAs(r, new),
           new.uids \subseteq {c.uid : c \in In(new.folder)}
    PROVE  /\ \A c \in box' : c.uid \in request'[r].uids => c.folder = request'[r].folder
           /\ \A m \in Mails(request'[r].found) : \E c \in Named(r)' : c.mail = m
  <1>1. \A c \in box' : c.uid \in request'[r].uids => c.folder = request'[r].folder
    BY DEF StartsAs, TypeOK, In
  <1>2. \A c \in request'[r].found : c \in Named(r)'
    BY DEF StartsAs, Named, In
  <1> QED BY <1>1, <1>2 DEF Mails

LEMMA BulkStarts ==
    ASSUME TypeOK, Numbered, NEW r \in Requests,
           NEW op \in {"flag", "move", "delete", "purge"}, NEW read \in BOOLEAN,
           NEW folder \in Special, NEW to \in Destinations,
           NEW uids \in SUBSET {c.uid : c \in In(folder)}, Bulk(r, op, read, folder, uids, to)
    PROVE  \E new : StartsAs(r, new) /\ new.answer = "none" /\ Going(r, Head(new.todo))'
  <1> DEFINE new == [NoRequest EXCEPT !.op = op, !.todo = bulk(op, read, folder), !.read = read,
                                      !.folder = folder, !.uids = uids, !.to = to]
             plan == bulk(op, read, folder)
  <1>1. /\ plan = IF op = "flag" THEN <<"mark">>
                  ELSE IF op = "purge" \/ (op = "delete" /\ folder = "Trash")
                  THEN <<"store", "expunge">>
                  ELSE IF read THEN <<"mark", "move">> ELSE <<"move">>
        /\ op = "flag" => read
        /\ op \in {"delete", "purge"} => ~read
    BY BulkPlan DEF Bulk
  <1>2. plan \in Plans /\ plan \in Seq(Commands)
    BY <1>1, PlanType DEF Plans
  <1>3. In(folder) \subseteq box
    BY DEF In
  <1>4. uids \subseteq 1..MaxUid
    BY <1>3, UidsAreOld
  <1>5. to \in Special \cup {Nowhere} /\ op \in AllOperations
    BY MailboxAssumption DEF MailboxAssumption, AllOperations
  <1> HIDE DEF plan
  <1>6. /\ new \in Request /\ new.op = op /\ new.todo = plan /\ new.uids = uids
        /\ new.folder = folder /\ new.read = read /\ new.answer = "none"
    BY <1>2, <1>4, <1>5, NoRequestType DEF NoRequest, Request, plan
  <1>7. Open(r, new)
    BY DEF Bulk
  <1> HIDE DEF new
  <1>8. StartsAs(r, new)
    BY <1>6, <1>7, OpenStarts
  <1>9. /\ \A c \in box' : c.uid \in request'[r].uids => c.folder = request'[r].folder
        /\ \A m \in Mails(request'[r].found) : \E c \in Named(r)' : c.mail = m
    BY <1>6, <1>8, NamedAtStart
  <1>10. /\ request'[r].op = op /\ request'[r].todo = plan /\ request'[r].folder = folder
         /\ request'[r].read = read
    BY <1>6, <1>8 DEF StartsAs
  <1>11. /\ Head(<<"mark">>) = "mark" /\ Tail(<<"mark">>) = <<>>
         /\ Head(<<"mark", "move">>) = "mark" /\ Tail(<<"mark", "move">>) # <<>>
         /\ Head(<<"move">>) = "move" /\ Head(<<"store", "expunge">>) = "store"
    OBVIOUS
  <1> DEFINE next == Head(plan)
  <1>12. /\ op = "flag" => next = "mark" /\ Tail(plan) = <<>>
         /\ op = "purge" \/ (op = "delete" /\ folder = "Trash") => next = "store"
         /\ op = "move" \/ (op = "delete" /\ folder # "Trash") =>
               IF read THEN next = "mark" /\ Tail(plan) # <<>> ELSE next = "move"
    BY <1>1, <1>11
  <1> HIDE DEF next
  <1>13. ASSUME op \in {"flag", "move", "delete"}, ~(op = "delete" /\ folder = "Trash"),
                NEW m \in Mails(request'[r].found)
         PROVE  There(r, m, next)'
    <2>1. read => next = "mark"
      BY <1>12, <1>13
    <2> QED BY <1>9, <1>10, <2>1 DEF There
  <1>14. /\ Moving(r)' => op = "move" \/ (op = "delete" /\ folder # "Trash")
         /\ Purging(r)' => op = "purge" \/ (op = "delete" /\ folder = "Trash")
    BY <1>10 DEF Moving, Purging
  <1>15. Going(r, next)'
    BY <1>1, <1>9, <1>10, <1>12, <1>13, <1>14 DEF Going
  <1> QED BY <1>6, <1>8, <1>15 DEF next

LEMMA EmptyStarts ==
    ASSUME TypeOK, NEW r \in Requests, Empty(r)
    PROVE  \E new : StartsAs(r, new) /\ new.answer = "none" /\ Going(r, Head(new.todo))'
  <1> DEFINE new == [NoRequest EXCEPT !.op = "empty", !.todo = <<"search">>, !.folder = "Trash"]
  <1>1. <<"search">> \in Plans /\ <<"search">> \in Seq(Commands) /\ Head(<<"search">>) = "search"
    BY PlanType DEF Plans
  <1>2. /\ new \in Request /\ new.op = "empty" /\ new.todo = <<"search">> /\ new.uids = {}
        /\ new.answer = "none"
    BY <1>1, NoRequestType DEF NoRequest, Request, AllOperations, Special
  <1>3. Open(r, new)
    BY DEF Empty
  <1> HIDE DEF new
  <1>4. StartsAs(r, new)
    BY <1>2, <1>3, OpenStarts
  <1>5. request'[r].op = "empty" /\ request'[r].uids = {}
    BY <1>2, <1>4 DEF StartsAs
  <1>6. Going(r, "search")'
    BY <1>5 DEF Going, Moving, Purging
  <1> QED BY <1>1, <1>2, <1>4, <1>6

LEMMA DraftStarts ==
    ASSUME TypeOK, Numbered, NEW r \in Requests, NEW replaced, Draft(r, replaced)
    PROVE  \E new : StartsAs(r, new) /\ new.answer = "none" /\ Going(r, Head(new.todo))'
  <1> DEFINE new == [NoRequest EXCEPT !.op = "draft", !.todo = save_draft(replaced # {}),
                                      !.folder = "Drafts", !.uids = replaced]
             plan == save_draft(replaced # {})
  <1>1. plan = IF replaced # {} THEN <<"append", "store", "expunge">> ELSE <<"append">>
    BY DraftPlan
  <1>2. plan \in Plans /\ plan \in Seq(Commands)
    BY <1>1, PlanType DEF Plans
  <1>3. replaced \subseteq {c.uid : c \in In("Drafts")}
    BY DEF Draft
  <1>4. Head(plan) = "append" /\ (replaced # {} => Tail(plan) # <<>>)
    <2>1. /\ Head(<<"append">>) = "append" /\ Head(<<"append", "store", "expunge">>) = "append"
          /\ Tail(<<"append", "store", "expunge">>) # <<>>
      OBVIOUS
    <2> QED BY <1>1, <2>1
  <1>5. replaced \subseteq 1..MaxUid
    <2>1. In("Drafts") \subseteq box
      BY DEF In
    <2> QED BY <1>3, <2>1, UidsAreOld
  <1> HIDE DEF plan
  <1>6. /\ new \in Request /\ new.op = "draft" /\ new.todo = plan /\ new.uids = replaced
        /\ new.folder = "Drafts" /\ new.answer = "none"
    BY <1>2, <1>5, NoRequestType DEF NoRequest, Request, plan, AllOperations, Special
  <1>7. Open(r, new)
    BY DEF Draft
  <1> HIDE DEF new
  <1>8. StartsAs(r, new)
    BY <1>6, <1>7, OpenStarts
  <1>9. \A c \in box' : c.uid \in request'[r].uids => c.folder = request'[r].folder
    BY <1>3, <1>6, <1>8, NamedAtStart
  <1>10. request'[r].op = "draft" /\ request'[r].uids = replaced /\ request'[r].todo = plan
    BY <1>6, <1>8 DEF StartsAs
  <1>11. Going(r, "append")'
    BY <1>4, <1>9, <1>10 DEF Going, Moving, Purging
  <1> QED BY <1>4, <1>6, <1>8, <1>11

LEMMA SendStarts ==
    ASSUME TypeOK, Numbered, NEW r \in Requests, NEW answered, Send(r, answered)
    PROVE  \E new : StartsAs(r, new) /\ new.answer = "none" /\ Going(r, Head(new.todo))'
  <1> DEFINE new == [NoRequest EXCEPT !.op = "send", !.todo = send_message(answered # {}),
                                      !.uids = answered]
             plan == send_message(answered # {})
  <1>1. plan = IF answered # {} THEN <<"deliver", "file", "answered">> ELSE <<"deliver", "file">>
    BY SendPlan
  <1>2. plan \in Plans /\ plan \in Seq(Commands)
    BY <1>1, PlanType DEF Plans
  <1>3. answered \subseteq {c.uid : c \in In("INBOX")}
    BY DEF Send
  <1>4. Head(plan) = "deliver"
    <2>1. /\ Head(<<"deliver", "file">>) = "deliver"
          /\ Head(<<"deliver", "file", "answered">>) = "deliver"
      OBVIOUS
    <2> QED BY <1>1, <2>1
  <1>5. answered \subseteq 1..MaxUid
    <2>1. In("INBOX") \subseteq box
      BY DEF In
    <2> QED BY <1>3, <2>1, UidsAreOld
  <1> HIDE DEF plan
  <1>6. /\ new \in Request /\ new.op = "send" /\ new.todo = plan /\ new.uids = answered
        /\ new.folder = "INBOX" /\ new.answer = "none"
    BY <1>2, <1>5, NoRequestType DEF NoRequest, Request, plan, AllOperations
  <1>7. Open(r, new)
    BY DEF Send
  <1> HIDE DEF new
  <1>8. StartsAs(r, new)
    BY <1>6, <1>7, OpenStarts
  <1>9. \A c \in box' : c.uid \in request'[r].uids => c.folder = request'[r].folder
    BY <1>3, <1>6, <1>8, NamedAtStart
  <1>10. request'[r].op = "send"
    BY <1>6, <1>8 DEF StartsAs
  <1>11. request'[r].todo \in Unmarking => request'[r].uids = {}
    BY <1>1, <1>6, <1>8, MarkingDiffers DEF StartsAs
  <1>12. Going(r, "deliver")'
    BY <1>9, <1>10, <1>11 DEF Going, Moving, Purging
  <1> QED BY <1>4, <1>6, <1>8, <1>12

\* What a step owes to a request.
Whole(r) ==
    request[r].answer = "none" /\ request'[r].answer = "ok" /\ request[r].alone => Kept(r)

LEMMA UntouchedIsWhole ==
    ASSUME NEW p \in Requests, OnItsWay(p), request'[p] = request[p], box' = box, sent' = sent
    PROVE  OnItsWay(p)' /\ Whole(p)
  <1>1. Active(p)' <=> Active(p)
    BY DEF Active
  <1>2. Named(p)' = Named(p) /\ In(request[p].folder)' = In(request[p].folder)
    BY DEF Named, In
  <1>3. ASSUME NEW command, Going(p, command)
        PROVE  Going(p, command)'
    BY <1>2, <1>3 DEF Going, Moving, Purging, There, Arrived, Filed
  <1>4. ASSUME Active(p)', request'[p].alone
        PROVE  Going(p, Head(request[p].todo))'
    <2> DEFINE command == Head(request[p].todo)
    <2>1. PICK c : c = command
      OBVIOUS
    <2>2. Going(p, c)
      BY <1>1, <1>4, <2>1 DEF OnItsWay
    <2>3. Going(p, c)'
      BY <1>3, <2>2
    <2>4. c = Head(request'[p].todo)
      BY <2>1
    <2> QED BY <2>3, <2>4
  <1> QED BY <1>4 DEF OnItsWay, Whole

LEMMA EndedIsWhole ==
    ASSUME NEW p \in Requests, request'[p].answer \notin {"none", "ok"}
    PROVE  OnItsWay(p)' /\ Whole(p)
  BY DEF OnItsWay, Active, Whole

LEMMA CrossedIsWhole ==
    ASSUME NEW p \in Requests, ~request'[p].alone, request'[p].answer = "none"
    PROVE  OnItsWay(p)' /\ Whole(p)
  BY DEF OnItsWay, Active, Whole

LEMMA IdleIsWhole ==
    ASSUME NEW p \in Requests, ~Active(p), request'[p] = request[p]
    PROVE  OnItsWay(p)' /\ Whole(p)
  BY DEF OnItsWay, Active, Whole

LEMMA StartIsWhole ==
    ASSUME OnTheirWay, NEW r \in Requests, NEW p \in Requests,
           \E new : StartsAs(r, new) /\ new.answer = "none" /\ Going(r, Head(new.todo))'
    PROVE  OnItsWay(p)' /\ Whole(p)
  <1>1. PICK new : StartsAs(r, new) /\ new.answer = "none" /\ Going(r, Head(new.todo))'
    OBVIOUS
  <1>2. CASE p = r
    <2>1. request'[p].answer = "none" /\ request'[p].todo = new.todo
      BY <1>1, <1>2 DEF StartsAs
    <2>2. Going(p, Head(request[p].todo))'
      BY <1>1, <1>2, <2>1
    <2> QED BY <2>1, <2>2 DEF OnItsWay, Whole
  <1>3. CASE p # r
    BY <1>1, <1>3, UntouchedIsWhole DEF StartsAs, OnTheirWay
  <1> QED BY <1>2, <1>3

LEMMA StepIsWhole ==
    ASSUME Inv, OnTheirWay, NEW r \in Requests, NEW p \in Requests, Step(r)
    PROVE  OnItsWay(p)' /\ Whole(p)
  <1>1. PICK command : command = Head(request[r].todo)
    OBVIOUS
  <1>2. PICK rest : rest = Rest(r, command)
    OBVIOUS
  <1>3. OnTo(r, command, rest) /\ Crossed(r)
    BY <1>1, <1>2, StepOnward
  <1>4. CASE p # r
    BY <1>3, <1>4, CrossedIsWhole, IdleIsWhole DEF Crossed
  <1>5. CASE p = r /\ ~request[r].alone
    BY <1>3, <1>5 DEF OnTo, OnItsWay, Active, Whole
  <1>6. CASE p = r /\ request[r].alone
    <2>1. Onward(r, Head(rest))
      BY <1>1, <1>2, <1>6, StepKeepsWhole
    <2>2. Whole(r)
      BY <2>1 DEF Onward, Whole
    <2>3. ASSUME Active(r)'
          PROVE  Going(r, Head(request[r].todo))'
      <3>1. request'[r].answer = "none" /\ request'[r].todo = rest
        BY <1>3, <2>3 DEF OnTo, Active
      <3> QED BY <2>1, <3>1 DEF Onward
    <2> QED BY <1>6, <2>2, <2>3 DEF OnItsWay
  <1> QED BY <1>4, <1>5, <1>6

LEMMA FaultIsWhole ==
    ASSUME Inv, NEW r \in Requests, NEW p \in Requests, NEW done \in BOOLEAN,
           NEW mailbox_error \in BOOLEAN, Fault(r, done, mailbox_error)
    PROVE  OnItsWay(p)' /\ Whole(p)
  <1> DEFINE answer == IF mailbox_error THEN "not filed" ELSE "failed"
             new == Answered(request[r], answer)
  <1>1. TypeOK /\ answer \in Answers /\ answer \notin {"none", "ok"}
    BY DEF Inv, Answers
  <1>2. new \in Request /\ new.answer = answer
    BY <1>1, AnsweredType DEF TypeOK
  <1>3. request' = Others(r, [request EXCEPT ![r] = new])
    BY DEF Fault
  <1> HIDE DEF new, answer
  <1>4. Crossed(r) /\ request'[r] = new
    BY <1>1, <1>2, <1>3, OthersAreCrossed
  <1>5. CASE p = r
    BY <1>1, <1>2, <1>4, <1>5, EndedIsWhole
  <1>6. CASE p # r
    BY <1>4, <1>6, CrossedIsWhole, IdleIsWhole DEF Crossed
  <1> QED BY <1>5, <1>6

LEMMA RefusedIsWhole ==
    ASSUME Inv, OnTheirWay, NEW r \in Requests, NEW p \in Requests, DeliverRefuses(r)
    PROVE  OnItsWay(p)' /\ Whole(p)
  <1>1. "refused" \in Answers /\ request \in [Requests -> Request]
    BY DEF Answers, Inv, TypeOK
  <1>2. Answered(request[r], "refused").answer = "refused"
    BY <1>1, AnsweredType
  <1>3. /\ request' = [request EXCEPT ![r] = Answered(request[r], "refused")]
        /\ box' = box /\ sent' = sent
    BY DEF DeliverRefuses
  <1>4. CASE p = r
    <2>1. request'[p].answer = "refused"
      BY <1>1, <1>2, <1>3, <1>4
    <2> QED BY <2>1, EndedIsWhole
  <1>5. CASE p # r
    <2>1. request'[p] = request[p]
      BY <1>1, <1>3, <1>5
    <2> QED BY <1>3, <2>1, UntouchedIsWhole DEF OnTheirWay
  <1> QED BY <1>4, <1>5

LEMMA MoveRefusedIsWhole ==
    ASSUME Inv, OnTheirWay, NEW r \in Requests, NEW p \in Requests, MoveIsRefused(r)
    PROVE  OnItsWay(p)' /\ Whole(p)
  <1>1. FallsBack(r) /\ TypeOK
    BY MoveFallsBack DEF Inv
  <1>2. CASE p = r
    <2>1. /\ request'[r].todo = Fallback /\ request'[r].op = request[r].op
          /\ request'[r].folder = request[r].folder /\ request'[r].uids = request[r].uids
          /\ request'[r].to = request[r].to /\ request'[r].read = request[r].read
          /\ request'[r].found = request[r].found /\ request'[r].alone = request[r].alone
          /\ request'[r].answer = request[r].answer
      BY <1>1, FallenBack
    <2>2. Active(r) /\ request[r].answer = "none" /\ Head(request[r].todo) = "move"
      BY <1>1 DEF FallsBack, Active
    <2>3. ASSUME request'[r].alone
          PROVE  Going(r, Head(request[r].todo))'
      <3>1. Going(r, "move")
        BY <2>1, <2>2, <2>3 DEF OnTheirWay, OnItsWay
      <3>2. Named(r)' = Named(r) /\ box' = box
        BY <1>1, <2>1 DEF Named, In, FallsBack
      <3>3. Going(r, "copy")'
        BY <2>1, <3>1, <3>2 DEF Going, Moving, Purging, There
      <3>4. Head(request'[r].todo) = "copy"
        BY <2>1 DEF Fallback
      <3> QED BY <3>3, <3>4
    <2> QED BY <1>2, <2>1, <2>2, <2>3 DEF OnItsWay, Whole
  <1>3. CASE p # r
    <2>1. request'[p] = request[p] /\ box' = box /\ sent' = sent
      BY <1>1, <1>3, FallenBack DEF FallsBack
    <2> QED BY <2>1, UntouchedIsWhole DEF OnTheirWay
  <1> QED BY <1>2, <1>3

LEMMA AppIsWhole ==
    ASSUME Inv, NEW p \in Requests, App
    PROVE  OnItsWay(p)' /\ Whole(p)
  <1>1. request[p] \in Request
    BY DEF Inv, TypeOK
  <1>2. CASE Active(p)
    <2>1. request'[p] = [request[p] EXCEPT !.alone = FALSE]
      BY <1>2 DEF App
    <2>2. ~request'[p].alone /\ request'[p].answer = "none"
      BY <1>1, <1>2, <2>1 DEF Request, Active
    <2> QED BY <2>2, CrossedIsWhole
  <1>3. CASE ~Active(p)
    BY <1>3, IdleIsWhole DEF App
  <1> QED BY <1>2, <1>3

LEMMA NextIsWhole ==
    ASSUME Inv, OnTheirWay, [Next]_vars, NEW p \in Requests
    PROVE  OnItsWay(p)' /\ Whole(p)
  <1>1. TypeOK /\ Numbered
    BY DEF Inv
  <1>2. ASSUME NEW r \in Requests, NEW op \in {"flag", "move", "delete", "purge"},
               NEW read \in BOOLEAN, NEW folder \in Special, NEW to \in Destinations,
               NEW uids \in (SUBSET {c.uid : c \in In(folder)}) \ {{}},
               Bulk(r, op, read, folder, uids, to)
        PROVE  OnItsWay(p)' /\ Whole(p)
    <2>1. uids \in SUBSET {c.uid : c \in In(folder)}
      OBVIOUS
    <2> QED BY <1>1, <1>2, <2>1, BulkStarts, StartIsWhole
  <1>3. ASSUME NEW r \in Requests, Empty(r)
        PROVE  OnItsWay(p)' /\ Whole(p)
    BY <1>1, <1>3, EmptyStarts, StartIsWhole
  <1>4. ASSUME NEW r \in Requests, NEW uids, Draft(r, uids)
        PROVE  OnItsWay(p)' /\ Whole(p)
    BY <1>1, <1>4, DraftStarts, StartIsWhole
  <1>5. ASSUME NEW r \in Requests, NEW uids, Send(r, uids)
        PROVE  OnItsWay(p)' /\ Whole(p)
    BY <1>1, <1>5, SendStarts, StartIsWhole
  <1>6. ASSUME NEW c, AppMarks(c)
        PROVE  OnItsWay(p)' /\ Whole(p)
    BY <1>6, AppIsWhole DEF AppMarks
  <1>7. ASSUME NEW folder, AppExpunges(folder)
        PROVE  OnItsWay(p)' /\ Whole(p)
    BY <1>7, AppIsWhole DEF AppExpunges
  <1>8. CASE UNCHANGED vars
    BY <1>8, UntouchedIsWhole DEF vars, OnTheirWay
  <1> QED BY <1>2, <1>3, <1>4, <1>5, <1>6, <1>7, <1>8, StepIsWhole, FaultIsWhole,
             RefusedIsWhole, MoveRefusedIsWhole, Zenon DEF Next

\* A request that no other hand has crossed and that is answered with success has done all
\* it was asked, for any plan of any request, with MOVE and without (bulk_messages,
\* mark_message, delete_message, empty_folder, save_draft, send_message).
THEOREM AloneSuccessIsWhole == Spec => SuccessIsWhole
  <1> DEFINE IWhole == Inv /\ OnTheirWay
             Done == \A r \in Requests :
                        request[r].answer = "none" /\ request'[r].answer = "ok"
                        /\ request[r].alone => Kept(r)
  <1>1. Init => IWhole
    BY InitInv DEF Init, OnTheirWay, OnItsWay, Active, NoRequest
  <1>2. IWhole /\ [Next]_vars => IWhole'
    BY NextInv, NextIsWhole DEF OnTheirWay
  <1>3. IWhole /\ [Next]_vars => [Done]_vars
    BY NextIsWhole DEF Whole
  <1> HIDE DEF IWhole, Done
  <1>4. Spec => [][Done]_vars
    BY <1>1, <1>2, <1>3, PTL DEF Spec
  <1> QED BY <1>4 DEF SuccessIsWhole, Done
=============================================================================
