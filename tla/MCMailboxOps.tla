---------------------------- MODULE MCMailboxOps ----------------------------
(* Small instances of MailboxOps. *)
EXTENDS MailboxOps, TLC

At(uid, folder) == [uid |-> uid, mail |-> uid, folder |-> folder, seen |-> FALSE,
                    deleted |-> FALSE, answered |-> FALSE]

\* A message to read, one in Trash, a draft.
const_Initial == {At(1, "INBOX"), At(2, "Trash"), At(3, "Drafts")}

Symmetry == Permutations(Requests)
=============================================================================
