-------------------------- MODULE MCFileActivity --------------------------
(* A small tree of transcripts: a conversation, its retries and branches.   *)
EXTENDS FileActivity

CONSTANTS f1, f2

MCFile == {f1, f2}

Says      == [role |-> "assistant", file |-> NoFile, ok |-> FALSE]
Asks      == [role |-> "user", file |-> NoFile, ok |-> FALSE]
Used(f)   == [role |-> "user", file |-> f, ok |-> TRUE]
Failed(f) == [role |-> "user", file |-> f, ok |-> FALSE]

First == <<Asks>>

\* Branches of one conversation: an operation that is repeated, or merely
\* re-sent with a failed one behind it, and both files in more operations than
\* one request parses.
Sent == {First, First \o <<Says, Used(f1)>>,
         First \o <<Says, Used(f1), Says, Used(f1)>>,
         First \o <<Says, Used(f1), Says, Failed(f1)>>,
         First \o <<Says, Used(f2), Used(f1), Used(f2)>>}
=============================================================================
