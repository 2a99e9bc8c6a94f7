----------------------------- MODULE MCMembers -----------------------------
(* Small instances of Members.                                             *)
EXTENDS Members

MCByRole == {"role"}

\* One of a day, one after it that goes on, and one that overlaps both.
MCPeriods == {[since |-> 0, until |-> 0], [since |-> 1, until |-> Open],
              [since |-> 0, until |-> 1]}
=============================================================================
