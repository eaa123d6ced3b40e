--------------------------- MODULE MCLedgerWrites ---------------------------
\* LedgerWrites on two titles and four plans, for TLC.
EXTENDS LedgerWrites

Add(t) == [op |-> "create", title |-> t, status |-> "todo"]
Upd(r, t, s) == [op |-> "update", ref |-> r, title |-> t, status |-> s]

\* A plan that adds a task, one that gives a task the title another may have, one that
\* completes a task it names by title, and one that adds a task and completes it.
SomePlans == {<<Add("a")>>, <<Upd("a", "b", "same")>>, <<Upd("a", "same", "done")>>,
              <<Add("b"), Upd("b", "same", "done")>>}

=============================================================================
