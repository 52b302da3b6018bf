----------------------------- MODULE MCPipeline -----------------------------
EXTENDS Pipeline
FilesOf(n, binds) == [mode |-> "files", lines |-> n, filtered |-> {}, ends |-> FALSE, binds |-> binds]
StdinOf(n, filtered, ends, reloads) ==
    [mode |-> "stdin", lines |-> n, filtered |-> filtered, ends |-> ends,
     binds |-> [i \in 1 .. reloads + 1 |-> "a"]]
Checked == {FilesOf(2, <<"a">>), FilesOf(1, <<"a", "b">>), FilesOf(0, <<"a", "b", "b">>),
            StdinOf(3, {}, TRUE, 1), StdinOf(3, {1}, TRUE, 1), StdinOf(2, {2}, TRUE, 0),
            StdinOf(2, {}, FALSE, 0)}
=============================================================================
