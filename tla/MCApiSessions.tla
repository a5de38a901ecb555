--------------------------- MODULE MCApiSessions ---------------------------
EXTENDS ApiSessions, TLC

\* Every open, close, creation and removal, in requests that work against each other.
OpenOrClose == {[ops |-> {"openProject", "closeFile"}, remove |-> Ids],
                [ops |-> {"closeProject", "openFile", "create"}, remove |-> {}]}

OpenOnly == {[ops |-> {"openProject"}, remove |-> {}]}

\* The programs of an earlier request are replaced in one go.
RemoveAndCreate == {[ops |-> {"create"}, remove |-> {}], [ops |-> {"create"}, remove |-> {1}]}

Symmetry == Permutations(Clients) \cup Permutations(Requests)
=============================================================================
