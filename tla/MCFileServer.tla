---------------------------- MODULE MCFileServer ----------------------------
\* Model values for FileServer: a file shorter than the clients' own, a longer
\* one, and one the server does not have.  Clients are named in the order in
\* which they connect: every behaviour is one of these, up to names.
EXTENDS FileServer, TLC
CONSTANTS c1, c2, short, long, missing
MCClient == {c1, c2}
MCOneClient == {c1}
MCName == {short, long, missing}
MCOldSize == short :> 1 @@ long :> 3
NamedInOrder == client'[c2] # "new" => client'[c1] # "new"
MCSpec == Init /\ [][Next /\ NamedInOrder]_vars /\ Fairness
=============================================================================
