-------------------------- MODULE MCSessionRegistry --------------------------
EXTENDS RuntimeRestart

CONSTANTS s1, s2, c1, c2

Directories == [s \in Session |-> IF s = s1 THEN c1 ELSE c2]

\* One session is asked for everything; the other is an old one, which is
\* opened, stopped for being idle, and swept up by what is asked of its
\* workspace and of the server.
Bystander ==
  /\ file[s2] = "written"
  /\ operation[s2].kind = "none"
  /\ \A r \in Runtime : runtime[r].session = s2 =>
       ~runtime[r].mutating /\ ~runtime[r].error /\ runtime[r].at # "retained"

\* The coordinator meets every state of one session; a login is looked at alone.
OneByOne ==
  /\ coordinator # "idle" => \A r \in Runtime : runtime[r].session # s2
  /\ authFlow => Pending \cup Records = {}
=============================================================================
