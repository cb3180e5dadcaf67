------------------------------ MODULE MCRequests ------------------------------
EXTENDS Requests

CONSTANTS r1, r2, r3, t1, t2

\* Two requests for the same thread, and a command for another.
MCThreadOf == [r \in Requests |-> IF r = r3 THEN t2 ELSE t1]
MCBootstraps ==
  [r \in Requests |-> IF r = r3 THEN {{}} ELSE {{}, {"createThread"}, {"prepareWorktree"}, Parts}]

=============================================================================
