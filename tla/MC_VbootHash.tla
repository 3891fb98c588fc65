---------------------------- MODULE MC_VbootHash ----------------------------
EXTENDS VbootHash

Image == [off |-> 0, size |-> 2]
First == [off |-> 0, size |-> 1]
Last  == [off |-> 1, size |-> 1]

Of(cmd, r) == [cmd |-> cmd, off |-> r.off, size |-> r.size]

\* Only the host waits for its hash.  The console, which nothing comes between
\* while it does not sleep, writes one block, which the hash of Last is not of.
Asked == [c \in Clients |->
            {Of("start", Image), Of("start", Last), Of("abort", Image), Of("erase", Image)}
            \cup (IF c = "hostcmd" THEN {Of("recalc", Image), Of("write", Image)}
                  ELSE {Of("write", First)})]
=============================================================================
