-------------------------- MODULE MCArtifactAnalysis --------------------------
(* Instances of ArtifactAnalysis for TLC.                                   *)
EXTENDS ArtifactAnalysis

MCSizeOf == [a |-> 1, b |-> 2, c |-> 2]

Tool(t, k) == <<t, k, {}>>
Command(t, cmd) == <<t, "k1", cmd>>
Replace1 == {<<"k1", "delete">>, <<"k1", "create">>}
Make2 == {<<"k2", "create">>}
Claude == {Tool(t, "k1") : t \in Mapped} \cup {Command("Bash", c) : c \in {Replace1, Make2, {}}}
Codex == {Tool("file_change", "k1")} \cup {Command("command_execution", c) : c \in {Replace1, Make2}}

Base == [codex |-> FALSE, structured |-> TRUE, shell |-> TRUE, workdir |-> TRUE, git |-> FALSE,
         ignored |-> {}, disk |-> [k1 |-> "b", k2 |-> Absent], ids |-> TRUE, json |-> FALSE,
         follows |-> 0, drains |-> TRUE, stops |-> FALSE, commits |-> FALSE, dbFails |-> FALSE,
         refuses |-> FALSE, breaks |-> FALSE,
         turns |-> 1, calls |-> 2, tools |-> Claude, writes |-> {"a"}]

\* One handler follows each turn, for each kind of directory, and inserts may fail.
Followed == {[Base EXCEPT !.dbFails = TRUE, !.calls = 1],
             [Base EXCEPT !.ids = FALSE, !.json = TRUE,
                          !.tools = {Tool("Edit", "k1"), Command("Bash", Make2)}],
             [Base EXCEPT !.git = TRUE, !.ignored = {"k2"}, !.commits = TRUE, !.codex = TRUE,
                          !.tools = {Tool("file_change", "k1"), Command("command_execution", Make2)}],
             [Base EXCEPT !.structured = FALSE, !.shell = FALSE, !.writes = Contents,
                          !.tools = {Tool("Write", "k1"), Command("Bash", Make2)}],
             [Base EXCEPT !.turns = 2, !.tools = {Tool("Delete", "k1"), Command("Bash", Make2)}],
             [Base EXCEPT !.tools = {Command("Bash", Make2), Command("Bash", {})}]}
\* Messages are refused and the agent breaks, with and without a retryable error.
Broken == {[Base EXCEPT !.turns = 2, !.refuses = TRUE, !.breaks = TRUE,
                        !.tools = {Tool("Write", "k1"), Command("Bash", Make2)}]}
\* Clients come and go.
Left == {[Base EXCEPT !.follows = 1, !.workdir = FALSE,
                      !.tools = {Tool("Write", "k1"), Command("Bash", Replace1)}],
         [Base EXCEPT !.follows = 1, !.codex = TRUE, !.tools = Codex, !.calls = 1],
         [Base EXCEPT !.follows = 1, !.json = TRUE, !.tools = {Tool("Edit", "k1"), Command("Bash", Make2)}]}
\* A client cancels or terminates, during the turn or after it; the flush meets the readers.
Stopped == {[Base EXCEPT !.stops = TRUE, !.json = TRUE, !.workdir = FALSE,
                         !.tools = {Tool("Edit", "k1"), Command("Bash", Replace1)}],
            [Base EXCEPT !.stops = TRUE, !.follows = 1, !.json = TRUE, !.dbFails = TRUE,
                         !.tools = {Tool("Edit", "k1"), Tool("Write", "k2")}],
            [Base EXCEPT !.stops = TRUE, !.tools = {Tool("Write", "k1"), Command("Bash", Replace1)}],
            [Base EXCEPT !.stops = TRUE, !.git = TRUE, !.tools = {Tool("Write", "k1"), Command("Bash", {})},
                         !.turns = 2, !.calls = 1]}
MCScenarios == Followed \cup Broken \cup Left \cup Stopped
=============================================================================
