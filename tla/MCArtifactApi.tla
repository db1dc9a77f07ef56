---------------------------- MODULE MCArtifactApi ----------------------------
(* Instances of ArtifactApi for TLC.                                        *)
EXTENDS ArtifactApi

MCKeys == {"k1", "k2"}
MCAliases == [dot1 |-> "k1", up |-> "invalid"]

Req(kind, key) == [kind |-> kind, key |-> key, sess |-> "s1", path |-> Blank, at |-> 0, op |-> Blank, body |-> Blank]
Put(key, body) == [Req("userPut", key) EXCEPT !.body = body]
Stated(op, key, at) == [Req("sysAppend", key) EXCEPT !.op = op, !.at = at]

Base == [reqs |-> <<>>, order |-> <<"k1", "k2">>, workdirs |-> {"s1"},
         paths |-> {<<"wd", "s1", "k1">>, <<"wd", "s1", "f">>, <<"cwd", "f">>}, dbFails |-> FALSE,
         bodyFails |-> FALSE, putDisabled |-> FALSE]

F(sort, desc) == [sessions |-> {}, op |-> Blank, since |-> 0, until |-> 0, q |-> MCKeys,
                  deleted |-> FALSE, sort |-> sort, desc |-> desc]
MCFilters == {F(s, d) : s \in {"occurred_at", "key", "operation"}, d \in BOOLEAN}
        \cup {[F("occurred_at", FALSE) EXCEPT !.deleted = TRUE, !.since = 2],
              [F("key", TRUE) EXCEPT !.op = "create", !.until = 3],
              [F("key", FALSE) EXCEPT !.sessions = {"s1"}, !.q = {"k1"}]}

\* Three writers of one user key, from the API and the MCP tool.
UserMixes == {<<Put("k1", "a"), Put("k1", "b"), Req("userDelete", "k1"), Req("userGet", "k1")>>,
              <<Put("k1", "a"), Put("k1", "b"), Req("userGet", "k1")>>,
              <<Put("k1", "a"), Req("userDelete", "k1"), Req("userGet", "k1")>>,
              <<Put("k1", "a"), [Put("k1", "b") EXCEPT !.kind = "mcpPut"], Req("userDelete", "k1")>>,
              <<Put("k1", "a"), Put("k2", "c"), Req("userArchive", "k1")>>}
Users == {[Base EXCEPT !.reqs = m] : m \in UserMixes}
         \cup {[Base EXCEPT !.reqs = m, !.dbFails = TRUE, !.bodyFails = TRUE, !.putDisabled = TRUE] : m \in UserMixes}

Put1 == Req("sysPut", "k1")
Delete1 == Req("sysDelete", "k1")
Other == [Req("sysPut", "dot1") EXCEPT !.path = "f"]
SystemMixes == {<<Put1, Delete1, Other, [Delete1 EXCEPT !.at = 2]>>,
                <<[Put1 EXCEPT !.at = 2], Delete1, Stated("delete", "k1", 0)>>,
                <<Stated("create", "k1", 2), Stated("update", "k2", 0), Stated("delete", "k2", 3), Other>>,
                <<[Put1 EXCEPT !.sess = "s2"], [Other EXCEPT !.sess = "s2"], [Put1 EXCEPT !.sess = Blank],
                  Req("sysPut", "up"), Stated("move", "k1", 0), [Delete1 EXCEPT !.path = "g"]>>}
Systems == {[Base EXCEPT !.reqs = m] : m \in SystemMixes}
         \cup {[Base EXCEPT !.reqs = <<Put1, Delete1>>, !.dbFails = TRUE]}
MCScenarios == Users \cup Systems
=============================================================================
