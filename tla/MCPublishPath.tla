---------------------------- MODULE MCPublishPath ----------------------------
(* Small instances of PublishPath. *)
EXTENDS PublishPath

Sub(share, filter, noLocal, rh) ==
    [share |-> share, filter |-> filter, noLocal |-> noLocal, rh |-> rh]
Pub(c, topic, alias, qos, retain, empty) ==
    [c |-> c, topic |-> topic, alias |-> alias, qos |-> qos, retain |-> retain, empty |-> empty]

MCSystemLevels == {"$s"}
MCSubPackets ==
    {"c1"} \X {Sub(NoShare, <<"a", "b">>, FALSE, 1), Sub("g", <<"a">>, FALSE, 0)}
    \cup {"c2"} \X {Sub(NoShare, <<"a">>, TRUE, 2), Sub(NoShare, <<"+", "#">>, FALSE, 0)}
MCSharedSubPackets == {"c1", "c2"} \X {Sub("g", <<"a">>, FALSE, 0)}
MCPubPackets ==
    {Pub("c1", <<"a">>, 0, 2, FALSE, FALSE), Pub("c1", <<"a", "b">>, 1, 1, TRUE, FALSE),
     Pub("c1", <<>>, 1, 1, TRUE, FALSE), Pub("c2", <<"a", "b">>, 0, 1, TRUE, TRUE)}
MCServerPublishes == {[src |-> "c2", topic |-> <<"$s">>, qos |-> 0]}
==============================================================================
