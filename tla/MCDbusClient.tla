---------------------------- MODULE MCDbusClient ----------------------------
(***************************************************************************)
(* Instances of DbusClient for TLC: the values sent, the subscriptions and *)
(* the signals of the bus, and what each behaviour is about.               *)
(***************************************************************************)
EXTENDS DbusClient

\* values that encode, and values over a limit or of the wrong type
Str == Basic("s", 1)
Nested == Dictionary(<<"s">>, <<"a", "s">>, <<Str, Array(<<"s">>, <<Str>>)>>)
SomeArguments ==
  ("c2" :> {<<Structure(<<Str, Variant(Str)>>)>>}) @@ ("c1" :>
  { <<Nested, ByteArray(1)>>, <<Basic("o", Bad)>>, <<Array(<<"s">>, <<Nested>>)>>, <<ByteArray(9)>> })

AnyPath == <<"any">>
SomeMatch ==
  ("s1" :> [name |-> "Changed", sender |-> ":1", path |-> AnyPath, space |-> <<"org", "a">>]) @@
  ("s2" :> [name |-> "Changed", sender |-> "name", path |-> <<"org", "a", "b">>, space |-> AnyPath])
SomeSignals ==
  { [name |-> "Changed", sender |-> ":1", path |-> <<"org", "a", "b">>, bytes |-> 2, good |-> TRUE],
    [name |-> "Changed", sender |-> ":2", path |-> <<"org", "a", "b">>, bytes |-> 1, good |-> FALSE],
    [name |-> "Changed", sender |-> ":1", path |-> <<"org", "a">>, bytes |-> 3, good |-> TRUE] }

Workload(ss, rs, n, drain, outage, shutdown) ==
  [subscribed |-> ss, requests |-> rs, arrivals |-> n, drains |-> drain, outage |-> outage,
   shutdown |-> shutdown]

\* calls through every end; a subscription; two with signals and a drain
SomeWorkloads ==
  { Workload({}, {"c1", "c2"}, 0, FALSE, TRUE, FALSE), Workload({}, {"c1"}, 0, FALSE, TRUE, TRUE),
    Workload({"s2"}, {"s1"}, 1, FALSE, FALSE, FALSE),
    Workload({"s1", "s2"}, {}, 2, TRUE, FALSE, TRUE) }
=============================================================================
