------------------------------- MODULE MCKobj -------------------------------
(* Instances of Kobj and Ktimer for TLC. *)
EXTENDS KobjInv

MCTasks  == 1..3
AllTypes == {"sem", "mutex", "queue", "event", "timer"}
Making   == {"create", "delete"}
MCCalls  == [sem   |-> <<{"get", "put"}, {"get", "put"}, {"put", "release"} \cup Making>>,
             mutex |-> <<{"get", "put"}, {"get", "put"}, {"get", "put"} \cup Making>>,
             queue |-> <<{"get"}, {"put", "front"}, {"get"} \cup Making>>,
             event |-> <<{"get"}, {"get"}, {"put", "clear", "create"}>>,
             timer |-> <<{"twait"}, {}, {"arm", "setfn", "disarm", "release"}>>]
OneDomain == [t \in MCTasks |-> 1]
MCDelays == {0, 1}
MCKeys   == {1, 2}
AnyWait  == [t \in MCTasks |-> CASE t = 1 -> {"timed"} [] t = 2 -> {"forever"} [] OTHER -> {"poll"}]
MCBits   == {0, 1}
MCEvents == {[want |-> {0}, all |-> TRUE, clear |-> TRUE], [want |-> {0, 1}, all |-> TRUE, clear |-> FALSE]}
=============================================================================
