---------------------------- MODULE MCReporting ----------------------------
(* Instances of Reporting for TLC: a root zone, a zone nested below it and  *)
(* an entry.                                                                *)
EXTENDS Reporting

CONSTANTS z1, z2, e1

NoOption == [c \in Controllers |-> nil]

ZoneSpec(parent, ok) == [parent |-> parent, class |-> nil, runtime |-> nil, ok |-> ok]

\* The specs users write, for each object.
Written ==
    [x \in Objects |->
        CASE x = z1 -> {ZoneSpec(NoZone, TRUE)}
          [] x = z2 -> {ZoneSpec(z1, b) : b \in BOOLEAN}
          [] x = e1 -> {[parent |-> z1, ok |-> TRUE]}]

\* A request that will meet a conflict writes nothing, whatever it computed.
Effective ==
    <<objs, queue, env, missed, used,
      [w \in Workers |-> IF req[w].stale THEN [req[w] EXCEPT !.status = nil] ELSE req[w]]>>
=============================================================================
