---------------------------- MODULE RouteExpiry -----------------------------
(***************************************************************************)
(* Routing under ideal timing: every running worker ticks exactly once per *)
(* period, and whatever it sends arrives before the next period begins.    *)
(* Under this timing the age of an installed route is bounded only by what *)
(* the code does about age, so the bound stated in table.rs can be tested. *)
(***************************************************************************)
EXTENDS Routing

CONSTANT Grace   \* how long after its timeout a route may still be seen

VARIABLE ticked  \* the workers whose ticker fired in this period

evars == <<vars, ticked>>

EInit == Init /\ ticked = {}

PunctualTick(n) == n \notin ticked /\ Tick(n) /\ ticked' = ticked \cup {n}

PunctualClock ==
    /\ up \subseteq ticked
    /\ \A n, m \in Node : syncs[n][m] = <<>>
    /\ Clock
    /\ ticked' = {}

(* Everything else the workers and the network do, at any moment. *)
Untimed ==
    /\ \/ \E n \in Node : Stop(n) \/ Start(n)
       \/ \E n, m \in Node : \/ RecvSync(n, m)
                             \/ Disconnected(n, m)
                             \/ StaleDisconnected(n, m)
                             \/ Connect(n, m)
    /\ UNCHANGED ticked

ENext == (\E n \in Node : PunctualTick(n)) \/ PunctualClock \/ Untimed

ESpec == EInit /\ [][ENext]_evars

(* "a route will be removed after 5 seconds no update" (table.rs): no      *)
(* running worker holds a route whose provider was last heard of more than *)
(* ROUTE_TIMEOUT_MS, and the granularity of ticks and deliveries, ago.     *)
RemovedAfterTimeout ==
    \A n \in up, l \in Layers, m \in Node :
        table[n].remotes[l][m] # None =>
            NowMs(n) <= table[n].remotes[l][m].last_updated + ROUTE_TIMEOUT_MS + Grace
=============================================================================
