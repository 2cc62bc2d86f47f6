----------------------------- MODULE MCFutures -----------------------------
(* Each macro over three foreign futures, nested ones with timeouts and timers,
   every unit of time, and paced loops, with clocks of a few ticks per second. *)
EXTENDS Futures

CONSTANTS a, b, c

MCPerSecond == [ms |-> 2, us |-> 3, ns |-> 5, ps |-> 8]
MCSeconds == [mins |-> 2, hour |-> 3, day |-> 4, week |-> 5, month |-> 6, year |-> 7]

Calls == {"year", "month", "week", "day", "hour", "mins", "s", "hz", "ms", "us",
          "ns", "ps", "fps"}

MCPrograms ==
    {Macro(m, <<Leaf(a), Leaf(b), Leaf(c)>>) : m \in {"join!", "try_join!", "join_all!", "select!"}}
    \cup {Macro("join!", <<>>), Macro("join!", <<Leaf(a)>>), Macro("join_all!", <<Timeout(Leaf(a), 0)>>),
          Macro("join_all!", <<Timeout(Leaf(a), 40), Timer("t", "s", 2)>>)}
    \cup {Macro("join_all!", <<Timeout(Leaf(a), 2),
                               Macro("select!", <<Leaf(b), Timer("t", "ms", 2)>>),
                               Yield("y")>>),
          Macro("try_join!", <<Timeout(Leaf(a), 1), Timeout(Macro("join!", <<Leaf(b), Skip("k", 2)>>), 3)>>),
          Macro("select!", <<Timeout(Macro("try_join!", <<Leaf(a), Leaf(b)>>), 3),
                             Timer("t", "s", 1), Leaf(c)>>)}
    \cup {Macro("join_all!", <<Timer("t", call, n), Skip("k", 1)>>) : call \in Calls, n \in 0..2}
    \cup {Macro("join!", <<Paced("p", first, update, i, repeat, 5), Skip("k", 1)>>) :
              first \in 0..2, update \in 0..2, i \in {0, 2}, repeat \in BOOLEAN}
=============================================================================
