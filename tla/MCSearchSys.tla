----------------------------- MODULE MCSearchSys -----------------------------
EXTENDS SearchSys, TLC

CONSTANTS p1, p2, f1, f2, s1, s2

MCFold == <<1 :> 1 @@ 2 :> 1 @@ 3 :> 2, 1 :> 1 @@ 2 :> 2 @@ 3 :> 1>>

Call(o, m, k) == [op |-> o, mode |-> m, key |-> k]
Par(n, l) == [n |-> n, left |-> l]

Plan(l, c, r, ps, a, b, n) ==
    [leaves |-> l, cut |-> c, recs |-> p1 :> r @@ p2 :> {k \in Keys : Len(l) = 2 /\ k >= c},
     params |-> ps, calls |-> s1 :> a @@ s2 :> b, evictions |-> n]

S(m, k) == {Call("search", m, k)}
Some(M, K) == {Call("search", m, k) : m \in M, k \in K}
W(o, k) == {Call(o, "LE", k)}
R(k) == {Call("read", "GE", k)}

MCPlans == {
    \* guesses, an insert and an eviction
    Plan(<<p1>>, 1, {1, 3}, {Par(1, FALSE)},
         <<S("GE", 3), S("LE", 2)>>, <<W("insert", 2)>>, 1),
    \* shortcut reads of a record that is written
    Plan(<<p1>>, 1, {1, 2}, {Par(1, TRUE)},
         <<R(1) \cup R(2), R(1)>>, <<W("update", 1), W("delete", 1) \cup W("delete", 3)>>, 1),
    \* an insert that may split the page
    Plan(<<p1>>, 1, {1, 3}, {Par(1, FALSE), Par(2, TRUE)},
         <<Some({"LE"}, {1, 2}), Some({"LE", "GE"}, {2})>>, <<S("LE", 1), W("insert", 2)>>, 0),
    \* deletes that merge or discard a page
    Plan(<<p1, p2>>, 2, {1}, {Par(1, TRUE)},
         <<Some({"GE", "L"}, {2, 3}), Some(Modes, {2, 3})>>, <<W("delete", 3), W("delete", 2)>>, 0),
    \* builds and drops of one page by two searches
    Plan(<<p1>>, 1, {1, 2, 3}, {Par(1, TRUE), Par(2, FALSE)},
         <<S("GE", 2), S("GE", 2)>>, <<S("LE", 3), S("LE", 3)>>, 0) }
=============================================================================
