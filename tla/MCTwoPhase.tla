---------------------------- MODULE MCTwoPhase ----------------------------
\* The sessions of the instance and what each of them does.
EXTENDS TwoPhase, TLC

CONSTANTS s1, s2, s3, slave

Rows(a, b, c, d) == s1 :> a @@ s2 :> b @@ s3 :> c @@ slave :> d
Kind(a, b, c) == s1 :> a @@ s2 :> b @@ s3 :> c @@ slave :> "binlog_noxa"
Plan(k, r, w, o, l, n, m, c) ==
    [kind |-> k, rows |-> r, writers |-> w, own |-> o, slots |-> l, settings |-> n, commits |-> m,
     crashes |-> c]

\* Three sessions and one place inside; two sessions and no slot to wait in; two
\* sessions, a limit that changes and free tickets; a replication thread beside
\* a session; the two-phase commit of two sessions that change rows of their own,
\* with two crashes, the same of a session beside a user's own, and of three.
MCPlans ==
    { Plan(Kind("plain", "plain", "plain"), Rows(1, 1, 1, 0), {s1, s2}, {}, 2, {1}, 0, 0),
      Plan(Kind("plain", "plain", "plain"), Rows(2, 2, 0, 0), {s1, s2}, {}, 0, {1}, 1, 0),
      Plan(Kind("plain", "plain", "plain"), Rows(3, 2, 0, 0), {s1, s2}, {}, 2, {1, 2}, 0, 0),
      Plan(Kind("binlog", "plain", "plain"), Rows(2, 0, 0, 2), {s1, slave}, {}, 2, {1, 2}, 0, 0),
      Plan(Kind("binlog", "binlog", "plain"), Rows(1, 1, 0, 0), {s1, s2}, {s1, s2}, 2, {3}, 1, 2),
      Plan(Kind("binlog", "xa", "plain"), Rows(1, 1, 0, 0), {s1, s2}, {}, 2, {3}, 1, 2),
      Plan(Kind("binlog", "xa", "binlog_noxa"), Rows(1, 1, 1, 0), {s1, s3}, {s1}, 2, {3}, 1, 0),
      Plan(Kind("binlog", "xa", "binlog"), Rows(1, 1, 1, 0), {s1, s2, s3}, {s2}, 2, {3}, 1, 1) }
=============================================================================
