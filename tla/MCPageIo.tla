------------------------------ MODULE MCPageIo ------------------------------
\* Tablespaces, pages and entries of the instance and what the threads do.
EXTENDS PageIo, TLC

CONSTANTS a, b, a0, a1, b0, b1, h, e1, e2, z1, z2, u1, u2, f1, f2

MCSpaceOf == a0 :> a @@ a1 :> a @@ b0 :> b @@ b1 :> b
MCHome == h :> a0 @@ e1 :> a1 @@ e2 :> a1 @@ z1 :> b1 @@ z2 :> b1
MCBitmapOf == a1 :> a0 @@ b1 :> b0
MCContents == {a1, b1, h, e1, e2, z1, z2}

Plan(x, y, d, t, f, l, n, v) ==
    [inserts |-> u1 :> x @@ u2 :> y, ddl |-> d, target |-> t, flushers |-> f, later |-> l, limit |-> n,
     evictions |-> v]

\* Two inserts into a leaf with evictions, and the same where pages are
\* compressed; inserts and a drop, with and without compression; inserts, a
\* discard and an import, and a read of the new file, with flushes; two inserts in
\* turn, with flushes; and two tablespaces of which only one file may be open,
\* with flushes and a rename.
MCPlans ==
    { Plan(<<e1>>, <<e2>>, "none", a, {}, FALSE, 2, 2),
      Plan(<<z1>>, <<b1>>, "none", b, {}, FALSE, 2, 2),
      Plan(<<e1>>, <<e2>>, "drop", a, {}, FALSE, 2, 0),
      Plan(<<z1, b1>>, <<>>, "drop", b, {}, FALSE, 2, 1),
      Plan(<<e1>>, <<a1>>, "import", a, {f1}, FALSE, 2, 0),
      Plan(<<h, e1>>, <<>>, "none", a, {f1, f2}, FALSE, 2, 0),
      Plan(<<h>>, <<b0>>, "rename", a, {f1, f2}, FALSE, 1, 1) }

\* An insert before a discard and import of its tablespace, and one after it.
MCImportPlans == { Plan(<<e1>>, <<e2>>, "import", a, {}, TRUE, 2, 0) }
=============================================================================
