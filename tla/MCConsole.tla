------------------------------ MODULE MCConsole ------------------------------
(* Instances of Console for TLC: saves that are on their way are alike.    *)
(* The tours of one change enter a page twice, so that its lists are read, *)
(* marked while nobody observes them, and shown again; the contacts page   *)
(* is also left for another filter, and the metrics follow the tenants     *)
(* they count.  In those of two changes both saves are stored.             *)
EXTENDS Console, TLC

Symmetry == Permutations(Saves)
Tour(pages, changes) == [pages |-> pages, changes |-> changes]
MCTours ==
    {Tour(<<p, p>>, 1) : p \in {"contacts", "marketing", "automation", "tenants", "tenant", "plugins"}}
        \cup {Tour(<<"contacts", "filter">>, 1), Tour(<<"cases">>, 1), Tour(<<"analytics">>, 1),
              Tour(<<"tenants", "metrics">>, 1)}
        \cup {Tour(<<p>>, 2) : p \in {"contacts", "marketing", "tenants", "plugins"}}
=============================================================================
