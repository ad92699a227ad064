---------------------------- MODULE MCDashboards -----------------------------
EXTENDS Dashboards, TLC

Symmetry == Permutations(Browsers) \union Permutations(Widgets)
=============================================================================
