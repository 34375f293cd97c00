---------------------------- MODULE MCMailIntake ----------------------------
EXTENDS MailIntake

\* Two reports of one run; the first is stale before the last can be stored.
MCReports == {[run |-> 1, seq |-> 1, at |-> 0, interval |-> 0, incidents |-> {"i", "j"}, info |-> TRUE],
              [run |-> 1, seq |-> 2, at |-> 2, interval |-> 0, incidents |-> {"i"}, info |-> FALSE]}
=============================================================================
