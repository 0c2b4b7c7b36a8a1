------------------------------ MODULE MCDeploy ------------------------------
(* Two places to run from, two releases, two configurations, and four      *)
(* commands, two steps of which may fail or be cut short.                  *)
EXTENDS Deploy

CONSTANTS local, built, root, noPlace

MCExes == {local, built}
MCVersions == {1, 2}
MCConfigs == {1, 2}

=============================================================================
