--------------------------- MODULE MCRunnerConfig ---------------------------
EXTENDS RunnerConfig

\* All first files look the same up to a renaming of sections and values.
MCInit == /\ ConfigInit
          /\ runner.section = CHOOSE s \in Section : TRUE
          /\ \A f \in Field : runner.fields[f] = CHOOSE v \in Value : TRUE

MCSpec == MCInit /\ [][ConfigNext]_configVars /\ ConfigFairness
=============================================================================
