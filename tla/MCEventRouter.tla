----------------------------- MODULE MCEventRouter -----------------------------
EXTENDS EventRouter

\* The life of a container: it starts, is paused or dies, and is removed.
WholeLifecycle ==
    { <<"start", "new", "running">>, <<"pause", "running", "paused">>,
      <<"die", "running", "stopped">>, <<"destroy", "stopped", "gone">> }
================================================================================
