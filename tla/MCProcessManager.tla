-------------------------- MODULE MCProcessManager --------------------------
EXTENDS ProcessManager

\* "app" and "mod" depend on "dep"; nothing else depends on anything.
OnDep ==
  [title \in Titles |-> IF title \in {"app", "mod"} THEN {"dep"} \cap Sysmodules ELSE {}]
=============================================================================
