SPECIFICATION Spec

INVARIANT RunnerTypeOK

\* Run returns or throws once; the process has nothing left to do then.
CHECK_DEADLOCK FALSE
