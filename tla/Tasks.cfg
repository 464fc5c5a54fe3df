SPECIFICATION Spec
CONSTANTS
 t1=t1 t2=t2 d1=d1 d2=d2 o1=o1 o2=o2 c1=c1 c2=c2 k1=k1 k2=k2
 Tasks={t1,t2}
 NoResource="none"
 Resource <- MCResource
 WorkerOf <- MCWorkerOf
 Workers={"worker"}
 Budget=2
 Commands={k1,k2}
 Drivers={d1,d2}
 Operators={o1,o2}
 Controls={c1,c2}
 MaxSeq=3
 MaxPerm=2
INVARIANT RunsAreFenced OutcomesAreEarned ControlsAreSentOnce
PROPERTY NothingReopens
CONSTRAINT InTask
CHECK_DEADLOCK FALSE
