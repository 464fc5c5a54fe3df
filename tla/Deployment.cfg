SPECIFICATION Spec
CONSTANTS
 Tabs={x}
 Bindings={b,c}
 Requests={q}
 Capacity=1
 RingSize=1
 MaxCursor=1
 MaxSequence=1
 MaxEpoch=2
 MaxShells=2
 Accounts={"amber"}
 Sources={"home"}
 Tokens={k1,k2}
 Callers={c1,c2}
 Projects={p}
 MaxTime=2
 IdleTtl=1
 AbsoluteTtl=2
 RememberedTtl=2
 AssuranceTtl=1
 Window=1
 LockFor=1
 MaxFailures=2
 Viewers={"tab"}
 Runs={"x","y"}
 MaxRevision=6
 MaxGeneration=1
 MaxInputs=1
 Count=2
 MaxState=3
 MaxSigned=2
 Revisions={"a","b"}
 Messages=2
 MaxTasks=4
 Automatic=TRUE
 Items={i}
 Homes={"b","c"}
 CronJobs={w1,w2}
 MaxReviews=3
 MaxText=1
 MaxMandate=2
 MaxChanges=3
 LastDay=2
 ReviewTtl=1
 DayLong=2
 Budget=2
 FollowLimit=1
 MaxAttempts=2
 MaxData=2
 MaxFragments=3
 MaxBases=2
 ChunkChars=2
 MaxShown=3
 MaxPassages=2
 MaxUnits=2
 Needles={2,3}
 Offsets={0,1,2}
 Uploadable={"d","e"}
 HermesRun={"r1","r2"}
 Web={"w1","w2"}
 LastTurn=2
 MaxStored=2
 PageSize=1
 Downloads={"d1","d2"}
 Transfers={"u1","u2"}
 MaxChoosers=2
 Launches={1,2}
 GrantSeconds=2
 LeaseSeconds=2
 MaxTick=2
 MaxRequest=5
 Spawns={1,2}
 MaxStops=2
CONSTRAINT InCorner
INVARIANT TypeOK ShellsAreCounted HandsApart MessagesActOnce ProjectsArePrecise OwnerHasTheLastWord ReleaseKeepsItsProof
  ReadingMissesNothing FilesKeepTheirScope  OneBrowserOneHolder OneChromeAtATime
PROPERTY CodesAreSpentOnce UncertaintySticks
CHECK_DEADLOCK FALSE
