SPECIFICATION Spec
VIEW View
CONSTRAINT Bound
CONSTANTS
  Hosts = {"h1", "h2"}
  Tasks = {"t1"}
  TaskHosts <- MCTaskHosts
  Selections <- MCSelections
  Findings = {"f1", "f2"}
  MaxJobs = 3
  Operators = {"o1"}
INVARIANTS
  Accounted
  HostsApart
  BoundToApproval
PROPERTIES
  ResultsSound
  ImplementsApproval
