\* Two uploads of the same content: a job that is left running.
SPECIFICATION Spec
CONSTANTS
  Jobs = {j1, j2}
  Tenants = {"optics"}
  Requests <- TextRequests
  MaxCrashes = 0
PROPERTIES
  StartedJobSettles
