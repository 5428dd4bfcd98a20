CONSTANTS
  Binaries <- Shipped
  VersionTexts <- Texts
  MaxRuns = 2
SPECIFICATION Spec
CHECK_DEADLOCK FALSE
INVARIANTS WholePatch GraphCarried LoaderFinds RefusedWithCause OutputKept
