SPECIFICATION Spec
CONSTANTS
  None = None  c3 = c3  v3 = v3  a = a  b = b
  Containers = {c1, c2, c3, c4}
  Volumes = {v1, v3}
  Images = {a, b}
  Image <- MCImage
  Block = TRUE
  Failing = {"enumerate", "attach", "mount", "overlay", "rename", "unmount", "detach"}
  MaxCrashes = 1
INVARIANT TypeOK VolumesExclusive  WritesSurvive
CHECK_DEADLOCK FALSE
