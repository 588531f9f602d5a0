SPECIFICATION Spec
CONSTANTS
  dev = dev
  iso = iso
  p1 = p1
  e1 = e1
  Project = {dev, iso}
  Target = iso
  VolumeOwner = dev
  Photo = {p1}
  Event = {e1}
  Keep = 1
  MaxRuns = 2
CHECK_DEADLOCK FALSE
PROPERTY OtherProjectsKeepObjects
