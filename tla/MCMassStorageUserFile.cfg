SPECIFICATION Spec
CONSTANTS
  s1 = s1
  s2 = s2
  l1 = l1
  l2 = l2
  l3 = l3
  d1 = d1
  d2 = d2
  m4a = m4a
  flac = flac
  Songs = {s1, s2}
  Versions = {v1}
  Places = {l1, l2, l3}
  DirOf <- MCDirOf
  Exts = {m4a, flac}
  Sidecar = FALSE
  Layouts <- MCLayouts
  UserFiles <- MCUserFiles
  UserTags = s1
  Delete = TRUE
  MaxChanges = 1
  MaxAccidents = 0
PROPERTY
  UserFilesSafe
