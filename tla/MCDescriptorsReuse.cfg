\* One interpreter is lent again and again; one run may use up the descriptors.
CONSTANTS
  Interpreters = {i1}
  Files = {f1}
  Sockets = {s1, s2, s3}
  MaxHandles = 3
  LastDescriptor <- Last
  NoImage = NoImage
SPECIFICATION Spec
INVARIANT RunsStartAlike
