\* A login, and then two calls of any kind, one after another on the lock or waiting for it.
SPECIFICATION Spec
CONSTANTS
  Task = {1, 2}
  Kinds = {"list", "stat", "mkdir", "rename", "remove", "download", "upload", "resume", "quit"}
  MaxChildren = 2
INVARIANTS TypeOK InSync UploadConfirmed
PROPERTY EndsUnlessLeftOpen
\* When every call has ended there is nothing to do.
CHECK_DEADLOCK FALSE
