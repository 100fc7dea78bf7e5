SPECIFICATION Spec
CONSTANTS
  Code <- MCCode
  MaxFiles = 1
INVARIANTS TypeOK RegistrationUndone CleanUnload NoStrayRelease
           HandlerHasRegisters FilesKeepModule
